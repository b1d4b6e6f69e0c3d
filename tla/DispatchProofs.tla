--------------------------- MODULE DispatchProofs ---------------------------
(***************************************************************************)
(* The safety properties of Dispatch, proved for every cap on attempts.    *)
(*                                                                         *)
(* None of those worth stating is inductive alone. That the failovers      *)
(* counted are the slots they led to needs every call to be provoked by    *)
(* one cause only (EveryCallProvoked). That a walk wakes because of the    *)
(* slot before needs the chain to be worked off in order (StartedInOrder)  *)
(* and a sleeping walk to have no call out (PhasesAgree). That a failed    *)
(* request failed everywhere needs what was read before to have failed     *)
(* retryably (VerdictsAgree). ControlAgrees holds these together, and IInv *)
(* is its conjunction with the properties.                                 *)
(***************************************************************************)
EXTENDS Dispatch, TLAPS

\* The inductive invariant.
IInv ==
  /\ TypeOK
  /\ ControlAgrees
  /\ EveryCallRecordedOnce
  /\ EveryCallProvoked
  /\ CountersExplainTheChain
  /\ HedgeOvertakesOpenCall
  /\ VerdictOnEvidence

\* Taking the head off a queue that lists W leaves one that lists the rest.
LEMMA Dequeue ==
  ASSUME NEW q, NEW W \in SUBSET Slots, Lists(q, W), q # <<>>
  PROVE  Head(q) \in W /\ Lists(Tail(q), W \ {Head(q)})
<1>1. /\ Tail(q) \in Seq(Slots)
      /\ Len(q) \in Nat \ {0} /\ Len(Tail(q)) = Len(q) - 1
      /\ Head(q) = q[1] /\ q[1] \in Slots
      /\ \A k \in 1..Len(Tail(q)) : Tail(q)[k] = q[k + 1]
  BY DEF Lists
<1>2. Head(q) \in W
  BY <1>1 DEF Lists
<1>3. \A k, l \in 1..Len(Tail(q)) : Tail(q)[k] = Tail(q)[l] => k = l
  BY <1>1 DEF Lists
<1>4. ASSUME NEW i \in Slots
      PROVE  i \in W \ {Head(q)} <=> \E k \in 1..Len(Tail(q)) : Tail(q)[k] = i
  <2>1. ASSUME i \in W, i # Head(q) PROVE \E k \in 1..Len(Tail(q)) : Tail(q)[k] = i
    <3>1. PICK k \in 1..Len(q) : q[k] = i
      BY <2>1 DEF Lists
    <3>2. k - 1 \in 1..Len(Tail(q)) /\ Tail(q)[k - 1] = i
      BY <1>1, <2>1, <3>1
    <3> QED
      BY <3>2
  <2>2. ASSUME NEW k \in 1..Len(Tail(q)), Tail(q)[k] = i PROVE i \in W \ {Head(q)}
    <3>1. k + 1 \in 1..Len(q) /\ q[k + 1] = i /\ 1 \in 1..Len(q)
      BY <1>1, <2>2
    <3> QED
      BY <1>1, <3>1 DEF Lists
  <2> QED
    BY <2>1, <2>2
<1> QED
  BY <1>1, <1>2, <1>3, <1>4 DEF Lists

\* Appending a slot that is not listed lists it as well.
LEMMA Enqueue ==
  ASSUME NEW q, NEW W \in SUBSET Slots, Lists(q, W), NEW x \in Slots, x \notin W
  PROVE  Lists(Append(q, x), W \cup {x})
<1> DEFINE r == Append(q, x)
<1>1. /\ r \in Seq(Slots)
      /\ Len(q) \in Nat /\ Len(r) = Len(q) + 1
      /\ \A k \in 1..Len(q) : r[k] = q[k]
      /\ r[Len(q) + 1] = x
  BY DEF Lists
<1>2. \A k \in 1..Len(q) : q[k] # x
  BY DEF Lists
<1>3. \A k, l \in 1..Len(r) : r[k] = r[l] => k = l
  BY <1>1, <1>2 DEF Lists
<1>4. ASSUME NEW i \in Slots
      PROVE  i \in W \cup {x} <=> \E k \in 1..Len(r) : r[k] = i
  <2>1. CASE i = x
    BY <1>1, <2>1
  <2>2. CASE i # x
    <3>1. ASSUME i \in W PROVE \E k \in 1..Len(r) : r[k] = i
      <4>1. PICK k \in 1..Len(q) : q[k] = i
        BY <3>1 DEF Lists
      <4> QED
        BY <1>1, <4>1
    <3>2. ASSUME NEW k \in 1..Len(r), r[k] = i PROVE i \in W
      <4>1. k \in 1..Len(q) /\ q[k] = i
        BY <1>1, <2>2, <3>2
      <4> QED
        BY <4>1 DEF Lists
    <3> QED
      BY <2>2, <3>1, <3>2
  <2> QED
    BY <2>1, <2>2
<1> QED
  BY <1>1, <1>3, <1>4 DEF Lists

\* Causes are told apart by their kind and by the slot they blame.
LEMMA CausesDiffer ==
  \A i, j \in Nat : /\ Hedge(i) = Hedge(j) => i = j
                    /\ Failover(i) = Failover(j) => i = j
                    /\ Hedge(i) # Failover(j)
                    /\ First # Hedge(i) /\ First # Failover(i)
BY DEF Hedge, Failover, First

\* A call that was not read yet has provoked no failover.
LEMMA OwesNoFailover ==
  ASSUME next \in Nat, EveryCallProvoked, NEW i \in Slots, state[i] # "settled"
  PROVE  \A k \in 2..next : cause[k] # Failover(i)
BY CausesDiffer DEF EveryCallProvoked, Slots

\* A hedge overtakes the slot started just before it.
LEMMA HedgesOvertakePredecessors ==
  ASSUME next \in Nat, EveryCallProvoked, NEW i \in Nat
  PROVE  \A k \in 2..next : cause[k] = Hedge(i) => k = i + 1
BY CausesDiffer DEF EveryCallProvoked

\* One more record for slot i: the other ledgers keep theirs, and an empty
\* ledger then holds exactly that record.
LEMMA RecordOne ==
  ASSUME NEW i \in Slots, NEW v \in Records, recorded \in [Slots -> [Records -> Nat]],
         recorded' = [recorded EXCEPT ![i][v] = @ + 1]
  PROVE  /\ recorded' \in [Slots -> [Records -> Nat]]
         /\ \A j \in Slots : j # i => recorded'[j] = recorded[j]
         /\ recorded[i] = Nothing => recorded'[i] = Once(v)
<1>1. recorded' = [recorded EXCEPT ![i] = [recorded[i] EXCEPT ![v] = @ + 1]]
  OBVIOUS
<1>2. recorded[i] \in [Records -> Nat]
  OBVIOUS
<1>3. [recorded[i] EXCEPT ![v] = @ + 1] \in [Records -> Nat]
  BY <1>2
<1>4. recorded[i] = Nothing => [recorded[i] EXCEPT ![v] = @ + 1] = Once(v)
  BY DEF Nothing, Once
<1> QED
  BY <1>1, <1>3, <1>4

\* The order of the counters of a chain.
LEMMA Numbers ==
  ASSUME TypeOK, PhasesAgree
  PROVE  /\ MaxAttempt \in Nat /\ MaxAttempt >= 1
         /\ limit \in Nat /\ next \in Nat /\ next <= limit /\ limit <= MaxAttempt
         /\ next >= 1 => next \in Slots /\ 1 \in Slots
         /\ next < limit => next + 1 \in Slots
<1>1. MaxAttempt \in Nat \ {0} /\ limit \in 1..MaxAttempt /\ next \in 0..MaxAttempt
  BY MaxAttemptAssumption DEF TypeOK, Slots
<1>2. next <= limit
  BY DEF PhasesAgree
<1> QED
  BY <1>1, <1>2 DEF Slots

\* A step that starts no call and unsettles none keeps every call provoked.
LEMMA ChainKept ==
  ASSUME EveryCallProvoked, next \in Nat, next <= MaxAttempt, MaxAttempt \in Nat,
         UNCHANGED <<mode, next, cause>>,
         \A j \in Slots : state[j] = "settled" => state'[j] = "settled" /\ verdict'[j] = verdict[j]
  PROVE  EveryCallProvoked'
<1>1. ASSUME NEW k \in 2..next, NEW i \in 1..(k - 1) PROVE i \in Slots
  BY DEF Slots
<1> QED
  BY <1>1 DEF EveryCallProvoked

\* A walk that is asleep after the failure of slot i, or was dropped there.
Asleep(i) ==
  /\ phase \in {"sleeping", "hung_up"} /\ mode = "sequential"
  /\ i = next /\ state[i] = "settled"

\* A step that starts no call and counts nothing keeps the counters explained,
\* provided it neither puts a walk to sleep nor wakes it.
LEMMA CountersKept ==
  ASSUME CountersExplainTheChain, UNCHANGED <<next, cause, hedges, failovers>>,
         \A j \in Slots : Asleep(j)' <=> Asleep(j)
  PROVE  CountersExplainTheChain'
BY DEF CountersExplainTheChain, Asleep

\* The handler returns: one call is settled, the others are dropped. The last
\* assumption is what the two actions that end a request have in common.
LEMMA FinishIInv ==
  ASSUME IInv, NEW i \in Slots, Arrived(i), Finish(i),
         UNCHANGED <<mode, limit, verdict, fired>>,
         \/ verdict[i] \notin Retryable
         \/ mode = "hedged_write"
         \/ verdict[i] \in Retryable /\ ~more /\ Out = {i}
  PROVE  IInv'
<1> DEFINE ok == verdict[i] = "success"
<1>inv. /\ TypeOK /\ StartedInOrder /\ QueueAgrees /\ VerdictsAgree /\ PhasesAgree
        /\ NothingCountedEarly /\ EveryCallRecordedOnce /\ EveryCallProvoked
        /\ CountersExplainTheChain
  BY DEF IInv, ControlAgrees
<1>step. /\ phase = "running" /\ ~fired /\ state[i] = "arrived"
         /\ phase' = "done" /\ ready' = <<>>
         /\ UNCHANGED <<mode, limit, verdict, fired, next, cause, failovers, hedges>>
         /\ failed' = IF ok THEN failed ELSE i
         /\ reply' = IF verdict[i] \in HasBody THEN BodyOf(i) ELSE InternalError(i)
  BY DEF Arrived, Finish
<1>num. /\ MaxAttempt \in Nat /\ limit \in Nat /\ next \in Nat /\ next <= limit
        /\ limit <= MaxAttempt /\ i \in 1..next
  <2>1. i \in 1..MaxAttempt
    BY DEF Slots
  <2>2. i <= next
    BY <1>inv, <1>step DEF StartedInOrder
  <2> QED
    BY <2>1, <2>2, <1>inv, Numbers
<1>out. verdict[i] \in Outcomes /\ verdict[i] \in Records
  BY <1>inv, <1>step DEF VerdictsAgree, Records
<1>state. \A j \in Slots : state'[j] = IF j = i THEN "settled"
                                       ELSE IF state[j] \in Armed THEN "abandoned"
                                       ELSE IF state[j] = "launched" THEN "never_called"
                                       ELSE state[j]
  BY <1>inv DEF Finish, DropOthers, TypeOK, Armed
<1>dom. state' \in [Slots -> States]
  <2>1. DOMAIN state' = Slots /\ state' = [j \in Slots |-> state'[j]]
    BY DEF Finish, DropOthers
  <2>2. \A j \in Slots : state'[j] \in States
    BY <1>state, <1>inv DEF TypeOK, States
  <2> QED
    BY <2>1, <2>2
<1>seen. \A j \in Slots : /\ state[j] \in States
                          /\ state[j] \notin {"abandoned", "never_called"}
                          /\ state[j] = "settled" => verdict[j] \in Retryable
  BY <1>inv, <1>step DEF VerdictsAgree, Over, TypeOK
<1>1. EveryCallRecordedOnce' /\ recorded' \in [Slots -> [Records -> Nat]]
  <2> DEFINE read    == [recorded EXCEPT ![i][verdict[i]] = @ + 1]
             settled == [state EXCEPT ![i] = "settled"]
  <2>1. /\ recorded[i] = Nothing
        /\ \A j \in Slots : state[j] \in Armed => recorded[j] = Nothing
    BY <1>inv, <1>step DEF EveryCallRecordedOnce, Armed
  <2>2. /\ read \in [Slots -> [Records -> Nat]]
        /\ read[i] = Once(verdict[i])
        /\ \A j \in Slots : j # i => read[j] = recorded[j]
    <3>1. [recorded[i] EXCEPT ![verdict[i]] = @ + 1] \in [Records -> Nat]
      <4>1. recorded[i] \in [Records -> Nat]
        BY <1>inv DEF TypeOK
      <4>2. \A f \in [Records -> Nat] : \A v \in Records : [f EXCEPT ![v] = @ + 1] \in [Records -> Nat]
        OBVIOUS
      <4> QED
        BY <4>1, <4>2, <1>out
    <3>2. read = [recorded EXCEPT ![i] = [recorded[i] EXCEPT ![verdict[i]] = @ + 1]]
      OBVIOUS
    <3>3. [recorded[i] EXCEPT ![verdict[i]] = @ + 1] = Once(verdict[i])
      BY <2>1, <1>out DEF Nothing, Once
    <3> QED
      BY <3>1, <3>2, <3>3, <1>inv DEF TypeOK
  <2>3. recorded' = [j \in Slots |-> IF settled[j] \in Armed
                                     THEN [read[j] EXCEPT !["abandoned"] = @ + 1]
                                     ELSE read[j]]
    BY DEF Finish, RecordDropped
  <2>4. \A j \in Slots : settled[j] \in Armed <=> j # i /\ state[j] \in Armed
    BY <1>inv DEF TypeOK, Armed
  <2>5. [Nothing EXCEPT !["abandoned"] = @ + 1] = Once("abandoned")
    BY DEF Nothing, Once
  <2>6. ASSUME NEW j \in Slots
        PROVE  /\ recorded'[j] = IF j = i THEN Once(verdict[i])
                                 ELSE IF state[j] \in Armed THEN Once("abandoned")
                                 ELSE recorded[j]
               /\ recorded'[j] \in [Records -> Nat]
    <3> HIDE DEF read, settled
    <3>1. recorded'[j] = IF j # i /\ state[j] \in Armed
                         THEN [read[j] EXCEPT !["abandoned"] = @ + 1] ELSE read[j]
      BY <2>3, <2>4
    <3>2. Once("abandoned") \in [Records -> Nat]
      BY DEF Once
    <3>3. CASE j = i
      BY <3>1, <3>3, <2>2
    <3>4. CASE j # i /\ state[j] \in Armed
      <4>1. read[j] = Nothing
        BY <3>4, <2>1, <2>2
      <4>2. recorded'[j] = [Nothing EXCEPT !["abandoned"] = @ + 1]
        BY <3>1, <3>4, <4>1
      <4> QED
        BY <4>2, <3>2, <3>4, <2>5
    <3>5. CASE j # i /\ state[j] \notin Armed
      BY <3>1, <3>5, <2>2, <1>inv DEF TypeOK
    <3> QED
      BY <3>3, <3>4, <3>5
  <2>7. recorded' \in [Slots -> [Records -> Nat]]
    <3> HIDE DEF read, settled
    <3>1. recorded' = [j \in Slots |-> recorded'[j]]
      BY <2>3
    <3> QED
      BY <3>1, <2>6
  <2>8. Out' = {}
    BY <1>state DEF Out, Armed
  <2>9. ASSUME NEW j \in Slots
        PROVE  recorded'[j] = IF state'[j] = "settled" THEN Once(verdict'[j])
                              ELSE IF state'[j] = "abandoned" THEN Once("abandoned")
                              ELSE Nothing
    <3>1. recorded[j] = IF state[j] = "settled" THEN Once(verdict[j])
                        ELSE IF state[j] = "abandoned" THEN Once("abandoned")
                        ELSE Nothing
      BY <1>inv DEF EveryCallRecordedOnce
    <3> QED
      BY <3>1, <2>6, <1>state, <1>step DEF Armed
  <2> QED
    BY <2>7, <2>8, <2>9 DEF EveryCallRecordedOnce
<1>wins. /\ wins' \in [Slots -> Nat]
         /\ \A j \in Slots : wins'[j] = IF ok /\ cause[i] = Hedge(j) THEN 1 ELSE 0
  <2>1. \A j \in Slots : wins[j] = 0
    BY <1>inv, <1>step DEF NothingCountedEarly
  <2>2. cause[i] = First \/ (\E m \in Slots : cause[i] = Hedge(m) \/ cause[i] = Failover(m))
    <3>1. CASE i = 1
      BY <3>1, <1>inv, <1>num DEF PhasesAgree
    <3>2. CASE i # 1
      <4>1. i \in 2..next /\ \A m \in 1..(i - 1) : m \in Slots
        BY <3>2, <1>num DEF Slots
      <4>2. i - 1 \in 1..(i - 1)
        BY <3>2, <1>num
      <4> QED
        BY <4>1, <4>2, <1>inv DEF EveryCallProvoked
    <3> QED
      BY <3>1, <3>2
  <2>3. CASE ok /\ cause[i].kind = "hedge"
    <3>1. PICK m \in Slots : cause[i] = Hedge(m)
      <4>1. First.kind # "hedge" /\ \A m \in Slots : Failover(m).kind # "hedge"
        BY DEF First, Failover
      <4> QED
        BY <4>1, <2>2, <2>3
    <3>2. cause[i].of = m /\ \A j \in Slots : Hedge(j) = Hedge(m) => j = m
      BY <3>1, CausesDiffer DEF Hedge, Slots
    <3>3. wins' = [wins EXCEPT ![m] = @ + 1]
      BY <3>2, <2>3 DEF Finish
    <3> QED
      BY <3>1, <3>2, <3>3, <2>1, <2>3, <1>inv DEF TypeOK
  <2>4. CASE ~(ok /\ cause[i].kind = "hedge")
    <3>1. wins' = wins
      BY <2>4 DEF Finish
    <3>2. \A j \in Slots : ok => cause[i] # Hedge(j)
      BY <2>4 DEF Hedge
    <3> QED
      BY <3>1, <3>2, <2>1, <1>inv DEF TypeOK
  <2> QED
    BY <2>3, <2>4
<1>req. /\ requests' \in [answered : Nat, failed : Nat, attempts : Nat]
        /\ requests'.answered = (IF ok THEN 1 ELSE 0)
        /\ requests'.failed = (IF ok THEN 0 ELSE 1)
  <2>1. requests = [answered |-> 0, failed |-> 0, attempts |-> 0]
    BY <1>inv, <1>step DEF NothingCountedEarly
  <2>2. requests' = [answered |-> requests.answered + (IF ok THEN 1 ELSE 0),
                     failed   |-> requests.failed + (IF ok THEN 0 ELSE 1),
                     attempts |-> requests.attempts + next]
    BY DEF Finish
  <2> QED
    BY <2>1, <2>2, <1>num
<1>2. TypeOK'
  <2>1. reply' \in Replies
    BY <1>step DEF BodyOf, InternalError, Replies, Slots
  <2>2. failed' \in {0} \cup Slots /\ phase' \in Phases /\ ready' \in Seq(Slots)
    BY <1>inv, <1>step DEF TypeOK, Phases
  <2> QED
    BY <1>inv, <1>step, <1>dom, <1>1, <1>wins, <1>req, <2>1, <2>2 DEF TypeOK
<1>3. QueueAgrees'
  <2>1. Queued' = {}
    BY <1>state DEF Queued, Armed
  <2> QED
    BY <2>1, <1>step DEF QueueAgrees, Lists
<1>4. StartedInOrder'
  BY <1>inv, <1>step, <1>state DEF StartedInOrder, Armed
<1>5. VerdictsAgree'
  <2>1. failed' # 0 => failed' <= next' /\ state'[failed'] = "settled"
    <3>1. CASE ok
      BY <3>1, <1>inv, <1>step, <1>state DEF VerdictsAgree, TypeOK, Armed
    <3>2. CASE ~ok
      BY <3>2, <1>step, <1>state, <1>num
    <3> QED
      BY <3>1, <3>2
  <2>2. \A j \in Slots :
          /\ state'[j] \in {"unstarted", "launched", "inflight", "never_called"} => verdict'[j] = Pending
          /\ state'[j] \in {"arrived", "settled"} => verdict'[j] \in Outcomes
    BY <1>inv, <1>step, <1>state, <1>out DEF VerdictsAgree, Armed
  <2>3. Over'
    BY <1>step DEF Over
  <2> QED
    BY <2>1, <2>2, <2>3 DEF VerdictsAgree
<1>6. PhasesAgree'
  <2>1. \A j \in Slots : state'[j] # "launched"
    BY <1>state, <1>dom DEF Armed
  <2> QED
    BY <2>1, <1>inv, <1>step, <1>num DEF PhasesAgree
<1>7. NothingCountedEarly'
  BY <1>step DEF NothingCountedEarly
<1>8. EveryCallProvoked'
  BY <1>inv, <1>step, <1>num, <1>state, ChainKept DEF Armed
<1>9. CountersExplainTheChain'
  BY <1>inv, <1>step, CountersKept DEF Asleep
<1>10. HedgeOvertakesOpenCall'
  BY <1>step DEF HedgeOvertakesOpenCall
<1>11. VerdictOnEvidence'
  <2>1. CASE ok
    <3>1. reply' = BodyOf(i) /\ state'[i] = "settled" /\ verdict'[i] = "success"
      BY <2>1, <1>step, <1>state DEF HasBody
    <3>2. \A j \in Slots : /\ j # i /\ state'[j] = "settled" => verdict'[j] \in Retryable
                           /\ wins'[j] = IF cause'[i] = Hedge(j) THEN 1 ELSE 0
      BY <2>1, <1>step, <1>state, <1>seen, <1>wins DEF Armed
    <3>3. requests'.answered = 1 /\ requests'.failed = 0 /\ i \in 1..next'
      BY <2>1, <1>req, <1>num, <1>step
    <3> QED
      BY <3>1, <3>2, <3>3 DEF VerdictOnEvidence
  <2>2. CASE ~ok
    <3>1. /\ requests'.answered = 0 /\ requests'.failed = 1
          /\ failed' = i /\ i \in 1..next' /\ state'[i] = "settled" /\ verdict'[i] # "success"
          /\ reply' = IF verdict'[i] \in HasBody THEN BodyOf(i) ELSE InternalError(i)
          /\ \A j \in Slots : wins'[j] = 0
      BY <2>2, <1>req, <1>num, <1>step, <1>state, <1>wins
    <3>2. \/ verdict'[i] \notin Retryable
          \/ mode' = "hedged_write"
          \/ \A j \in 1..limit' : state'[j] = "settled" /\ verdict'[j] \in Retryable
      <4>1. SUFFICES ASSUME verdict[i] \in Retryable, ~more, Out = {i}, NEW j \in 1..limit
                     PROVE  state'[j] = "settled" /\ verdict'[j] \in Retryable
        BY <1>step
      <4>2. j \in Slots /\ j <= next
        BY <4>1, <1>num DEF more, Slots
      <4>3. CASE j = i
        BY <4>1, <4>3, <1>state, <1>step
      <4>4. CASE j # i
        <5>1. state[j] # "unstarted" /\ state[j] \notin {"launched", "inflight", "arrived"}
          BY <4>1, <4>2, <4>4, <1>inv DEF StartedInOrder, Out
        <5>2. state[j] = "settled"
          BY <5>1, <4>2, <1>seen DEF States
        <5> QED
          BY <5>2, <4>2, <4>4, <1>state, <1>seen, <1>step DEF Armed
      <4> QED
        BY <4>3, <4>4
    <3> QED
      BY <3>1, <3>2 DEF VerdictOnEvidence
  <2> QED
    BY <2>1, <2>2
<1> QED
  BY <1>1, <1>2, <1>3, <1>4, <1>5, <1>6, <1>7, <1>8, <1>9, <1>10, <1>11 DEF IInv, ControlAgrees

\* A retryable failure is read and the race launches the next slot.
LEMMA SettleFailoverIInv ==
  ASSUME IInv, NEW i \in Slots, SettleFailover(i) PROVE IInv'
<1> USE MaxAttemptAssumption
<1> DEFINE n == next + 1
<1>inv. /\ TypeOK /\ StartedInOrder /\ QueueAgrees /\ VerdictsAgree /\ PhasesAgree
        /\ NothingCountedEarly /\ EveryCallRecordedOnce /\ EveryCallProvoked
        /\ CountersExplainTheChain
  BY DEF IInv, ControlAgrees
<1>step. /\ phase = "running" /\ mode = "hedged_read" /\ ready # <<>> /\ ~fired
         /\ i = Head(ready) /\ state[i] = "arrived" /\ verdict[i] \in Retryable
         /\ next < limit /\ next' = n /\ failed' = i
         /\ ready' = Append(Tail(ready), n)
         /\ UNCHANGED <<mode, limit, phase, verdict, fired, reply, hedges, wins, requests>>
  BY DEF SettleFailover, Arrived, Launch, more
<1>change. /\ state' = [state EXCEPT ![i] = "settled", ![n] = "launched"]
           /\ cause' = [cause EXCEPT ![n] = Failover(i)]
           /\ recorded' = [recorded EXCEPT ![i][verdict[i]] = @ + 1]
           /\ failovers' = [failovers EXCEPT ![i] = @ + 1]
  BY DEF SettleFailover, Launch, RecordSettled
<1>num. /\ next \in Nat /\ limit \in Nat /\ MaxAttempt \in Nat /\ limit <= MaxAttempt /\ next >= 1
        /\ i \in Nat /\ i >= 1 /\ i <= MaxAttempt
  <2>1. MaxAttempt \in Nat /\ i \in 1..MaxAttempt /\ limit \in 1..MaxAttempt /\ next \in 0..MaxAttempt
    BY <1>inv DEF TypeOK, Slots
  <2>2. next >= 1
    BY <1>inv, <1>step DEF PhasesAgree
  <2> QED
    BY <2>1, <2>2
<1>rec. verdict[i] \in Outcomes /\ verdict[i] \in Records
  BY <1>step DEF Retryable, Outcomes, Records
<1>in. next \in Slots /\ n \in Slots /\ n <= limit
  BY <1>num, <1>step DEF Slots
<1>new. i <= next /\ state[n] = "unstarted" /\ i # n
  BY <1>inv, <1>step, <1>num, <1>in DEF StartedInOrder
<1>state. \A j \in Slots : state'[j] = IF j = n THEN "launched" ELSE IF j = i THEN "settled" ELSE state[j]
  BY <1>inv, <1>change, <1>in, <1>new DEF TypeOK
<1>cause. \A j \in Slots : cause'[j] = IF j = n THEN Failover(i) ELSE cause[j]
  BY <1>inv, <1>change, <1>in DEF TypeOK
<1>1. TypeOK'
  <2>1. ready' \in Seq(Slots)
    BY <1>inv, <1>step, <1>in DEF TypeOK
  <2>2. state' \in [Slots -> States]
    BY <1>inv, <1>change, <1>in DEF TypeOK, States
  <2>3. cause' \in [Slots -> Causes]
    <3>1. Failover(i) \in Causes
      BY DEF Failover, Causes, Slots
    <3> QED
      BY <3>1, <1>inv, <1>change DEF TypeOK
  <2>4. recorded' \in [Slots -> [Records -> Nat]]
    BY <1>inv, <1>change, <1>rec, RecordOne DEF TypeOK
  <2>5. failovers' \in [Slots -> Nat]
    BY <1>inv, <1>change DEF TypeOK
  <2>6. next' \in 0..MaxAttempt
    BY <1>step, <1>in DEF Slots
  <2> QED
    BY <1>inv, <1>step, <1>in, <2>1, <2>2, <2>3, <2>4, <2>5, <2>6 DEF TypeOK
<1>2. QueueAgrees'
  <2>1. Lists(Tail(ready), Queued \ {i})
    BY <1>inv, <1>step, Dequeue DEF QueueAgrees, Queued
  <2>2. n \notin Queued
    BY <1>new DEF Queued
  <2>3. Lists(ready', (Queued \ {i}) \cup {n})
    BY <1>step, <1>in, <2>1, <2>2, Enqueue DEF Queued
  <2>4. Queued' = (Queued \ {i}) \cup {n}
    BY <1>state, <1>in, <1>new DEF Queued
  <2> QED
    BY <2>3, <2>4 DEF QueueAgrees, Lists
<1>3. StartedInOrder'
  BY <1>inv, <1>step, <1>num, <1>in, <1>new, <1>state DEF StartedInOrder, Slots
<1>4. VerdictsAgree'
  BY <1>inv, <1>step, <1>num, <1>in, <1>new, <1>state DEF VerdictsAgree, Over, Retryable, Outcomes
<1>5. PhasesAgree'
  <2>1. n \in Out'
    BY <1>in, <1>state DEF Out
  <2>2. cause'[1] = cause[1]
    BY <1>num, <1>cause DEF Slots
  <2> QED
    BY <1>inv, <1>step, <1>num, <1>in, <2>1, <2>2 DEF PhasesAgree
<1>6. NothingCountedEarly'
  BY <1>inv, <1>step DEF NothingCountedEarly
<1>7. EveryCallRecordedOnce'
  <2>1. recorded[i] = Nothing
    BY <1>inv, <1>step DEF EveryCallRecordedOnce
  <2>2. recorded'[i] = Once(verdict[i]) /\ \A j \in Slots : j # i => recorded'[j] = recorded[j]
    BY <2>1, <1>inv, <1>change, <1>rec, RecordOne DEF TypeOK
  <2> QED
    BY <1>inv, <1>step, <1>in, <1>new, <1>state, <2>2 DEF EveryCallRecordedOnce, Over
<1>8. EveryCallProvoked'
  <2> DEFINE Owed(k) == \E m \in 1..(k - 1) :
                           /\ cause'[k] = Failover(m)
                           /\ state'[m] = "settled" /\ verdict'[m] \in Retryable
                           /\ \A j \in 2..next' : cause'[j] = Failover(m) => j = k
  <2>1. \A k \in 2..next : cause[k] # Failover(i)
    BY <1>inv, <1>step, <1>num, OwesNoFailover
  <2>2. ASSUME NEW k \in 2..next, cause[k] = Hedge(k - 1)
        PROVE  cause'[k] = Hedge(k - 1)
    <3>1. k \in Slots /\ k # n
      BY <1>num, <1>in DEF Slots
    <3> QED
      BY <2>2, <3>1, <1>cause
  <2>3. ASSUME NEW k \in 2..next, cause[k] # Hedge(k - 1) PROVE Owed(k)
    <3>1. PICK m \in 1..(k - 1) :
            /\ cause[k] = Failover(m)
            /\ state[m] = "settled" /\ verdict[m] \in Retryable
            /\ \A j \in 2..next : cause[j] = Failover(m) => j = k
      BY <2>3, <1>inv DEF EveryCallProvoked
    <3>2. k \in Slots /\ m \in Slots /\ k # n /\ m # n /\ m # i
      BY <3>1, <1>num, <1>step, <1>in DEF Slots
    <3>3. Failover(i) # Failover(m)
      BY <3>2, <1>num, CausesDiffer
    <3>4. cause'[k] = Failover(m) /\ state'[m] = "settled" /\ verdict'[m] \in Retryable
      BY <3>1, <3>2, <1>cause, <1>state, <1>step
    <3>5. \A j \in 2..next' : cause'[j] = Failover(m) => j = k
      BY <3>1, <3>3, <1>cause, <1>step, <1>num, <1>in DEF Slots
    <3> QED
      BY <3>4, <3>5
  <2>4. Owed(n)
    <3>1. i \in 1..(n - 1) /\ cause'[n] = Failover(i) /\ state'[i] = "settled" /\ verdict'[i] \in Retryable
      BY <1>num, <1>new, <1>cause, <1>state, <1>step, <1>in
    <3>2. \A j \in 2..next' : cause'[j] = Failover(i) => j = n
      BY <2>1, <1>cause, <1>step, <1>num, <1>in DEF Slots
    <3> QED
      BY <3>1, <3>2
  <2>5. \A k \in 2..next' : k = n \/ k \in 2..next
    BY <1>step, <1>num
  <2>6. \A k \in 2..next' : (cause'[k] = Hedge(k - 1) /\ mode' = "hedged_read") \/ Owed(k)
    BY <2>2, <2>3, <2>4, <2>5, <1>step
  <2> QED
    BY <2>6, <1>step DEF EveryCallProvoked
<1>9. CountersExplainTheChain'
  <2>1. \A k \in 2..next : cause[k] # Failover(i)
    BY <1>inv, <1>step, <1>num, OwesNoFailover
  <2>2. failovers[i] = 0
    BY <2>1, <1>inv, <1>step DEF CountersExplainTheChain
  <2>3. \A j \in Slots : failovers'[j] = IF j = i THEN 1 ELSE failovers[j]
    BY <2>2, <1>inv, <1>change DEF TypeOK
  <2>4. ASSUME NEW j \in Slots
        PROVE /\ (\E k \in 2..next' : cause'[k] = Hedge(j)) <=> (\E k \in 2..next : cause[k] = Hedge(j))
              /\ (\E k \in 2..next' : cause'[k] = Failover(j)) <=> (j = i \/ \E k \in 2..next : cause[k] = Failover(j))
    <3>1. Failover(i) # Hedge(j) /\ (Failover(i) = Failover(j) => i = j)
      BY <1>num, CausesDiffer DEF Slots
    <3>2. n \in 2..next' /\ cause'[n] = Failover(i)
      BY <1>num, <1>step, <1>cause, <1>in
    <3>3. \A k \in 2..next : k \in 2..next' /\ cause'[k] = cause[k]
      BY <1>num, <1>step, <1>cause DEF Slots
    <3>4. \A k \in 2..next' : k = n \/ k \in 2..next
      BY <1>num, <1>step
    <3> QED
      BY <3>1, <3>2, <3>3, <3>4
  <2> QED
    BY <2>3, <2>4, <1>inv, <1>step DEF CountersExplainTheChain
<1>10. HedgeOvertakesOpenCall'
  BY <1>step, <1>in, <1>state DEF HedgeOvertakesOpenCall, Out
<1>11. VerdictOnEvidence'
  BY <1>step DEF VerdictOnEvidence
<1> QED
  BY <1>1, <1>2, <1>3, <1>4, <1>5, <1>6, <1>7, <1>8, <1>9, <1>10, <1>11 DEF IInv, ControlAgrees

\* A retryable failure is read and no call is started: what SettleWait and
\* SettleSleep share. The assumptions on the next state are what they do not.
LEMMA ReadOne ==
  ASSUME IInv, NEW i \in Slots, Arrived(i), verdict[i] \in Retryable,
         state' = [state EXCEPT ![i] = "settled"], RecordSettled(i),
         ready' = Tail(ready), failed' = i,
         UNCHANGED <<mode, limit, next, verdict, cause, fired, reply, hedges, wins, requests>>,
         phase' \in {"running", "sleeping"}, failovers' \in [Slots -> Nat],
         PhasesAgree', CountersExplainTheChain', HedgeOvertakesOpenCall'
  PROVE  IInv'
<1>inv. /\ TypeOK /\ StartedInOrder /\ QueueAgrees /\ VerdictsAgree /\ PhasesAgree
        /\ NothingCountedEarly /\ EveryCallRecordedOnce /\ EveryCallProvoked
  BY DEF IInv, ControlAgrees
<1>step. /\ phase = "running" /\ ready # <<>> /\ i = Head(ready) /\ state[i] = "arrived"
         /\ recorded' = [recorded EXCEPT ![i][verdict[i]] = @ + 1]
  BY DEF Arrived, RecordSettled
<1>state. \A j \in Slots : state'[j] = IF j = i THEN "settled" ELSE state[j]
  BY <1>inv DEF TypeOK
<1>out. verdict[i] \in Outcomes /\ verdict[i] \in Records
  BY DEF Retryable, Outcomes, Records
<1>rec. /\ recorded' \in [Slots -> [Records -> Nat]]
        /\ recorded'[i] = Once(verdict[i])
        /\ \A j \in Slots : j # i => recorded'[j] = recorded[j]
  <2>1. recorded[i] = Nothing
    BY <1>inv, <1>step DEF EveryCallRecordedOnce
  <2> QED
    BY <2>1, <1>inv, <1>step, <1>out, RecordOne DEF TypeOK
<1>1. TypeOK'
  <2>1. state' \in [Slots -> States]
    BY <1>inv DEF TypeOK, States
  <2>2. ready' \in Seq(Slots)
    BY <1>inv, <1>step DEF TypeOK
  <2> QED
    BY <2>1, <2>2, <1>inv, <1>rec DEF TypeOK, Phases
<1>2. QueueAgrees'
  <2>1. Lists(Tail(ready), Queued \ {i})
    BY <1>inv, <1>step, Dequeue DEF QueueAgrees, Queued
  <2>2. Queued' = Queued \ {i}
    BY <1>state DEF Queued
  <2> QED
    BY <2>1, <2>2 DEF QueueAgrees, Lists
<1>3. StartedInOrder'
  BY <1>inv, <1>step, <1>state DEF StartedInOrder
<1>4. VerdictsAgree'
  BY <1>inv, <1>step, <1>state, <1>out DEF VerdictsAgree, Over, StartedInOrder, Slots
<1>5. NothingCountedEarly'
  BY <1>inv, <1>step DEF NothingCountedEarly
<1>6. EveryCallRecordedOnce'
  <2>1. ASSUME NEW j \in Slots
        PROVE  recorded'[j] = IF state'[j] = "settled" THEN Once(verdict'[j])
                              ELSE IF state'[j] = "abandoned" THEN Once("abandoned")
                              ELSE Nothing
    <3>1. recorded[j] = IF state[j] = "settled" THEN Once(verdict[j])
                        ELSE IF state[j] = "abandoned" THEN Once("abandoned")
                        ELSE Nothing
      BY <1>inv DEF EveryCallRecordedOnce
    <3>2. verdict' = verdict
      OBVIOUS
    <3> QED
      BY <3>1, <3>2, <1>state, <1>rec
  <2>2. ~Over'
    BY DEF Over
  <2> QED
    BY <2>1, <2>2 DEF EveryCallRecordedOnce
<1>7. EveryCallProvoked'
  BY <1>inv, <1>step, <1>state, Numbers, ChainKept
<1>8. VerdictOnEvidence'
  BY DEF VerdictOnEvidence
<1> QED
  BY <1>1, <1>2, <1>3, <1>4, <1>5, <1>6, <1>7, <1>8 DEF IInv, ControlAgrees

\* The race keeps a failure and waits for the calls that are out.
LEMMA SettleWaitIInv ==
  ASSUME IInv, NEW i \in Slots, SettleWait(i) PROVE IInv'
<1>inv. TypeOK /\ PhasesAgree /\ CountersExplainTheChain
  BY DEF IInv, ControlAgrees
<1>step. /\ Arrived(i) /\ phase = "running" /\ state[i] = "arrived"
         /\ mode = "hedged_read" /\ verdict[i] \in Retryable /\ ~more /\ Out # {i}
         /\ state' = [state EXCEPT ![i] = "settled"] /\ RecordSettled(i)
         /\ ready' = Tail(ready) /\ failed' = i
         /\ UNCHANGED <<mode, limit, phase, next, verdict, cause, fired, reply,
                        failovers, hedges, wins, requests>>
  BY DEF SettleWait, Arrived
<1>1. Out' # {}
  <2>1. PICK j \in Out : j # i
    BY <1>step DEF Out
  <2>2. j \in Slots /\ state'[j] = state[j]
    BY <2>1, <1>inv, <1>step DEF Out, TypeOK
  <2> QED
    BY <2>1, <2>2 DEF Out
<1>2. PhasesAgree'
  BY <1>1, <1>inv, <1>step DEF PhasesAgree, more
<1>3. CountersExplainTheChain'
  BY <1>inv, <1>step, CountersKept DEF Asleep
<1>4. HedgeOvertakesOpenCall'
  BY <1>step DEF HedgeOvertakesOpenCall, more
<1> QED
  BY <1>2, <1>3, <1>4, <1>inv, <1>step, ReadOne DEF TypeOK

\* A walk keeps a failure, counts the failover and goes to sleep.
LEMMA SettleSleepIInv ==
  ASSUME IInv, NEW i \in Slots, SettleSleep(i) PROVE IInv'
<1>inv. /\ TypeOK /\ PhasesAgree /\ EveryCallProvoked /\ CountersExplainTheChain
  BY DEF IInv, ControlAgrees
<1>step. /\ Arrived(i) /\ phase = "running" /\ state[i] = "arrived"
         /\ mode = "sequential" /\ verdict[i] \in Retryable /\ more
         /\ phase' = "sleeping"
         /\ state' = [state EXCEPT ![i] = "settled"] /\ RecordSettled(i)
         /\ ready' = Tail(ready) /\ failed' = i
         /\ failovers' = [failovers EXCEPT ![i] = @ + 1]
         /\ UNCHANGED <<mode, limit, next, verdict, cause, fired, reply, hedges,
                        wins, requests>>
  BY DEF SettleSleep, Arrived
<1>state. \A j \in Slots : state'[j] = IF j = i THEN "settled" ELSE state[j]
  BY <1>inv, <1>step DEF TypeOK
<1>last. i = next /\ Out = {next}
  BY <1>inv, <1>step DEF PhasesAgree, Out
<1>1. PhasesAgree'
  <2>1. Out' = {}
    BY <1>last, <1>state DEF Out
  <2>2. \A j \in Slots : state'[j] # "launched"
    BY <1>inv, <1>step, <1>state DEF PhasesAgree
  <2> QED
    BY <2>1, <2>2, <1>inv, <1>step DEF PhasesAgree, more
<1>2. CountersExplainTheChain'
  <2>1. \A k \in 2..next : cause[k] # Failover(i)
    BY <1>inv, <1>step, Numbers, OwesNoFailover
  <2>2. failovers[i] = 0
    BY <2>1, <1>inv, <1>step DEF CountersExplainTheChain
  <2>3. \A j \in Slots : failovers'[j] = IF j = i THEN 1 ELSE failovers[j]
    BY <2>2, <1>inv, <1>step DEF TypeOK
  <2> QED
    BY <2>3, <1>inv, <1>step, <1>state, <1>last DEF CountersExplainTheChain
<1>3. HedgeOvertakesOpenCall'
  BY <1>step DEF HedgeOvertakesOpenCall
<1>4. failovers' \in [Slots -> Nat]
  BY <1>inv, <1>step DEF TypeOK
<1> QED
  BY <1>1, <1>2, <1>3, <1>4, <1>step, ReadOne

\* The two ways a request ends.
LEMMA SettleEndsIInv ==
  ASSUME IInv, NEW i \in Slots, SettleFinal(i) \/ SettleExhausted(i) PROVE IInv'
<1>1. Arrived(i) /\ Finish(i) /\ UNCHANGED <<mode, limit, verdict, fired>>
  BY DEF SettleFinal, SettleExhausted
<1>2. \/ verdict[i] \notin Retryable
      \/ mode = "hedged_write"
      \/ verdict[i] \in Retryable /\ ~more /\ Out = {i}
  BY DEF SettleFinal, SettleExhausted
<1> QED
  BY <1>1, <1>2, FinishIInv

\* The first slot of the chain is called, or queued by race.
LEMMA StartIInv ==
  ASSUME IInv, Start PROVE IInv'
<1>inv. /\ TypeOK /\ StartedInOrder /\ QueueAgrees /\ VerdictsAgree /\ PhasesAgree
        /\ NothingCountedEarly /\ EveryCallRecordedOnce /\ CountersExplainTheChain
  BY DEF IInv, ControlAgrees
<1>step. /\ phase = "idle" /\ next = 0 /\ phase' = "running" /\ next' = 1
         /\ cause' = [cause EXCEPT ![1] = First]
         /\ UNCHANGED <<mode, limit, verdict, fired, failed, reply, recorded,
                        failovers, hedges, wins, requests>>
  BY <1>inv DEF Start, Launch, Call, PhasesAgree, ledgers
<1>num. 1 \in Slots /\ limit >= 1 /\ limit \in Nat /\ MaxAttempt \in Nat
  BY <1>inv, MaxAttemptAssumption DEF TypeOK, Slots
<1>before. \A j \in Slots : state[j] = "unstarted"
  BY <1>inv, <1>step, <1>num DEF StartedInOrder, Slots
<1>go. \/ /\ mode = "hedged_read" /\ ready' = <<1>>
          /\ state' = [state EXCEPT ![1] = "launched"]
       \/ /\ mode # "hedged_read" /\ ready' = ready
          /\ state' = [state EXCEPT ![1] = "inflight"]
  BY DEF Start, Launch, Call
<1>state. /\ state'[1] = IF mode = "hedged_read" THEN "launched" ELSE "inflight"
          /\ \A j \in Slots : j # 1 => state'[j] = "unstarted"
  BY <1>inv, <1>go, <1>num, <1>before DEF TypeOK
<1>cause. cause'[1] = First
  BY <1>inv, <1>step, <1>num DEF TypeOK
<1>q. ready = <<>>
  <2>1. Queued = {} /\ ready \in Seq(Slots)
    BY <1>inv, <1>before DEF Queued, TypeOK
  <2>2. ~ 1 \in 1..Len(ready)
    BY <2>1, <1>inv DEF QueueAgrees, Lists
  <2> QED
    BY <2>1, <2>2
<1>1. TypeOK'
  <2>1. state' \in [Slots -> States]
    BY <1>inv, <1>go DEF TypeOK, States
  <2>2. ready' \in Seq(Slots)
    <3>1. <<1>> \in Seq(Slots)
      BY <1>num
    <3> QED
      BY <3>1, <1>inv, <1>go DEF TypeOK
  <2>3. cause' \in [Slots -> Causes]
    BY <1>inv, <1>step, <1>num DEF TypeOK, Causes, First
  <2>4. phase' \in Phases /\ next' \in 0..MaxAttempt
    BY <1>step, <1>num DEF Phases, Slots
  <2>5. /\ mode' \in Modes /\ limit' \in Slots /\ fired' \in BOOLEAN
        /\ failed' \in {0} \cup Slots /\ reply' \in Replies
    BY <1>inv, <1>step DEF TypeOK
  <2>6. /\ verdict' \in [Slots -> Outcomes \cup {Pending}]
        /\ recorded' \in [Slots -> [Records -> Nat]]
        /\ failovers' \in [Slots -> Nat] /\ hedges' \in [Slots -> Nat]
        /\ wins' \in [Slots -> Nat]
        /\ requests' \in [answered : Nat, failed : Nat, attempts : Nat]
    BY <1>inv, <1>step DEF TypeOK
  <2> QED
    BY <2>1, <2>2, <2>3, <2>4, <2>5, <2>6 DEF TypeOK
<1>2. QueueAgrees'
  <2>1. CASE mode = "hedged_read"
    <3>1. Queued' = {1} /\ ready' = <<1>>
      BY <2>1, <1>state, <1>go, <1>num DEF Queued
    <3> QED
      BY <3>1, <1>num DEF QueueAgrees, Lists
  <2>2. CASE mode # "hedged_read"
    <3>1. Queued' = {} /\ ready' = <<>>
      BY <2>2, <1>state, <1>go, <1>q DEF Queued
    <3> QED
      BY <3>1 DEF QueueAgrees, Lists
  <2> QED
    BY <2>1, <2>2
<1>3. StartedInOrder'
  BY <1>step, <1>num, <1>state DEF StartedInOrder, Slots
<1>4. VerdictsAgree'
  <2>1. failed = 0
    BY <1>inv, <1>before DEF VerdictsAgree, TypeOK
  <2>2. ASSUME NEW j \in Slots
        PROVE  verdict'[j] = Pending /\ state'[j] \in {"unstarted", "launched", "inflight"}
    BY <1>inv, <1>step, <1>state, <1>before DEF VerdictsAgree
  <2> QED
    BY <2>1, <2>2, <1>step DEF VerdictsAgree
<1>5. PhasesAgree'
  <2>1. Out' = {1}
    BY <1>state, <1>num DEF Out
  <2>2. mode # "hedged_read" => \A j \in Slots : state'[j] # "launched"
    BY <1>state
  <2>3. ~fired
    BY <1>inv, <1>step DEF PhasesAgree
  <2> QED
    BY <2>1, <2>2, <2>3, <1>step, <1>num, <1>cause DEF PhasesAgree
<1>6. NothingCountedEarly'
  BY <1>inv, <1>step DEF NothingCountedEarly
<1>7. EveryCallRecordedOnce'
  <2>1. \A j \in Slots : recorded'[j] = Nothing /\ state'[j] \notin {"settled", "abandoned"}
    BY <1>inv, <1>step, <1>state, <1>before DEF EveryCallRecordedOnce
  <2> QED
    BY <2>1, <1>step DEF EveryCallRecordedOnce, Over
<1>8. EveryCallProvoked'
  BY <1>step DEF EveryCallProvoked
<1>9. CountersExplainTheChain'
  <2>1. \A j \in Slots : hedges[j] = 0 /\ failovers[j] = 0
    BY <1>inv, <1>step DEF CountersExplainTheChain
  <2> QED
    BY <2>1, <1>step DEF CountersExplainTheChain
<1>10. HedgeOvertakesOpenCall'
  BY <1>step, <1>num, <1>state DEF HedgeOvertakesOpenCall, Out
<1>11. VerdictOnEvidence'
  BY <1>step DEF VerdictOnEvidence
<1> QED
  BY <1>1, <1>2, <1>3, <1>4, <1>5, <1>6, <1>7, <1>8, <1>9, <1>10, <1>11 DEF IInv, ControlAgrees

\* One call moves on towards its answer: what PollLaunched and Arrive share.
LEMMA MoveOne ==
  ASSUME IInv, phase = "running", NEW i \in Slots, NEW s \in States,
         \/ state[i] = "launched" /\ s = "inflight"
         \/ state[i] = "inflight" /\ s = "arrived" /\ verdict'[i] \in Outcomes,
         state' = [state EXCEPT ![i] = s],
         verdict' \in [Slots -> Outcomes \cup {Pending}],
         \A j \in Slots : j # i \/ s = "inflight" => verdict'[j] = verdict[j],
         ready' \in Seq(Slots), QueueAgrees',
         UNCHANGED <<mode, limit, phase, next, cause, fired, failed, reply,
                     recorded, failovers, hedges, wins, requests>>
  PROVE  IInv'
<1>inv. /\ TypeOK /\ StartedInOrder /\ VerdictsAgree /\ PhasesAgree
        /\ NothingCountedEarly /\ EveryCallRecordedOnce /\ EveryCallProvoked
        /\ CountersExplainTheChain /\ HedgeOvertakesOpenCall
  BY DEF IInv, ControlAgrees
<1>state. \A j \in Slots : state'[j] = IF j = i THEN s ELSE state[j]
  BY <1>inv DEF TypeOK
<1>1. TypeOK'
  <2>1. state' \in [Slots -> States]
    BY <1>inv DEF TypeOK
  <2> QED
    BY <2>1, <1>inv DEF TypeOK
<1>2. StartedInOrder'
  BY <1>inv, <1>state DEF StartedInOrder
<1>3. VerdictsAgree'
  <2>1. \A j \in Slots : /\ state'[j] = "settled" => state[j] = "settled" /\ verdict'[j] = verdict[j]
                         /\ state[j] = "settled" => state'[j] = "settled"
    BY <1>state
  <2>2. failed \in Slots \/ failed = 0
    BY <1>inv DEF TypeOK
  <2>3. ASSUME NEW j \in Slots
        PROVE /\ state'[j] \in {"unstarted", "launched", "inflight", "never_called"} => verdict'[j] = Pending
              /\ state'[j] \in {"arrived", "settled"} => verdict'[j] \in Outcomes
              /\ state'[j] \notin {"abandoned", "never_called"}
    BY <1>inv, <1>state DEF VerdictsAgree, Over
  <2> QED
    BY <2>1, <2>2, <2>3, <1>inv DEF VerdictsAgree, Over
<1>4. Out' = Out
  BY <1>state DEF Out
<1>5. PhasesAgree'
  BY <1>4, <1>inv, <1>state DEF PhasesAgree, more
<1>6. NothingCountedEarly'
  BY <1>inv DEF NothingCountedEarly
<1>7. EveryCallRecordedOnce'
  <2>1. ASSUME NEW j \in Slots
        PROVE  recorded'[j] = IF state'[j] = "settled" THEN Once(verdict'[j])
                              ELSE IF state'[j] = "abandoned" THEN Once("abandoned")
                              ELSE Nothing
    <3>1. recorded'[j] = IF state[j] = "settled" THEN Once(verdict[j])
                         ELSE IF state[j] = "abandoned" THEN Once("abandoned")
                         ELSE Nothing
      BY <1>inv DEF EveryCallRecordedOnce
    <3> QED
      BY <3>1, <1>state
  <2>2. ~Over'
    BY DEF Over
  <2> QED
    BY <2>1, <2>2 DEF EveryCallRecordedOnce
<1>8. EveryCallProvoked'
  <2>1. \A j \in Slots : state[j] = "settled" => state'[j] = "settled" /\ verdict'[j] = verdict[j]
    BY <1>state
  <2> QED
    BY <2>1, <1>inv, Numbers, ChainKept
<1>9. CountersExplainTheChain'
  BY <1>inv, CountersKept DEF Asleep
<1>10. HedgeOvertakesOpenCall'
  BY <1>4, <1>inv DEF HedgeOvertakesOpenCall, more
<1>11. VerdictOnEvidence'
  BY DEF VerdictOnEvidence
<1> QED
  BY <1>1, <1>2, <1>3, <1>5, <1>6, <1>7, <1>8, <1>9, <1>10, <1>11 DEF IInv, ControlAgrees

\* A queued future is polled for the first time.
LEMMA PollLaunchedIInv ==
  ASSUME IInv, PollLaunched PROVE IInv'
<1> DEFINE i == Head(ready)
<1>inv. TypeOK /\ QueueAgrees
  BY DEF IInv, ControlAgrees
<1>step. /\ phase = "running" /\ ready # <<>> /\ state[i] = "launched"
         /\ state' = [state EXCEPT ![i] = "inflight"] /\ ready' = Tail(ready)
         /\ UNCHANGED <<mode, limit, phase, next, verdict, cause, fired, failed,
                        reply, recorded, failovers, hedges, wins, requests>>
  BY DEF PollLaunched, ledgers
<1>1. i \in Queued /\ Lists(Tail(ready), Queued \ {i})
  BY <1>inv, <1>step, Dequeue DEF QueueAgrees, Queued
<1>2. i \in Slots /\ ready' \in Seq(Slots)
  BY <1>1, <1>step DEF Queued, Lists
<1>3. QueueAgrees'
  <2>1. Queued' = Queued \ {i}
    BY <1>inv, <1>step, <1>2 DEF Queued, TypeOK
  <2> QED
    BY <2>1, <1>1, <1>step DEF QueueAgrees, Lists
<1>4. "inflight" \in States /\ verdict' \in [Slots -> Outcomes \cup {Pending}]
  BY <1>inv, <1>step DEF States, TypeOK
<1> QED
  BY <1>2, <1>3, <1>4, <1>step, MoveOne

\* An answer arrives.
LEMMA ArriveIInv ==
  ASSUME IInv, NEW i \in Slots, NEW v \in Outcomes, Arrive(i, v) PROVE IInv'
<1>inv. TypeOK /\ QueueAgrees
  BY DEF IInv, ControlAgrees
<1>step. /\ phase = "running" /\ state[i] = "inflight"
         /\ state' = [state EXCEPT ![i] = "arrived"]
         /\ verdict' = [verdict EXCEPT ![i] = v] /\ ready' = Append(ready, i)
         /\ UNCHANGED <<mode, limit, phase, next, cause, fired, failed, reply,
                        recorded, failovers, hedges, wins, requests>>
  BY DEF Arrive, ledgers
<1>1. i \notin Queued
  BY <1>step DEF Queued
<1>2. Lists(ready', Queued \cup {i})
  BY <1>inv, <1>step, <1>1, Enqueue DEF QueueAgrees, Queued
<1>3. QueueAgrees'
  <2>1. Queued' = Queued \cup {i}
    BY <1>inv, <1>step DEF Queued, TypeOK
  <2> QED
    BY <2>1, <1>2 DEF QueueAgrees, Lists
<1>4. ready' \in Seq(Slots)
  BY <1>2 DEF Lists
<1>5. /\ verdict' \in [Slots -> Outcomes \cup {Pending}] /\ verdict'[i] = v
      /\ \A j \in Slots : j # i => verdict'[j] = verdict[j]
  BY <1>inv, <1>step DEF TypeOK
<1>6. /\ "arrived" \in States
      /\ state[i] = "inflight" /\ verdict'[i] \in Outcomes
      /\ \A j \in Slots : j # i \/ "arrived" = "inflight" => verdict'[j] = verdict[j]
  BY <1>5, <1>step DEF States
<1>7. /\ phase = "running" /\ state' = [state EXCEPT ![i] = "arrived"]
      /\ UNCHANGED <<mode, limit, phase, next, cause, fired, failed, reply,
                     recorded, failovers, hedges, wins, requests>>
  BY <1>step
<1> QED
  BY <1>3, <1>4, <1>5, <1>6, <1>7, MoveOne, ZenonT(60)

\* The next slot is started and nothing is read: what LaunchHedge and Wake
\* share.
LEMMA StartNext ==
  ASSUME IInv, NEW s \in {"launched", "inflight"}, NEW why \in Causes, next >= 1, next < limit,
         state' = [state EXCEPT ![next + 1] = s],
         cause' = [cause EXCEPT ![next + 1] = why], next' = next + 1,
         ready' \in Seq(Slots), QueueAgrees', hedges' \in [Slots -> Nat],
         fired' = FALSE, phase' = "running", phase \in {"running", "sleeping"},
         mode = "hedged_read" \/ (s = "inflight" /\ Out = {}),
         UNCHANGED <<mode, limit, verdict, failed, reply, recorded, failovers, wins, requests>>,
         EveryCallProvoked', CountersExplainTheChain'
  PROVE  IInv'
<1> DEFINE n == next + 1
<1>inv. /\ TypeOK /\ StartedInOrder /\ VerdictsAgree /\ PhasesAgree
        /\ NothingCountedEarly /\ EveryCallRecordedOnce
  BY DEF IInv, ControlAgrees
<1>num. /\ MaxAttempt \in Nat /\ limit \in Nat /\ next \in Nat /\ limit <= MaxAttempt
        /\ n \in Slots /\ n <= limit /\ 1 \in Slots /\ n # 1
  BY <1>inv, Numbers
<1>new. state[n] = "unstarted"
  BY <1>inv, <1>num DEF StartedInOrder
<1>state. \A j \in Slots : state'[j] = IF j = n THEN s ELSE state[j]
  BY <1>inv, <1>num DEF TypeOK
<1>1. TypeOK'
  <2>1. state' \in [Slots -> States] /\ cause' \in [Slots -> Causes]
    BY <1>inv, <1>num DEF TypeOK, States
  <2>2. next' \in 0..MaxAttempt
    BY <1>num DEF Slots
  <2> QED
    BY <2>1, <2>2, <1>inv DEF TypeOK, Phases
<1>2. StartedInOrder'
  BY <1>inv, <1>num, <1>state DEF StartedInOrder, Slots
<1>3. VerdictsAgree'
  <2>1. failed = 0 \/ (failed \in Slots /\ failed # n)
    BY <1>inv, <1>num, <1>new DEF TypeOK, VerdictsAgree
  <2>2. failed # 0 => failed <= next' /\ state'[failed] = "settled"
    BY <2>1, <1>inv, <1>num, <1>state DEF VerdictsAgree, Slots
  <2>3. ASSUME NEW j \in Slots
        PROVE /\ state'[j] \in {"unstarted", "launched", "inflight", "never_called"} => verdict'[j] = Pending
              /\ state'[j] \in {"arrived", "settled"} => verdict'[j] \in Outcomes
              /\ state'[j] \notin {"abandoned", "never_called"}
              /\ state'[j] = "settled" => verdict'[j] \in Retryable /\ failed' # 0
    BY <1>inv, <1>new, <1>state DEF VerdictsAgree, Over
  <2> QED
    BY <2>2, <2>3 DEF VerdictsAgree
<1>4. n \in Out' /\ (Out = {} => Out' = {n})
  BY <1>num, <1>state DEF Out
<1>5. PhasesAgree'
  <2>1. cause'[1] = First
    BY <1>inv, <1>num DEF PhasesAgree, TypeOK
  <2>2. mode # "hedged_read" => \A j \in Slots : state'[j] # "launched"
    BY <1>inv, <1>state DEF PhasesAgree
  <2> QED
    BY <2>1, <2>2, <1>4, <1>num DEF PhasesAgree
<1>6. NothingCountedEarly'
  BY <1>inv DEF NothingCountedEarly
<1>7. EveryCallRecordedOnce'
  <2>1. ASSUME NEW j \in Slots
        PROVE  recorded'[j] = IF state'[j] = "settled" THEN Once(verdict'[j])
                              ELSE IF state'[j] = "abandoned" THEN Once("abandoned")
                              ELSE Nothing
    <3>1. recorded'[j] = IF state[j] = "settled" THEN Once(verdict[j])
                         ELSE IF state[j] = "abandoned" THEN Once("abandoned")
                         ELSE Nothing
      BY <1>inv DEF EveryCallRecordedOnce
    <3>2. verdict' = verdict
      OBVIOUS
    <3> QED
      BY <3>1, <3>2, <1>state, <1>new
  <2>2. ~Over'
    BY DEF Over
  <2> QED
    BY <2>1, <2>2 DEF EveryCallRecordedOnce
<1>8. HedgeOvertakesOpenCall'
  BY <1>4 DEF HedgeOvertakesOpenCall
<1>9. VerdictOnEvidence'
  BY DEF VerdictOnEvidence
<1> QED
  BY <1>1, <1>2, <1>3, <1>5, <1>6, <1>7, <1>8, <1>9 DEF IInv, ControlAgrees

\* A chain stays provoked when its next slot is, by a hedge of the last slot or
\* by a failover from it.
LEMMA ChainExtended ==
  ASSUME EveryCallProvoked, next \in Nat, next >= 1, next + 1 <= MaxAttempt, MaxAttempt \in Nat,
         next' = next + 1, NEW why, \A k \in 1..next : cause'[k] = cause[k],
         cause'[next + 1] = why, UNCHANGED <<mode, verdict>>, mode # "hedged_write",
         \A j \in Slots : state[j] = "settled" => state'[j] = "settled",
         \/ why = Hedge(next) /\ mode = "hedged_read"
         \/ /\ why = Failover(next) /\ state[next] = "settled" /\ verdict[next] \in Retryable
            /\ \A k \in 2..next : cause[k] # why
  PROVE  EveryCallProvoked'
<1> DEFINE n       == next + 1
           Owed(k) == \E m \in 1..(k - 1) :
                        /\ cause'[k] = Failover(m)
                        /\ state'[m] = "settled" /\ verdict'[m] \in Retryable
                        /\ \A j \in 2..next' : cause'[j] = Failover(m) => j = k
<1>1. \A k \in 2..next' : k = n \/ k \in 2..next
  OBVIOUS
<1>2. ASSUME NEW k \in 2..next, cause[k] = Hedge(k - 1) /\ mode = "hedged_read"
      PROVE  cause'[k] = Hedge(k - 1) /\ mode' = "hedged_read"
  BY <1>2
<1>3. ASSUME NEW k \in 2..next, ~(cause[k] = Hedge(k - 1) /\ mode = "hedged_read") PROVE Owed(k)
  <2>1. PICK m \in 1..(k - 1) :
          /\ cause[k] = Failover(m)
          /\ state[m] = "settled" /\ verdict[m] \in Retryable
          /\ \A j \in 2..next : cause[j] = Failover(m) => j = k
    BY <1>3 DEF EveryCallProvoked
  <2>2. m \in Slots /\ m \in Nat /\ k \in 1..next
    BY DEF Slots
  <2>3. why # Failover(m)
    BY <2>1, <2>2, CausesDiffer
  <2>4. cause'[k] = Failover(m) /\ state'[m] = "settled" /\ verdict'[m] \in Retryable
    BY <2>1, <2>2
  <2>5. \A j \in 2..next' : cause'[j] = Failover(m) => j = k
    <3>1. \A j \in 2..next : cause'[j] = cause[j]
      OBVIOUS
    <3> QED
      BY <1>1, <2>1, <2>3, <3>1
  <2> QED
    BY <2>4, <2>5
<1>4. (cause'[n] = Hedge(n - 1) /\ mode' = "hedged_read") \/ Owed(n)
  <2>1. CASE why = Hedge(next) /\ mode = "hedged_read"
    BY <2>1
  <2>2. CASE /\ why = Failover(next) /\ state[next] = "settled" /\ verdict[next] \in Retryable
             /\ \A k \in 2..next : cause[k] # why
    <3>1. next \in Slots /\ next \in 1..(n - 1) /\ n - 1 = next
      BY DEF Slots
    <3>2. \A j \in 2..next' : cause'[j] = Failover(next) => j = n
      <4>1. \A j \in 2..next : cause'[j] = cause[j]
        OBVIOUS
      <4> QED
        BY <1>1, <2>2, <4>1
    <3>3. cause'[n] = Failover(next) /\ state'[next] = "settled" /\ verdict'[next] \in Retryable
      BY <2>2, <3>1
    <3> QED
      BY <3>1, <3>2, <3>3
  <2> QED
    BY <2>1, <2>2
<1>5. \A k \in 2..next' : (cause'[k] = Hedge(k - 1) /\ mode' = "hedged_read") \/ Owed(k)
  BY <1>1, <1>2, <1>3, <1>4
<1> QED
  BY <1>5 DEF EveryCallProvoked

\* The timer's branch launches a hedge.
LEMMA LaunchHedgeIInv ==
  ASSUME IInv, LaunchHedge PROVE IInv'
<1> DEFINE n == next + 1
<1>inv. /\ TypeOK /\ QueueAgrees /\ StartedInOrder /\ PhasesAgree
        /\ EveryCallProvoked /\ CountersExplainTheChain
  BY DEF IInv, ControlAgrees
<1>step. /\ phase = "running" /\ mode = "hedged_read" /\ next < limit
         /\ fired' = FALSE /\ next' = n
         /\ state' = [state EXCEPT ![n] = "launched"]
         /\ cause' = [cause EXCEPT ![n] = Hedge(next)]
         /\ ready' = Append(ready, n)
         /\ hedges' = [hedges EXCEPT ![next] = @ + 1]
         /\ UNCHANGED <<mode, limit, phase, verdict, failed, reply, recorded,
                        failovers, wins, requests>>
  BY <1>inv DEF LaunchHedge, Launch, PhasesAgree, more
<1>num. /\ MaxAttempt \in Nat /\ limit \in Nat /\ next \in Nat /\ limit <= MaxAttempt
        /\ next >= 1 /\ next \in Slots /\ n \in Slots
  BY <1>inv, <1>step, Numbers DEF PhasesAgree
<1>new. state[n] = "unstarted"
  BY <1>inv, <1>num DEF StartedInOrder
<1>cause. \A j \in Slots : cause'[j] = IF j = n THEN Hedge(next) ELSE cause[j]
  BY <1>inv, <1>step, <1>num DEF TypeOK
<1>state. \A j \in Slots : state'[j] = IF j = n THEN "launched" ELSE state[j]
  BY <1>inv, <1>step, <1>num DEF TypeOK
<1>1. QueueAgrees' /\ ready' \in Seq(Slots)
  <2>1. n \notin Queued
    BY <1>new DEF Queued
  <2>2. Lists(ready', Queued \cup {n})
    BY <2>1, <1>inv, <1>step, <1>num, Enqueue DEF QueueAgrees, Queued
  <2>3. Queued' = Queued \cup {n}
    BY <1>state, <1>num DEF Queued
  <2> QED
    BY <2>2, <2>3 DEF QueueAgrees, Lists
<1>2. EveryCallProvoked'
  <2>1. \A k \in 1..next : cause'[k] = cause[k]
    BY <1>cause, <1>num DEF Slots
  <2>2. n <= MaxAttempt /\ cause'[n] = Hedge(next)
    BY <1>cause, <1>num, <1>step
  <2>3. \A j \in Slots : state[j] = "settled" => state'[j] = "settled"
    BY <1>state, <1>new
  <2> QED
    BY <2>1, <2>2, <2>3, <1>inv, <1>step, <1>num, ChainExtended
<1>3. CountersExplainTheChain'
  <2>1. hedges[next] = 0
    <3>1. \A k \in 2..next : cause[k] # Hedge(next)
      BY <1>inv, <1>num, HedgesOvertakePredecessors
    <3> QED
      BY <3>1, <1>inv, <1>num DEF CountersExplainTheChain
  <2>2. \A j \in Slots : hedges'[j] = IF j = next THEN 1 ELSE hedges[j]
    BY <2>1, <1>inv, <1>step DEF TypeOK
  <2>3. ASSUME NEW j \in Slots
        PROVE /\ (\E k \in 2..next' : cause'[k] = Hedge(j)) <=> (j = next \/ \E k \in 2..next : cause[k] = Hedge(j))
              /\ (\E k \in 2..next' : cause'[k] = Failover(j)) <=> (\E k \in 2..next : cause[k] = Failover(j))
    <3>1. Hedge(next) # Failover(j) /\ (Hedge(next) = Hedge(j) => next = j)
      BY <1>num, CausesDiffer DEF Slots
    <3>2. n \in 2..next' /\ cause'[n] = Hedge(next)
      BY <1>num, <1>step, <1>cause
    <3>3. \A k \in 2..next : k \in 2..next' /\ cause'[k] = cause[k]
      BY <1>num, <1>step, <1>cause DEF Slots
    <3>4. \A k \in 2..next' : k = n \/ k \in 2..next
      BY <1>num, <1>step
    <3> QED
      BY <3>1, <3>2, <3>3, <3>4
  <2> QED
    BY <2>2, <2>3, <1>inv, <1>step DEF CountersExplainTheChain
<1>4. Hedge(next) \in Causes /\ hedges' \in [Slots -> Nat]
  <2>1. Hedge(next) \in Causes
    BY <1>num DEF Hedge, Causes, Slots
  <2>2. hedges \in [Slots -> Nat] /\ hedges' = [hedges EXCEPT ![next] = @ + 1]
    BY <1>inv, <1>step DEF TypeOK
  <2>3. hedges' \in [Slots -> Nat]
    BY <2>2, <1>num
  <2> QED
    BY <2>1, <2>3
<1>5. /\ next >= 1 /\ next < limit /\ next' = next + 1 /\ fired' = FALSE
      /\ phase' = "running" /\ phase = "running" /\ mode = "hedged_read"
      /\ state' = [state EXCEPT ![next + 1] = "launched"]
      /\ cause' = [cause EXCEPT ![next + 1] = Hedge(next)]
      /\ UNCHANGED <<mode, limit, verdict, failed, reply, recorded, failovers, wins, requests>>
  BY <1>step, <1>num
<1>6. "launched" \in {"launched", "inflight"} /\ phase \in {"running", "sleeping"}
  BY <1>5
<1> QED
  BY <1>1, <1>2, <1>3, <1>4, <1>5, <1>6, StartNext

\* A walk wakes and calls the slot after the one that failed.
LEMMA WakeIInv ==
  ASSUME IInv, Wake PROVE IInv'
<1> DEFINE n == next + 1
<1>inv. /\ TypeOK /\ QueueAgrees /\ StartedInOrder /\ PhasesAgree /\ VerdictsAgree
        /\ EveryCallProvoked /\ CountersExplainTheChain
  BY DEF IInv, ControlAgrees
<1>step. /\ phase = "sleeping" /\ phase' = "running" /\ next' = n
         /\ mode = "sequential" /\ next < limit /\ next >= 1 /\ Out = {}
         /\ state' = [state EXCEPT ![n] = "inflight"]
         /\ cause' = [cause EXCEPT ![n] = Failover(next)]
         /\ fired' = FALSE
         /\ UNCHANGED <<mode, limit, verdict, ready, failed, reply, recorded,
                        failovers, hedges, wins, requests>>
  BY <1>inv DEF Wake, Call, PhasesAgree, more, ledgers, TypeOK
<1>num. /\ MaxAttempt \in Nat /\ limit \in Nat /\ next \in Nat /\ limit <= MaxAttempt
        /\ next \in Slots /\ n \in Slots
  BY <1>inv, <1>step, Numbers
<1>new. state[n] = "unstarted"
  BY <1>inv, <1>num DEF StartedInOrder
<1>cause. \A j \in Slots : cause'[j] = IF j = n THEN Failover(next) ELSE cause[j]
  BY <1>inv, <1>step, <1>num DEF TypeOK
<1>state. \A j \in Slots : state'[j] = IF j = n THEN "inflight" ELSE state[j]
  BY <1>inv, <1>step, <1>num DEF TypeOK
<1>last. state[next] = "settled" /\ verdict[next] \in Retryable
  <2>1. state[next] # "unstarted" /\ state[next] \notin {"launched", "inflight", "arrived"}
    BY <1>inv, <1>step, <1>num DEF StartedInOrder, Out
  <2>2. state[next] \in States /\ state[next] \notin {"abandoned", "never_called"}
    BY <1>inv, <1>step, <1>num DEF TypeOK, VerdictsAgree, Over
  <2>3. state[next] = "settled"
    BY <2>1, <2>2 DEF States
  <2> QED
    BY <2>3, <1>inv, <1>step, <1>num DEF VerdictsAgree, Over
<1>1. QueueAgrees' /\ ready' \in Seq(Slots)
  <2>1. Queued' = Queued
    BY <1>state, <1>new DEF Queued
  <2> QED
    BY <2>1, <1>inv, <1>step DEF QueueAgrees, Lists
<1>2. \A k \in 2..next : cause[k] # Failover(next)
  <2>1. ASSUME NEW k \in 2..next, NEW i \in 1..(k - 1) PROVE Failover(i) # Failover(next)
    BY <1>num, CausesDiffer
  <2>2. ASSUME NEW k \in 2..next PROVE Hedge(k - 1) # Failover(next)
    BY <1>num, CausesDiffer
  <2> QED
    BY <2>1, <2>2, <1>inv DEF EveryCallProvoked
<1>3. EveryCallProvoked'
  <2>1. \A k \in 1..next : cause'[k] = cause[k]
    BY <1>cause, <1>num DEF Slots
  <2>2. n <= MaxAttempt /\ cause'[n] = Failover(next)
    BY <1>cause, <1>num, <1>step
  <2>3. \A j \in Slots : state[j] = "settled" => state'[j] = "settled"
    BY <1>state, <1>new
  <2> QED
    BY <2>1, <2>2, <2>3, <1>2, <1>last, <1>inv, <1>step, <1>num, ChainExtended
<1>4. CountersExplainTheChain'
  <2>1. failovers[next] = 1
    BY <1>inv, <1>step, <1>num, <1>last DEF CountersExplainTheChain
  <2>2. ASSUME NEW j \in Slots
        PROVE /\ (\E k \in 2..next' : cause'[k] = Hedge(j)) <=> (\E k \in 2..next : cause[k] = Hedge(j))
              /\ (\E k \in 2..next' : cause'[k] = Failover(j)) <=> (j = next \/ \E k \in 2..next : cause[k] = Failover(j))
    <3>1. Failover(next) # Hedge(j) /\ (Failover(next) = Failover(j) => next = j)
      BY <1>num, CausesDiffer DEF Slots
    <3>2. n \in 2..next' /\ cause'[n] = Failover(next)
      BY <1>num, <1>step, <1>cause
    <3>3. \A k \in 2..next : k \in 2..next' /\ cause'[k] = cause[k]
      BY <1>num, <1>step, <1>cause DEF Slots
    <3>4. \A k \in 2..next' : k = n \/ k \in 2..next
      BY <1>num, <1>step
    <3> QED
      BY <3>1, <3>2, <3>3, <3>4
  <2> QED
    BY <2>1, <2>2, <1>inv, <1>step DEF CountersExplainTheChain
<1>5. Failover(next) \in Causes /\ hedges' \in [Slots -> Nat]
  <2>1. Failover(next) \in Causes
    BY <1>num DEF Failover, Causes, Slots
  <2> QED
    BY <2>1, <1>inv, <1>step DEF TypeOK
<1> QED
  BY <1>1, <1>3, <1>4, <1>5, <1>step, <1>num, StartNext

\* Nothing changes but whether the timer fired.
LEMMA OnlyTheTimer ==
  ASSUME IInv, fired' \in BOOLEAN,
         fired' = TRUE => phase = "running" /\ mode = "hedged_read" /\ more,
         UNCHANGED <<mode, limit, phase, next, state, verdict, cause, ready, failed,
                     reply, recorded, failovers, hedges, wins, requests>>
  PROVE  IInv'
<1>inv. /\ TypeOK /\ StartedInOrder /\ QueueAgrees /\ VerdictsAgree /\ PhasesAgree
        /\ NothingCountedEarly /\ EveryCallRecordedOnce /\ EveryCallProvoked
        /\ CountersExplainTheChain /\ HedgeOvertakesOpenCall /\ VerdictOnEvidence
  BY DEF IInv, ControlAgrees
<1>1. TypeOK'
  BY <1>inv DEF TypeOK
<1>2. PhasesAgree'
  BY <1>inv DEF PhasesAgree, more, Out
<1>3. StartedInOrder' /\ QueueAgrees' /\ VerdictsAgree' /\ NothingCountedEarly'
  BY <1>inv DEF StartedInOrder, QueueAgrees, Queued, VerdictsAgree, Over, NothingCountedEarly, Lists
<1>4. EveryCallRecordedOnce' /\ HedgeOvertakesOpenCall'
  BY <1>inv DEF EveryCallRecordedOnce, HedgeOvertakesOpenCall, Over, Out, more
<1>5. EveryCallProvoked' /\ CountersExplainTheChain' /\ VerdictOnEvidence'
  BY <1>inv DEF EveryCallProvoked, CountersExplainTheChain, VerdictOnEvidence
<1> QED
  BY <1>1, <1>2, <1>3, <1>4, <1>5 DEF IInv, ControlAgrees

\* The request's future is dropped where it is suspended.
LEMMA HangUpIInv ==
  ASSUME IInv, HangUp PROVE IInv'
<1>inv. /\ TypeOK /\ StartedInOrder /\ QueueAgrees /\ VerdictsAgree /\ PhasesAgree
        /\ NothingCountedEarly /\ EveryCallRecordedOnce /\ EveryCallProvoked
        /\ CountersExplainTheChain
  BY DEF IInv, ControlAgrees
<1>step. /\ phase \in {"idle", "sleeping", "running"} /\ ~fired
         /\ phase = "running" => \A i \in Slots : state[i] # "launched"
         /\ phase' = "hung_up" /\ ready' = <<>>
         /\ UNCHANGED <<mode, limit, next, verdict, cause, fired, failed, reply,
                        failovers, hedges, wins, requests>>
  BY <1>inv DEF HangUp, Suspended, PhasesAgree
<1>state. \A j \in Slots : state'[j] = IF state[j] \in Armed THEN "abandoned"
                                       ELSE IF state[j] = "launched" THEN "never_called"
                                       ELSE state[j]
  BY DEF HangUp, DropOthers
<1>dom. state' \in [Slots -> States]
  <2>1. state' = [j \in Slots |-> state'[j]]
    BY DEF HangUp, DropOthers
  <2>2. \A j \in Slots : state'[j] \in States
    BY <1>state, <1>inv DEF TypeOK, States
  <2> QED
    BY <2>1, <2>2
<1>seen. \A j \in Slots : /\ state[j] \in States
                          /\ state[j] \notin {"abandoned", "never_called"}
  BY <1>inv, <1>step DEF VerdictsAgree, Over, TypeOK
<1>rec. ASSUME NEW j \in Slots
        PROVE  /\ recorded'[j] = IF state[j] \in Armed THEN Once("abandoned") ELSE recorded[j]
               /\ recorded'[j] \in [Records -> Nat]
  <2>1. recorded'[j] = IF state[j] \in Armed THEN [recorded[j] EXCEPT !["abandoned"] = @ + 1]
                                             ELSE recorded[j]
    BY DEF HangUp, RecordDropped
  <2>2. [Nothing EXCEPT !["abandoned"] = @ + 1] = Once("abandoned")
    BY DEF Nothing, Once
  <2>3. state[j] \in Armed => recorded[j] = Nothing
    BY <1>inv DEF EveryCallRecordedOnce, Armed
  <2>4. Once("abandoned") \in [Records -> Nat]
    BY DEF Once
  <2>5. CASE state[j] \in Armed
    BY <2>1, <2>2, <2>3, <2>4, <2>5
  <2>6. CASE state[j] \notin Armed
    BY <2>1, <2>6, <1>inv DEF TypeOK
  <2> QED
    BY <2>5, <2>6
<1>1. TypeOK'
  <2>1. recorded' = [j \in Slots |-> recorded'[j]]
    BY DEF HangUp, RecordDropped
  <2>2. recorded' \in [Slots -> [Records -> Nat]]
    BY <2>1, <1>rec
  <2>3. phase' \in Phases /\ ready' \in Seq(Slots)
    BY <1>step DEF Phases
  <2> QED
    BY <1>inv, <1>step, <1>dom, <2>2, <2>3 DEF TypeOK
<1>2. QueueAgrees'
  <2>1. Queued' = {}
    BY <1>state DEF Queued, Armed
  <2> QED
    BY <2>1, <1>step DEF QueueAgrees, Lists
<1>3. StartedInOrder'
  BY <1>inv, <1>step, <1>state DEF StartedInOrder, Armed
<1>4. VerdictsAgree'
  <2>1. failed' # 0 => failed' <= next' /\ state'[failed'] = "settled"
    BY <1>inv, <1>step, <1>state DEF VerdictsAgree, TypeOK, Armed
  <2>2. \A j \in Slots :
          /\ state'[j] \in {"unstarted", "launched", "inflight", "never_called"} => verdict'[j] = Pending
          /\ state'[j] \in {"arrived", "settled"} => verdict'[j] \in Outcomes
    BY <1>inv, <1>step, <1>state DEF VerdictsAgree, Armed
  <2>3. Over'
    BY <1>step DEF Over
  <2> QED
    BY <2>1, <2>2, <2>3 DEF VerdictsAgree
<1>5. PhasesAgree'
  <2>1. \A j \in Slots : state'[j] # "launched"
    BY <1>state, <1>dom DEF Armed
  <2> QED
    BY <2>1, <1>inv, <1>step DEF PhasesAgree
<1>6. NothingCountedEarly'
  BY <1>inv, <1>step DEF NothingCountedEarly
<1>7. EveryCallRecordedOnce'
  <2>1. Out' = {}
    BY <1>state DEF Out, Armed
  <2>2. ASSUME NEW j \in Slots
        PROVE  recorded'[j] = IF state'[j] = "settled" THEN Once(verdict'[j])
                              ELSE IF state'[j] = "abandoned" THEN Once("abandoned")
                              ELSE Nothing
    <3>1. recorded[j] = IF state[j] = "settled" THEN Once(verdict[j])
                        ELSE IF state[j] = "abandoned" THEN Once("abandoned")
                        ELSE Nothing
      BY <1>inv DEF EveryCallRecordedOnce
    <3> QED
      BY <3>1, <1>rec, <1>state, <1>step DEF Armed
  <2> QED
    BY <2>1, <2>2 DEF EveryCallRecordedOnce
<1>8. EveryCallProvoked'
  <2>1. \A j \in Slots : state[j] = "settled" => state'[j] = "settled" /\ verdict'[j] = verdict[j]
    BY <1>state, <1>step DEF Armed
  <2> QED
    BY <2>1, <1>inv, <1>step, Numbers, ChainKept
<1>9. CountersExplainTheChain'
  <2>1. ASSUME NEW j \in Slots PROVE Asleep(j)' <=> Asleep(j)
    <3>1. state'[j] = "settled" <=> state[j] = "settled"
      BY <1>state DEF Armed
    <3>2. CASE phase = "sleeping"
      BY <3>1, <3>2, <1>step DEF Asleep
    <3>3. CASE phase = "idle"
      BY <3>3, <1>inv, <1>step DEF Asleep, PhasesAgree, Slots
    <3>4. CASE phase = "running"
      <4>1. mode = "sequential" => next \in Out
        BY <3>4, <1>inv DEF PhasesAgree
      <4> QED
        BY <3>1, <3>4, <4>1, <1>step DEF Asleep, Out
    <3> QED
      BY <3>2, <3>3, <3>4, <1>step
  <2> QED
    BY <2>1, <1>inv, <1>step, CountersKept
<1>10. HedgeOvertakesOpenCall'
  BY <1>step DEF HedgeOvertakesOpenCall
<1>11. VerdictOnEvidence'
  BY <1>step DEF VerdictOnEvidence
<1> QED
  BY <1>1, <1>2, <1>3, <1>4, <1>5, <1>6, <1>7, <1>8, <1>9, <1>10, <1>11 DEF IInv, ControlAgrees

\* The invariant holds of a request that was not polled yet.
LEMMA InitIInv == Init => IInv
<1> SUFFICES ASSUME Init PROVE IInv
  OBVIOUS
<1> USE DEF Init
<1>num. MaxAttempt \in Nat /\ MaxAttempt >= 1 /\ Slots = 1..MaxAttempt
  BY MaxAttemptAssumption DEF Slots
<1>1. TypeOK
  <2>1. NoCause \in Causes /\ NoReply \in Replies /\ Nothing \in [Records -> Nat]
    BY <1>num DEF NoCause, Causes, NoReply, Replies, Nothing
  <2>2. mode \in Modes /\ limit \in Slots /\ phase \in Phases /\ next \in 0..MaxAttempt
    BY <1>num DEF Phases
  <2>5. fired \in BOOLEAN /\ failed \in {0} \cup Slots
    OBVIOUS
  <2>6. ready \in Seq(Slots)
    <3>1. ready = <<>>
      OBVIOUS
    <3> QED
      BY <3>1
  <2>3. /\ state \in [Slots -> States] /\ verdict \in [Slots -> Outcomes \cup {Pending}]
        /\ cause \in [Slots -> Causes] /\ recorded \in [Slots -> [Records -> Nat]]
    BY <2>1 DEF States
  <2>4. /\ failovers \in [Slots -> Nat] /\ hedges \in [Slots -> Nat] /\ wins \in [Slots -> Nat]
        /\ requests \in [answered : Nat, failed : Nat, attempts : Nat] /\ reply \in Replies
    BY <2>1
  <2> QED
    BY <2>2, <2>3, <2>4, <2>5, <2>6 DEF TypeOK
<1>2. StartedInOrder
  BY <1>num DEF StartedInOrder
<1>3. QueueAgrees
  <2>1. Queued = {}
    BY DEF Queued
  <2> QED
    BY <2>1 DEF QueueAgrees, Lists
<1>4. VerdictsAgree /\ NothingCountedEarly
  BY DEF VerdictsAgree, NothingCountedEarly
<1>5. PhasesAgree
  BY <1>num DEF PhasesAgree
<1>6. EveryCallRecordedOnce
  BY DEF EveryCallRecordedOnce, Over
<1>7. EveryCallProvoked
  BY DEF EveryCallProvoked
<1>8. CountersExplainTheChain
  BY DEF CountersExplainTheChain
<1>9. HedgeOvertakesOpenCall /\ VerdictOnEvidence
  BY DEF HedgeOvertakesOpenCall, VerdictOnEvidence
<1> QED
  BY <1>1, <1>2, <1>3, <1>4, <1>5, <1>6, <1>7, <1>8, <1>9 DEF IInv, ControlAgrees

-----------------------------------------------------------------------------
\* Every action preserves the invariant, and so does a step that changes
\* nothing.
LEMMA NextIInv == IInv /\ [Next]_vars => IInv'
<1> SUFFICES ASSUME IInv, [Next]_vars PROVE IInv'
  OBVIOUS
<1>1. CASE Start
  BY <1>1, StartIInv
<1>2. CASE PollLaunched
  BY <1>2, PollLaunchedIInv
<1>3. ASSUME NEW i \in Slots, Settle(i) PROVE IInv'
  <2>1. CASE SettleFinal(i) \/ SettleExhausted(i)
    BY <2>1, SettleEndsIInv
  <2>2. CASE SettleWait(i)
    BY <2>2, SettleWaitIInv
  <2>3. CASE SettleFailover(i)
    BY <2>3, SettleFailoverIInv
  <2>4. CASE SettleSleep(i)
    BY <2>4, SettleSleepIInv
  <2> QED
    BY <1>3, <2>1, <2>2, <2>3, <2>4 DEF Settle
<1>4. CASE Wake
  BY <1>4, WakeIInv
<1>5. CASE LaunchHedge
  BY <1>5, LaunchHedgeIInv
<1>6. CASE TimerFires
  <2>1. /\ fired' = TRUE /\ phase = "running" /\ mode = "hedged_read" /\ more
        /\ UNCHANGED <<mode, limit, phase, next, state, verdict, cause, ready, failed,
                       reply, recorded, failovers, hedges, wins, requests>>
    BY <1>6 DEF TimerFires, Suspended, ledgers
  <2> QED
    BY <2>1, OnlyTheTimer
<1>7. ASSUME NEW i \in Slots, NEW v \in Outcomes, Arrive(i, v) PROVE IInv'
  BY <1>7, ArriveIInv
<1>8. CASE HangUp
  BY <1>8, HangUpIInv
<1>9. CASE UNCHANGED vars
  <2>1. /\ fired' = fired
        /\ UNCHANGED <<mode, limit, phase, next, state, verdict, cause, ready, failed,
                       reply, recorded, failovers, hedges, wins, requests>>
    BY <1>9 DEF vars
  <2>2. fired \in BOOLEAN /\ (fired => phase = "running" /\ mode = "hedged_read" /\ more)
    BY DEF IInv, TypeOK, ControlAgrees, PhasesAgree
  <2> QED
    BY <2>1, <2>2, OnlyTheTimer
<1> QED
  BY <1>1, <1>2, <1>3, <1>4, <1>5, <1>6, <1>7, <1>8, <1>9 DEF Next, Task

\* The inductive invariant holds in every state a request can reach, for every
\* cap on the number of attempts.
THEOREM Invariance == Spec => []IInv
BY InitIInv, NextIInv, PTL DEF Spec

\* Every variable of a request keeps its type: the chain stays within the cap,
\* the queue holds slots of the chain only.
THEOREM TypeCorrect == Spec => []TypeOK
<1>1. IInv => TypeOK
  BY DEF IInv
<1> QED
  BY <1>1, Invariance, PTL

\* Each call of a request is recorded exactly once, as its outcome or as
\* abandoned, and none outlives the request: Attempt::finish and Attempt::drop
\* (attempt.rs) never both count a call and never both miss one.
THEOREM CallsRecordedOnce == Spec => []EveryCallRecordedOnce
<1>1. IInv => EveryCallRecordedOnce
  BY DEF IInv
<1> QED
  BY <1>1, Invariance, PTL

\* Every call after the first is owed to one earlier call, a failure that was
\* read or a hedge of its predecessor, and a write of a hedging proxy is sent
\* once (race, walk and send_once).
THEOREM CallsProvoked == Spec => []EveryCallProvoked
<1>1. IInv => EveryCallProvoked
  BY DEF IInv
<1> QED
  BY <1>1, Invariance, PTL

\* rpc_failovers_total and the hedge counter tell why the chain is as long as
\* it is, in every mode and at every moment.
THEOREM CountersExplain == Spec => []CountersExplainTheChain
<1>1. IInv => CountersExplainTheChain
  BY DEF IInv
<1> QED
  BY <1>1, Invariance, PTL

\* The upstream the timer blames as overtaken still owes its answer whenever
\* the race may launch a hedge.
THEOREM HedgesOvertakeOpenCalls == Spec => []HedgeOvertakesOpenCall
<1>1. IInv => HedgeOvertakesOpenCall
  BY DEF IInv
<1> QED
  BY <1>1, Invariance, PTL

\* A request is answered by the one call that succeeded, or failed on the
\* evidence its handler asks for: race never gives up while a call is out or a
\* slot is left.
THEOREM VerdictsRest == Spec => []VerdictOnEvidence
<1>1. IInv => VerdictOnEvidence
  BY DEF IInv
<1> QED
  BY <1>1, Invariance, PTL

\* Queue, calls and control stay in step: a running race never waits on an
\* empty set of calls, and the ready queue holds each future once.
THEOREM ControlStaysInStep == Spec => []ControlAgrees
<1>1. IInv => ControlAgrees
  BY DEF IInv
<1> QED
  BY <1>1, Invariance, PTL
=============================================================================
