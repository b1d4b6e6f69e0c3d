----------------------------- MODULE RoundRobin -----------------------------
(***************************************************************************)
(* The ROUND_ROBIN decider (src/src/decider/round_robin.rs): every request *)
(* draws a ticket from one atomic counter and is handed the fleet rotated  *)
(* by it.  Drawing the ticket is one atomic step, but the request makes    *)
(* its first call later, on a thread of its own; and the counter is a      *)
(* usize, which wraps.                                                     *)
(*                                                                         *)
(* An upstream is named by its position in the configured list, from 0.    *)
(***************************************************************************)
EXTENDS Integers, Sequences, FiniteSets

CONSTANTS
  Size,        \* the number of upstreams
  Tasks,       \* requests in progress at a time
  MaxAttempt,  \* the `max` each request asks the decider for
  Wrap         \* 2^w: the values a usize has

ASSUME SizeAssumption   == Size \in Nat \ {0}
ASSUME WrapAssumption   == Wrap \in Nat /\ Wrap >= Size
ASSUME MaxAttemptAssumption == MaxAttempt \in Nat \ {0}
ASSUME TasksAssumption  == IsFiniteSet(Tasks)

VARIABLES
  next,    \* the ticket counter
  task,    \* task[t]: the chain request t was handed, <<>> outside of one
  led      \* led[u]: first calls u has received, see Level; kept to state
           \* properties

vars == <<next, task, led>>

Upstreams == 0 .. Size - 1
Fleet     == [i \in 1..Size |-> i - 1]

-----------------------------------------------------------------------------

\* Mutation: split_at is off by one, and the upstream at the split is lost.
SplitLate(start) == SubSeq(Fleet, start + 2, Size) \o SubSeq(Fleet, 1, start)

\* tail.iter().chain(head)
Rotated(start) == SubSeq(Fleet, start + 1, Size) \o SubSeq(Fleet, 1, start)

\* .take(max)
Take(order) ==
  SubSeq(order, 1, IF MaxAttempt < Len(order) THEN MaxAttempt ELSE Len(order))

Init ==
  /\ next = 0
  /\ task = [t \in Tasks |-> <<>>]
  /\ led = [u \in Upstreams |-> 0]

\* Bound: a lead that TurnsAreEven rules out is counted up to here.
MaxLead == Cardinality(Tasks) + 2

\* Counts relative to the smallest: only differences matter.
Level(counts) ==
  LET fewest == CHOOSE n \in {counts[u] : u \in Upstreams} :
                  \A u \in Upstreams : n <= counts[u]
      lead(u) == counts[u] - fewest
  IN  [u \in Upstreams |-> IF lead(u) < MaxLead THEN lead(u) ELSE MaxLead]

\* When the counter wraps, the turns start over with the first upstream. Unless
\* the fleet divides 2^w, the first 2^w % Size upstreams have had one turn more
\* than the others by then; from here on that turn is not counted.
Forgiven(u) == IF next = Wrap - 1 /\ u < Wrap % Size THEN 1 ELSE 0

\* Mutation: load and store in place of fetch_add, and two requests at a time
\* draw the same ticket.
DecideRacy(t) ==
  /\ task[t] = <<>>
  /\ task' = [task EXCEPT ![t] = Take(Rotated(next % Size))]
  /\ next' \in {next, (next + 1) % Wrap}
  /\ led' = Level([u \in Upstreams |-> led[u] - Forgiven(u)])

\* Mutation: the counter is kept below the number of upstreams, off by one.
DecideShort(t) ==
  /\ task[t] = <<>>
  /\ task' = [task EXCEPT ![t] = Take(Rotated(next % Size))]
  /\ next' = IF next >= Size - 2 THEN 0 ELSE next + 1
  /\ led' = Level([u \in Upstreams |-> led[u] - Forgiven(u)])

\* decide: fetch_add(1) wraps; what is left of it uses only its own ticket.
Decide(t) ==
  /\ task[t] = <<>>
  /\ task' = [task EXCEPT ![t] = Take(Rotated(next % Size))]
  /\ next' = (next + 1) % Wrap
  /\ led' = Level([u \in Upstreams |-> led[u] - Forgiven(u)])

\* The request makes its first call, to the head of its chain.
FirstCall(t) ==
  /\ task[t] # <<>>
  /\ led' = Level([led EXCEPT ![Head(task[t])] = @ + 1])
  /\ task' = [task EXCEPT ![t] = <<>>]
  /\ UNCHANGED next

Next == \E t \in Tasks : Decide(t) \/ FirstCall(t)

Spec == Init /\ [][Next]_vars

\* Requests keep coming, and a request that has its chain makes its call.
Fairness == /\ WF_vars(\E t \in Tasks : Decide(t))
            /\ \A t \in Tasks : WF_vars(FirstCall(t))

FairSpec == Spec /\ Fairness

-----------------------------------------------------------------------------

\* The chains decide hands out: once round the configured list, starting at
\* some upstream, as far as `max` allows. So a chain never holds an upstream
\* twice, and a failover never skips one.
Chains ==
  {[i \in 1 .. (IF MaxAttempt < Size THEN MaxAttempt ELSE Size) |-> (u + i - 1) % Size] :
     u \in Upstreams}

TypeOK ==
  /\ next \in 0 .. Wrap - 1
  /\ task \in [Tasks -> {<<>>} \cup Chains]
  /\ led \in [Upstreams -> 0 .. MaxLead]

\* The requests that hold a ticket for u and have not called it.
Owed(u) == {t \in Tasks : task[t] # <<>> /\ Head(task[t]) = u}

\* Turns are even, however the requests are scheduled: one upstream is ahead
\* of another by at most one first call and the calls still owed to the other.
\* The wrap of the counter costs no more than Forgiven says, one turn for each
\* 2^w requests.
TurnsAreEven ==
  \A u, v \in Upstreams : led[u] - led[v] <= 1 + Cardinality(Owed(v))

\* No upstream is forgotten: each leads a chain again and again, also when the
\* counter wraps.
EveryoneLeads ==
  \A u \in Upstreams : []<>(\E t \in Tasks : task[t] # <<>> /\ Head(task[t]) = u)
=============================================================================
