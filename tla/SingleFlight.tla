---------------------------- MODULE SingleFlight ----------------------------
(***************************************************************************)
(* Coalescing of concurrent identical reads (src/src/proxy/singleflight    *)
(* and Pipeline::coalesce).                                                *)
(*                                                                         *)
(* A caller that finds a live flight for its key in the map follows it;    *)
(* otherwise it leads a new one.  The map holds weak handles only: a       *)
(* flight lives as long as some caller holds its Shared future, and any    *)
(* holder's poll drives it.  An Evict guard inside the flight removes the  *)
(* map entry when the flight's future is dropped: after its chain returned *)
(* or, if the last holder hung up, in the middle of it.                    *)
(*                                                                         *)
(* join and Evict::drop each run under the map's mutex, so each is one     *)
(* step.  Returning, evicting and publishing the output are three steps:   *)
(* other callers can join and hang up between them.  A caller joins once,  *)
(* so the flight a caller leads is named by the caller: FlightId is the    *)
(* fresh name the code draws for it.  The chain inside a flight is the     *)
(* subject of Dispatch; here it returns one of the replies it can return.  *)
(***************************************************************************)
EXTENDS Naturals, FiniteSets

CONSTANTS
  Callers,     \* requests that dedup_key gives a key: reads that carry an id
  Keys,        \* dedup keys: method and params
  None         \* absence of a caller, a flight or an entry

VARIABLES
  key,         \* key[c]: the dedup key of c's body
  pc,          \* pc[c]: where c's handler is
  at,          \* at[c]: the flight whose Shared handle c holds
  inflight,    \* inflight[k]: the flight of the map's entry for key k
  stage,       \* stage[f]: progress of the flight led by f
  value,       \* value[f]: the reply its chain returned
  poller,      \* poller[f]: the holder whose poll the chain returned in
  answer,      \* answer[c]: the reply c was served
  coalesced    \* rpc_requests_coalesced_total

vars == <<key, pc, at, inflight, stage, value, poller, answer, coalesced>>

-----------------------------------------------------------------------------
(* Vocabulary *)

PCs == {"new", "leading", "following", "alone", "served", "gone"}

\* open: built, not polled; running: its chain is in progress; answered: the
\* chain returned, the Evict guard is being dropped; evicted: the guard has
\* run; complete: the output is stored and the waiters are woken; dropping:
\* the last handle was dropped first, so no upgrade succeeds and the future is
\* being torn down; dropped: torn down.
Stages == {"absent", "open", "running", "answered", "evicted", "complete",
           "dropping", "dropped"}
Unfinished == {"open", "running", "answered"}

\* What a chain returns: an upstream's body that carries the id it was asked
\* with, the proxy's own error body, whose id is null, or a body that is not a
\* JSON object and cannot be readdressed.
Values == {"upstream_body", "internal_error", "not_an_object"}

ASSUME NoneAssumption == None \notin Callers \cup Values

\* A served reply: the flight it came from (None: a chain of the caller's own)
\* and the id in it.
NoAnswer == [from |-> None, id |-> "none"]
Answers  == [from : Callers \cup {None}, id : Callers \cup {"none", "null"}]

\* The id in the reply of a chain that was sent c's body.
IdIn(v, c) ==
  IF v = "upstream_body" THEN c
  ELSE IF v = "internal_error" THEN "null" ELSE "none"

Holders(f) == {c \in Callers : at[c] = f}
Waiting(c) == pc[c] \in {"leading", "following"}
Polling(c) == \E f \in Callers : poller[f] = c

-----------------------------------------------------------------------------

Init ==
  /\ key \in [Callers -> Keys]
  /\ pc = [c \in Callers |-> "new"]
  /\ at = [c \in Callers |-> None]
  /\ inflight = [k \in Keys |-> None]
  /\ stage = [f \in Callers |-> "absent"]
  /\ value = [f \in Callers |-> "none"]
  /\ poller = [f \in Callers |-> None]
  /\ answer = [c \in Callers |-> NoAnswer]
  /\ coalesced = 0

-----------------------------------------------------------------------------
(* join, under the map's mutex *)

\* The map has an entry for c's key and its weak handle upgrades.
Joinable(k) == inflight[k] # None /\ Holders(inflight[k]) # {}

Follow(c) ==
  /\ pc[c] = "new"
  /\ Joinable(key[c])
  /\ pc' = [pc EXCEPT ![c] = "following"]
  /\ at' = [at EXCEPT ![c] = inflight[key[c]]]
  /\ UNCHANGED <<key, inflight, stage, value, poller, answer, coalesced>>

\* No entry, or one whose flight has no holder left: it is overwritten.
Lead(c) ==
  /\ pc[c] = "new"
  /\ ~Joinable(key[c])
  /\ pc' = [pc EXCEPT ![c] = "leading"]
  /\ at' = [at EXCEPT ![c] = c]
  /\ inflight' = [inflight EXCEPT ![key[c]] = c]
  /\ stage' = [stage EXCEPT ![c] = "open"]
  /\ UNCHANGED <<key, value, poller, answer, coalesced>>

-----------------------------------------------------------------------------
(* Polls of a flight, by whichever holder's task runs *)

\* The first poll runs the leader's closure: the decider is asked for a chain.
FirstPoll(f) ==
  /\ stage[f] = "open"
  /\ Holders(f) # {}
  /\ stage' = [stage EXCEPT ![f] = "running"]
  /\ UNCHANGED <<key, pc, at, inflight, value, poller, answer, coalesced>>

\* The chain returns inside a poll by holder c.
Return(f, c, v) ==
  /\ stage[f] = "running"
  /\ c \in Holders(f)
  /\ stage' = [stage EXCEPT ![f] = "answered"]
  /\ value' = [value EXCEPT ![f] = v]
  /\ poller' = [poller EXCEPT ![f] = c]
  /\ UNCHANGED <<key, pc, at, inflight, answer, coalesced>>

\* Mutation: the guard removes the key's entry, whoever's it is.
RemoveAnyEntry(f) ==
  inflight' = [inflight EXCEPT ![key[f]] = None]

\* Evict::drop: the entry is removed if it is still this flight's.
RemoveEntry(f) ==
  inflight' = [inflight EXCEPT ![key[f]] = IF @ = f THEN None ELSE @]

\* Mutation: only a flight that is torn down evicts its entry.
ReturnWithoutEvicting(f) ==
  /\ stage[f] = "answered"
  /\ stage' = [stage EXCEPT ![f] = "evicted"]
  /\ UNCHANGED <<key, pc, at, inflight, value, poller, answer, coalesced>>

\* The flight's async block ends: its guard is dropped under the mutex.
EvictOnReturn(f) ==
  /\ stage[f] = "answered"
  /\ stage' = [stage EXCEPT ![f] = "evicted"]
  /\ RemoveEntry(f)
  /\ UNCHANGED <<key, pc, at, value, poller, answer, coalesced>>

\* Shared stores the output and wakes every waiter.
Publish(f) ==
  /\ stage[f] = "evicted"
  /\ stage' = [stage EXCEPT ![f] = "complete"]
  /\ poller' = [poller EXCEPT ![f] = None]
  /\ UNCHANGED <<key, pc, at, inflight, value, answer, coalesced>>

-----------------------------------------------------------------------------
(* Pipeline::coalesce after join *)

\* The leader answers with the flight's reply as it is.
ReceiveLeading(c) ==
  /\ pc[c] = "leading"
  /\ stage[at[c]] = "complete"
  /\ pc' = [pc EXCEPT ![c] = "served"]
  /\ at' = [at EXCEPT ![c] = None]
  /\ answer' = [answer EXCEPT
                  ![c] = [from |-> at[c], id |-> IdIn(value[at[c]], at[c])]]
  /\ UNCHANGED <<key, inflight, stage, value, poller, coalesced>>

\* Mutation: a follower answers with the leader's reply as it is.
ReceiveUnaddressed(c) ==
  /\ pc[c] = "following"
  /\ stage[at[c]] = "complete"
  /\ value[at[c]] # "not_an_object"
  /\ pc' = [pc EXCEPT ![c] = "served"]
  /\ at' = [at EXCEPT ![c] = None]
  /\ answer' = [answer EXCEPT
                  ![c] = [from |-> at[c], id |-> IdIn(value[at[c]], at[c])]]
  /\ coalesced' = coalesced + 1
  /\ UNCHANGED <<key, inflight, stage, value, poller>>

\* Mutation: a follower that is answered is not counted.
ReceiveUncounted(c) ==
  /\ pc[c] = "following"
  /\ stage[at[c]] = "complete"
  /\ value[at[c]] # "not_an_object"
  /\ pc' = [pc EXCEPT ![c] = "served"]
  /\ at' = [at EXCEPT ![c] = None]
  /\ answer' = [answer EXCEPT ![c] = [from |-> at[c], id |-> c]]
  /\ UNCHANGED <<key, inflight, stage, value, poller, coalesced>>

\* A follower puts its own id in the reply, and is counted.
ReceiveFollowing(c) ==
  /\ pc[c] = "following"
  /\ stage[at[c]] = "complete"
  /\ value[at[c]] # "not_an_object"
  /\ pc' = [pc EXCEPT ![c] = "served"]
  /\ at' = [at EXCEPT ![c] = None]
  /\ answer' = [answer EXCEPT ![c] = [from |-> at[c], id |-> c]]
  /\ coalesced' = coalesced + 1
  /\ UNCHANGED <<key, inflight, stage, value, poller>>

\* Mutation: the fallback takes back a count that was never made.
FallBackUncounts(c) ==
  /\ pc[c] = "following"
  /\ stage[at[c]] = "complete"
  /\ value[at[c]] = "not_an_object"
  /\ pc' = [pc EXCEPT ![c] = "alone"]
  /\ at' = [at EXCEPT ![c] = None]
  /\ coalesced' = coalesced - 1
  /\ UNCHANGED <<key, inflight, stage, value, poller, answer>>

\* readdress fails: the follower runs a chain of its own.
FallBack(c) ==
  /\ pc[c] = "following"
  /\ stage[at[c]] = "complete"
  /\ value[at[c]] = "not_an_object"
  /\ pc' = [pc EXCEPT ![c] = "alone"]
  /\ at' = [at EXCEPT ![c] = None]
  /\ UNCHANGED <<key, inflight, stage, value, poller, answer, coalesced>>

ReturnAlone(c, v) ==
  /\ pc[c] = "alone"
  /\ pc' = [pc EXCEPT ![c] = "served"]
  /\ answer' = [answer EXCEPT ![c] = [from |-> None, id |-> IdIn(v, c)]]
  /\ UNCHANGED <<key, at, inflight, stage, value, poller, coalesced>>

-----------------------------------------------------------------------------
(* Hang-ups *)

\* Mutation: the leader owns the flight, which ends with the leader's handler.
HangUpOwning(c) ==
  /\ Waiting(c) \/ pc[c] = "alone"
  /\ ~Polling(c)
  /\ pc' = [pc EXCEPT ![c] = "gone"]
  /\ at' = [at EXCEPT ![c] = None]
  /\ stage' = [f \in Callers |->
                 IF f = c /\ stage[f] \in {"open", "running"}
                 THEN "dropping" ELSE stage[f]]
  /\ UNCHANGED <<key, inflight, value, poller, answer, coalesced>>

\* c's handler is dropped while it is suspended, its Shared handle with it. If
\* that was the last one, the flight's future starts to be torn down.
HangUp(c) ==
  /\ Waiting(c) \/ pc[c] = "alone"
  /\ ~Polling(c)
  /\ pc' = [pc EXCEPT ![c] = "gone"]
  /\ at' = [at EXCEPT ![c] = None]
  /\ stage' = [f \in Callers |->
                 IF Holders(f) = {c} /\ stage[f] \in {"open", "running"}
                 THEN "dropping" ELSE stage[f]]
  /\ UNCHANGED <<key, inflight, value, poller, answer, coalesced>>

\* The torn-down chain abandons its calls, then the Evict guard is dropped. A
\* new leader may have overwritten the entry since the last handle went.
EvictOnDrop(f) ==
  /\ stage[f] = "dropping"
  /\ stage' = [stage EXCEPT ![f] = "dropped"]
  /\ RemoveEntry(f)
  /\ UNCHANGED <<key, pc, at, value, poller, answer, coalesced>>

-----------------------------------------------------------------------------

Join(c)    == Follow(c) \/ Lead(c)
Receive(c) == ReceiveLeading(c) \/ ReceiveFollowing(c) \/ FallBack(c)

\* Steps a poll of flight f takes, whoever polls.
Drive(f) ==
  \/ FirstPoll(f)
  \/ \E c \in Callers, v \in Values : Return(f, c, v)
  \/ EvictOnReturn(f)
  \/ Publish(f)

Next ==
  \/ \E c \in Callers : Join(c)
  \/ \E f \in Callers : Drive(f)
  \/ \E c \in Callers : Receive(c)
  \/ \E c \in Callers, v \in Values : ReturnAlone(c, v)
  \/ \E c \in Callers : HangUp(c)
  \/ \E f \in Callers : EvictOnDrop(f)

\* Any holder's task is polled when the flight wakes it, a chain ends
\* (Dispatch!EveryRequestEnds), and a drop that has begun runs to its end.
\* Nothing makes a caller arrive or hang up.
Fairness ==
  /\ \A f \in Callers : WF_vars(Drive(f)) /\ WF_vars(EvictOnDrop(f))
  /\ \A c \in Callers : /\ WF_vars(Receive(c))
                        /\ WF_vars(\E v \in Values : ReturnAlone(c, v))

Spec == Init /\ [][Next]_vars

FairSpec == Spec /\ Fairness

-----------------------------------------------------------------------------
(* Properties *)

TypeOK ==
  /\ key \in [Callers -> Keys]
  /\ pc \in [Callers -> PCs]
  /\ at \in [Callers -> Callers \cup {None}]
  /\ inflight \in [Keys -> Callers \cup {None}]
  /\ stage \in [Callers -> Stages]
  /\ value \in [Callers -> Values \cup {"none"}]
  /\ poller \in [Callers -> Callers \cup {None}]
  /\ answer \in [Callers -> Answers]
  /\ coalesced \in Nat

\* Concurrent identical reads share one chain (docs/spec.md: "coalesced into a
\* single upstream call"): no two flights with the same key that somebody holds
\* have a chain that has not finished, whatever joins, hang-ups and late
\* evictions came before.
OneOpenFlightPerKey ==
  \A f, g \in Callers :
    /\ stage[f] \in Unfinished /\ stage[g] \in Unfinished
    /\ key[f] = key[g]
    => f = g

\* The map is not a cache and does not leak: every entry is of a flight whose
\* Evict guard has yet to run, so it will be removed or overwritten. The guard
\* of a flight that was overwritten never takes the newer entry away: a flight
\* that can still be shared is in the map.
EntriesAreUnfinishedFlights ==
  /\ \A k \in Keys :
       inflight[k] # None =>
         /\ key[inflight[k]] = k
         /\ stage[inflight[k]] \in Unfinished \cup {"dropping"}
  /\ \A f \in Callers : stage[f] \in Unfinished => inflight[key[f]] = f

\* No reply reaches a caller under another caller's id.
NoForeignId == \A c \in Callers : answer[c].id \in {c, "null", "none"}

\* A caller that waits holds a flight that can still answer it: no order of
\* hang-ups, of the leader's own included, strands the others on a flight that
\* was torn down.
WaitersHoldLiveFlights ==
  \A c \in Callers :
    Waiting(c) => /\ at[c] # None
                  /\ key[at[c]] = key[c]
                  /\ stage[at[c]] \notin {"absent", "dropping", "dropped"}

\* Control and handles agree: a caller holds a handle exactly while it waits,
\* the leader one of its own flight; a flight whose chain has not finished has
\* a holder; the poll a chain returned in belongs to a holder that cannot go
\* away under it; and a flight has a value once its chain returned.
HandlesMatchControl ==
  /\ \A c \in Callers :
       /\ Waiting(c) <=> at[c] # None
       /\ pc[c] = "leading" => at[c] = c
       /\ pc[c] = "new" => stage[c] = "absent"
  /\ \A f \in Callers :
       /\ stage[f] \in Unfinished => Holders(f) # {}
       /\ IF stage[f] \in {"answered", "evicted"}
          THEN poller[f] \in Holders(f) ELSE poller[f] = None
       /\ value[f] \in Values <=> stage[f] \in {"answered", "evicted", "complete"}

\* Nobody is given a chain that had already finished when it asked
\* (docs/configuration.md: "Dedup is not a cache").
FollowersJoinUnfinishedFlights ==
  [][\A c \in Callers : pc[c] = "new" /\ pc'[c] = "following"
                        => stage[at'[c]] \in Unfinished]_vars

\* Every caller is served unless it hangs up itself.
EveryWaiterServed ==
  \A c \in Callers :
    (Waiting(c) \/ pc[c] = "alone") ~> pc[c] \in {"served", "gone"}

\* Every entry leaves the map.
EntriesLeave ==
  \A k \in Keys, f \in Callers : (inflight[k] = f) ~> (inflight[k] # f)

\* Both: whatever hang-ups come, flights do not hang, and the map empties.
FlightsEnd == EveryWaiterServed /\ EntriesLeave

-----------------------------------------------------------------------------
(* Refinement *)

\* A flight can be shared while the map names it and its chain has not
\* finished; it has landed once its entry is gone.
Shareable == [k \in Keys |->
                IF inflight[k] # None /\ stage[inflight[k]] \in Unfinished
                THEN inflight[k] ELSE None]
Landed    == [f \in Callers |->
                IF stage[f] \in {"evicted", "complete"} THEN value[f] ELSE None]

Promise == INSTANCE Coalescing WITH shared <- Shareable, result <- Landed

\* join, Shared, the weak handles and the Evict guard together keep the
\* promise of Coalescing.
ImplementsPromise == Promise!Spec
=============================================================================
