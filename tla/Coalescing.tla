----------------------------- MODULE Coalescing -----------------------------
(***************************************************************************)
(* What dedup promises its callers, without weak handles, eviction guards  *)
(* or polls: at any moment a key has at most one flight that can be        *)
(* shared; whoever asks while there is one shares it, and nobody else's    *)
(* departure ends it.  SingleFlight implements this.                       *)
(***************************************************************************)
EXTENDS Naturals

CONSTANTS Callers, Keys, None, Values

VARIABLES
  key,         \* key[c]: what c asks for
  pc,          \* pc[c]: c's progress
  at,          \* at[c]: the flight c waits on
  shared,      \* shared[k]: the flight that a caller asking for k shares
  result,      \* result[f]: what flight f returned, None before it did
  coalesced    \* callers answered with another caller's call

vars == <<key, pc, at, shared, result, coalesced>>

Passengers(f) == {c \in Callers : at[c] = f}

Init ==
  /\ key \in [Callers -> Keys]
  /\ pc = [c \in Callers |-> "new"]
  /\ at = [c \in Callers |-> None]
  /\ shared = [k \in Keys |-> None]
  /\ result = [f \in Callers |-> None]
  /\ coalesced = 0

\* Ask: share the key's flight, or start one that others can share.
Ask(c) ==
  /\ pc[c] = "new"
  /\ IF shared[key[c]] # None
     THEN /\ pc' = [pc EXCEPT ![c] = "following"]
          /\ at' = [at EXCEPT ![c] = shared[key[c]]]
          /\ UNCHANGED shared
     ELSE /\ pc' = [pc EXCEPT ![c] = "leading"]
          /\ at' = [at EXCEPT ![c] = c]
          /\ shared' = [shared EXCEPT ![key[c]] = c]
  /\ UNCHANGED <<key, result, coalesced>>

\* The shared flight returns, and stops being shared, in one step.
Land(f, v) ==
  /\ shared[key[f]] = f
  /\ shared' = [shared EXCEPT ![key[f]] = None]
  /\ result' = [result EXCEPT ![f] = v]
  /\ UNCHANGED <<key, pc, at, coalesced>>

\* A passenger of a flight that has landed leaves it with the result; a
\* follower may find it unusable and go on alone.
Alight(c) ==
  /\ pc[c] \in {"leading", "following"}
  /\ result[at[c]] # None
  /\ at' = [at EXCEPT ![c] = None]
  /\ \/ /\ pc' = [pc EXCEPT ![c] = "served"]
        /\ coalesced' = coalesced + (IF pc[c] = "following" THEN 1 ELSE 0)
     \/ /\ pc[c] = "following"
        /\ result[at[c]] = "not_an_object"
        /\ pc' = [pc EXCEPT ![c] = "alone"]
        /\ UNCHANGED coalesced
  /\ UNCHANGED <<key, shared, result>>

ArriveAlone(c) ==
  /\ pc[c] = "alone"
  /\ pc' = [pc EXCEPT ![c] = "served"]
  /\ UNCHANGED <<key, at, shared, result, coalesced>>

\* A caller gives up. Only the last passenger takes the flight with it.
GiveUp(c) ==
  /\ pc[c] \in {"leading", "following", "alone"}
  /\ pc' = [pc EXCEPT ![c] = "gone"]
  /\ at' = [at EXCEPT ![c] = None]
  /\ shared' = [k \in Keys |->
                  IF shared[k] # None /\ Passengers(shared[k]) = {c}
                  THEN None ELSE shared[k]]
  /\ UNCHANGED <<key, result, coalesced>>

Next ==
  \/ \E c \in Callers : Ask(c) \/ Alight(c) \/ ArriveAlone(c) \/ GiveUp(c)
  \/ \E f \in Callers, v \in Values : Land(f, v)

Spec == Init /\ [][Next]_vars
=============================================================================
