------------------------- MODULE SingleFlightProofs -------------------------
(***************************************************************************)
(* Proofs about SingleFlight for every set of callers and keys.            *)
(***************************************************************************)
EXTENDS SingleFlight, TLAPS

\* The inductive invariant. OneOpenFlightPerKey alone is not inductive: that a
\* leader may start only when no flight of its key is unfinished rests on the
\* map naming every unfinished flight, that a late eviction spares a newer
\* entry, and that an unfinished flight has a holder, so its entry upgrades.
IInv ==
  /\ TypeOK
  /\ EntriesAreUnfinishedFlights
  /\ WaitersHoldLiveFlights
  /\ HandlesMatchControl
  /\ NoForeignId

LEMMA InitIInv == Init => IInv
<1> SUFFICES ASSUME Init PROVE IInv
  OBVIOUS
<1> USE NoneAssumption DEF Init
<1>1. TypeOK
  BY DEF TypeOK, PCs, Stages, Values, Answers, NoAnswer
<1>2. EntriesAreUnfinishedFlights
  BY DEF EntriesAreUnfinishedFlights, Unfinished
<1>3. WaitersHoldLiveFlights
  BY DEF WaitersHoldLiveFlights, Waiting
<1>4. HandlesMatchControl
  BY DEF HandlesMatchControl, Waiting, Holders, Unfinished, Values
<1>5. NoForeignId
  BY DEF NoForeignId, NoAnswer
<1> QED
  BY <1>1, <1>2, <1>3, <1>4, <1>5 DEF IInv

LEMMA FollowIInv == ASSUME IInv, NEW c \in Callers, Follow(c) PROVE IInv'
<1> USE NoneAssumption DEF IInv, Follow, Joinable, Holders
<1>1. TypeOK'
  BY DEF TypeOK, PCs
<1>2. EntriesAreUnfinishedFlights'
  BY DEF EntriesAreUnfinishedFlights
<1>3. WaitersHoldLiveFlights'
  BY DEF WaitersHoldLiveFlights, Waiting, TypeOK, EntriesAreUnfinishedFlights,
         HandlesMatchControl, Unfinished
<1>4. HandlesMatchControl'
  BY DEF HandlesMatchControl, Waiting, TypeOK
<1>5. NoForeignId'
  BY DEF NoForeignId
<1> QED
  BY <1>1, <1>2, <1>3, <1>4, <1>5

LEMMA LeadIInv == ASSUME IInv, NEW c \in Callers, Lead(c) PROVE IInv'
<1> USE NoneAssumption DEF IInv, Lead, Joinable, TypeOK
<1>1. TypeOK'
  BY DEF PCs, Stages, Answers, Values
<1>2. EntriesAreUnfinishedFlights'
  BY DEF EntriesAreUnfinishedFlights, HandlesMatchControl, Holders, Unfinished
<1>3. WaitersHoldLiveFlights'
  BY DEF WaitersHoldLiveFlights, Waiting, HandlesMatchControl, Holders, Unfinished
<1>4. HandlesMatchControl'
  BY DEF HandlesMatchControl, WaitersHoldLiveFlights, Waiting, Holders, Unfinished, Values
<1>5. NoForeignId'
  BY DEF NoForeignId, HandlesMatchControl, WaitersHoldLiveFlights, Waiting, Values
<1> QED
  BY <1>1, <1>2, <1>3, <1>4, <1>5

LEMMA FirstPollIInv == ASSUME IInv, NEW f \in Callers, FirstPoll(f) PROVE IInv'
<1> USE NoneAssumption DEF IInv, FirstPoll, TypeOK
<1>1. TypeOK'
  BY DEF PCs, Stages, Answers, Values
<1>2. EntriesAreUnfinishedFlights'
  BY DEF EntriesAreUnfinishedFlights, HandlesMatchControl, Holders, Unfinished
<1>3. WaitersHoldLiveFlights'
  BY DEF WaitersHoldLiveFlights, Waiting, HandlesMatchControl, Holders, Unfinished
<1>4. HandlesMatchControl'
  BY DEF HandlesMatchControl, WaitersHoldLiveFlights, Waiting, Holders, Unfinished, Values
<1>5. NoForeignId'
  BY DEF NoForeignId, HandlesMatchControl, WaitersHoldLiveFlights, Waiting, Values
<1> QED
  BY <1>1, <1>2, <1>3, <1>4, <1>5

LEMMA ReturnIInv == ASSUME IInv, NEW f \in Callers, NEW c \in Callers, NEW v \in Values, Return(f, c, v) PROVE IInv'
<1> USE NoneAssumption DEF IInv, Return, TypeOK
<1>1. TypeOK'
  BY DEF PCs, Stages, Answers, Values
<1>2. EntriesAreUnfinishedFlights'
  BY DEF EntriesAreUnfinishedFlights, HandlesMatchControl, Holders, Unfinished
<1>3. WaitersHoldLiveFlights'
  BY DEF WaitersHoldLiveFlights, Waiting, HandlesMatchControl, Holders, Unfinished
<1>4. HandlesMatchControl'
  BY DEF HandlesMatchControl, WaitersHoldLiveFlights, Waiting, Holders, Unfinished, Values
<1>5. NoForeignId'
  BY DEF NoForeignId, HandlesMatchControl, WaitersHoldLiveFlights, Waiting, Values
<1> QED
  BY <1>1, <1>2, <1>3, <1>4, <1>5

LEMMA EvictOnReturnIInv == ASSUME IInv, NEW f \in Callers, EvictOnReturn(f) PROVE IInv'
<1> USE NoneAssumption DEF IInv, EvictOnReturn, RemoveEntry, TypeOK
<1>1. TypeOK'
  BY DEF PCs, Stages, Answers, Values
<1>2. EntriesAreUnfinishedFlights'
  BY DEF EntriesAreUnfinishedFlights, HandlesMatchControl, Holders, Unfinished
<1>3. WaitersHoldLiveFlights'
  BY DEF WaitersHoldLiveFlights, Waiting, HandlesMatchControl, Holders, Unfinished
<1>4. HandlesMatchControl'
  BY DEF HandlesMatchControl, WaitersHoldLiveFlights, Waiting, Holders, Unfinished, Values
<1>5. NoForeignId'
  BY DEF NoForeignId, HandlesMatchControl, WaitersHoldLiveFlights, Waiting, Values
<1> QED
  BY <1>1, <1>2, <1>3, <1>4, <1>5

LEMMA PublishIInv == ASSUME IInv, NEW f \in Callers, Publish(f) PROVE IInv'
<1> USE NoneAssumption DEF IInv, Publish, TypeOK
<1>1. TypeOK'
  BY DEF PCs, Stages, Answers, Values
<1>2. EntriesAreUnfinishedFlights'
  BY DEF EntriesAreUnfinishedFlights, HandlesMatchControl, Holders, Unfinished
<1>3. WaitersHoldLiveFlights'
  BY DEF WaitersHoldLiveFlights, Waiting, HandlesMatchControl, Holders, Unfinished
<1>4. HandlesMatchControl'
  BY DEF HandlesMatchControl, WaitersHoldLiveFlights, Waiting, Holders, Unfinished, Values
<1>5. NoForeignId'
  BY DEF NoForeignId, HandlesMatchControl, WaitersHoldLiveFlights, Waiting, Values
<1> QED
  BY <1>1, <1>2, <1>3, <1>4, <1>5

LEMMA ReceiveLeadingIInv == ASSUME IInv, NEW c \in Callers, ReceiveLeading(c) PROVE IInv'
<1> USE NoneAssumption DEF IInv, ReceiveLeading, IdIn, TypeOK
<1>1. TypeOK'
  BY DEF PCs, Stages, Answers, Values, HandlesMatchControl,
         WaitersHoldLiveFlights, Waiting
<1>2. EntriesAreUnfinishedFlights'
  BY DEF EntriesAreUnfinishedFlights, HandlesMatchControl, Holders, Unfinished
<1>3. WaitersHoldLiveFlights'
  BY DEF WaitersHoldLiveFlights, Waiting, HandlesMatchControl, Holders, Unfinished
<1>4. HandlesMatchControl'
  BY DEF HandlesMatchControl, WaitersHoldLiveFlights, Waiting, Holders, Unfinished, Values
<1>5. NoForeignId'
  BY DEF NoForeignId, HandlesMatchControl, WaitersHoldLiveFlights, Waiting, Values
<1> QED
  BY <1>1, <1>2, <1>3, <1>4, <1>5

LEMMA ReceiveFollowingIInv == ASSUME IInv, NEW c \in Callers, ReceiveFollowing(c) PROVE IInv'
<1> USE NoneAssumption DEF IInv, ReceiveFollowing, TypeOK
<1>1. TypeOK'
  BY DEF PCs, Stages, Answers, Values
<1>2. EntriesAreUnfinishedFlights'
  BY DEF EntriesAreUnfinishedFlights, HandlesMatchControl, Holders, Unfinished
<1>3. WaitersHoldLiveFlights'
  BY DEF WaitersHoldLiveFlights, Waiting, HandlesMatchControl, Holders, Unfinished
<1>4. HandlesMatchControl'
  BY DEF HandlesMatchControl, WaitersHoldLiveFlights, Waiting, Holders, Unfinished, Values
<1>5. NoForeignId'
  BY DEF NoForeignId, HandlesMatchControl, WaitersHoldLiveFlights, Waiting, Values
<1> QED
  BY <1>1, <1>2, <1>3, <1>4, <1>5

LEMMA FallBackIInv == ASSUME IInv, NEW c \in Callers, FallBack(c) PROVE IInv'
<1> USE NoneAssumption DEF IInv, FallBack, TypeOK
<1>1. TypeOK'
  BY DEF PCs, Stages, Answers, Values
<1>2. EntriesAreUnfinishedFlights'
  BY DEF EntriesAreUnfinishedFlights, HandlesMatchControl, Holders, Unfinished
<1>3. WaitersHoldLiveFlights'
  BY DEF WaitersHoldLiveFlights, Waiting, HandlesMatchControl, Holders, Unfinished
<1>4. HandlesMatchControl'
  BY DEF HandlesMatchControl, WaitersHoldLiveFlights, Waiting, Holders, Unfinished, Values
<1>5. NoForeignId'
  BY DEF NoForeignId, HandlesMatchControl, WaitersHoldLiveFlights, Waiting, Values
<1> QED
  BY <1>1, <1>2, <1>3, <1>4, <1>5

LEMMA ReturnAloneIInv == ASSUME IInv, NEW c \in Callers, NEW v \in Values, ReturnAlone(c, v) PROVE IInv'
<1> USE NoneAssumption DEF IInv, ReturnAlone, IdIn, TypeOK
<1>1. TypeOK'
  BY DEF PCs, Stages, Answers, Values
<1>2. EntriesAreUnfinishedFlights'
  BY DEF EntriesAreUnfinishedFlights, HandlesMatchControl, Holders, Unfinished
<1>3. WaitersHoldLiveFlights'
  BY DEF WaitersHoldLiveFlights, Waiting, HandlesMatchControl, Holders, Unfinished
<1>4. HandlesMatchControl'
  BY DEF HandlesMatchControl, WaitersHoldLiveFlights, Waiting, Holders, Unfinished, Values
<1>5. NoForeignId'
  BY DEF NoForeignId, HandlesMatchControl, WaitersHoldLiveFlights, Waiting, Values
<1> QED
  BY <1>1, <1>2, <1>3, <1>4, <1>5

LEMMA HangUpIInv == ASSUME IInv, NEW c \in Callers, HangUp(c) PROVE IInv'
<1> USE NoneAssumption DEF IInv, HangUp, Polling, TypeOK
<1>1. TypeOK'
  BY DEF PCs, Stages, Answers, Values
<1>2. EntriesAreUnfinishedFlights'
  BY DEF EntriesAreUnfinishedFlights, HandlesMatchControl, Holders, Unfinished
<1>3. WaitersHoldLiveFlights'
  BY DEF WaitersHoldLiveFlights, Waiting, HandlesMatchControl, Holders, Unfinished
<1>4. HandlesMatchControl'
  BY DEF HandlesMatchControl, WaitersHoldLiveFlights, Waiting, Holders, Unfinished, Values
<1>5. NoForeignId'
  BY DEF NoForeignId, HandlesMatchControl, WaitersHoldLiveFlights, Waiting, Values
<1> QED
  BY <1>1, <1>2, <1>3, <1>4, <1>5

LEMMA EvictOnDropIInv == ASSUME IInv, NEW f \in Callers, EvictOnDrop(f) PROVE IInv'
<1> USE NoneAssumption DEF IInv, EvictOnDrop, RemoveEntry, TypeOK
<1>1. TypeOK'
  BY DEF PCs, Stages, Answers, Values
<1>2. EntriesAreUnfinishedFlights'
  BY DEF EntriesAreUnfinishedFlights, HandlesMatchControl, Holders, Unfinished
<1>3. WaitersHoldLiveFlights'
  BY DEF WaitersHoldLiveFlights, Waiting, HandlesMatchControl, Holders, Unfinished
<1>4. HandlesMatchControl'
  BY DEF HandlesMatchControl, WaitersHoldLiveFlights, Waiting, Holders, Unfinished, Values
<1>5. NoForeignId'
  BY DEF NoForeignId, HandlesMatchControl, WaitersHoldLiveFlights, Waiting, Values
<1> QED
  BY <1>1, <1>2, <1>3, <1>4, <1>5

LEMMA StutterIInv == ASSUME IInv, UNCHANGED vars PROVE IInv'
BY DEF IInv, vars, TypeOK, EntriesAreUnfinishedFlights,
       WaitersHoldLiveFlights, HandlesMatchControl, NoForeignId, Waiting,
       Holders

LEMMA NextIInv == IInv /\ [Next]_vars => IInv'
<1> SUFFICES ASSUME IInv, [Next]_vars PROVE IInv'
  OBVIOUS
<1>1. CASE \E c \in Callers : Join(c)
  BY <1>1, FollowIInv, LeadIInv DEF Join
<1>2. CASE \E f \in Callers : Drive(f)
  BY <1>2, FirstPollIInv, ReturnIInv, EvictOnReturnIInv, PublishIInv DEF Drive
<1>3. CASE \E c \in Callers : Receive(c)
  BY <1>3, ReceiveLeadingIInv, ReceiveFollowingIInv, FallBackIInv DEF Receive
<1>4. CASE \E c \in Callers, v \in Values : ReturnAlone(c, v)
  BY <1>4, ReturnAloneIInv
<1>5. CASE \E c \in Callers : HangUp(c)
  BY <1>5, HangUpIInv
<1>6. CASE \E f \in Callers : EvictOnDrop(f)
  BY <1>6, EvictOnDropIInv
<1>7. CASE UNCHANGED vars
  BY <1>7, StutterIInv
<1> QED
  BY <1>1, <1>2, <1>3, <1>4, <1>5, <1>6, <1>7 DEF Next

\* The state of a flight, its holders and the map is consistent in every
\* reachable state, for every number of callers and keys.
THEOREM Invariance == Spec => []IInv
<1> QED
  BY InitIInv, NextIInv, PTL DEF Spec

\* SingleFlight is type-correct.
THEOREM TypeCorrect == Spec => []TypeOK
<1>1. IInv => TypeOK
  BY DEF IInv
<1> QED
  BY <1>1, Invariance, PTL

\* No two flights of one key ever have an unfinished chain: both would be the
\* flight the map names.
THEOREM AtMostOneOpenFlight == Spec => []OneOpenFlightPerKey
<1>1. IInv => OneOpenFlightPerKey
  BY DEF IInv, OneOpenFlightPerKey, EntriesAreUnfinishedFlights, TypeOK
<1> QED
  BY <1>1, Invariance, PTL

\* The map names only flights whose guard is still to run, and every flight
\* that can be shared.
THEOREM MapIsExact == Spec => []EntriesAreUnfinishedFlights
<1>1. IInv => EntriesAreUnfinishedFlights
  BY DEF IInv
<1> QED
  BY <1>1, Invariance, PTL

\* A waiting caller is never stranded on a flight that was torn down.
THEOREM NobodyStranded == Spec => []WaitersHoldLiveFlights
<1>1. IInv => WaitersHoldLiveFlights
  BY DEF IInv
<1> QED
  BY <1>1, Invariance, PTL

\* No reply carries the id of another caller.
THEOREM IdsAreOwn == Spec => []NoForeignId
<1>1. IInv => NoForeignId
  BY DEF IInv
<1> QED
  BY <1>1, Invariance, PTL

\* A follower joins only a flight whose chain has not finished.
THEOREM NotACache == Spec => FollowersJoinUnfinishedFlights
<1>1. IInv /\ [Next]_vars =>
        [\A c \in Callers : pc[c] = "new" /\ pc'[c] = "following"
                            => stage[at'[c]] \in Unfinished]_vars
  <2> SUFFICES ASSUME IInv, Next, NEW c \in Callers,
                      pc[c] = "new", pc'[c] = "following"
               PROVE  stage[at'[c]] \in Unfinished
    OBVIOUS
  <2>1. \A d \in Callers : Lead(d) \/ Receive(d) \/ HangUp(d) => pc'[c] # "following"
    BY DEF Lead, Receive, ReceiveLeading, ReceiveFollowing, FallBack, HangUp,
           IInv, TypeOK
  <2>2. \A d \in Callers, v \in Values : ReturnAlone(d, v) => pc'[c] # "following"
    BY DEF ReturnAlone, IInv, TypeOK
  <2>3. \A f \in Callers : Drive(f) \/ EvictOnDrop(f) => pc' = pc
    BY DEF Drive, FirstPoll, Return, EvictOnReturn, Publish, EvictOnDrop
  <2>4. PICK d \in Callers : Follow(d)
    BY <2>1, <2>2, <2>3 DEF Next, Join
  <2>5. d = c
    BY <2>4 DEF Follow, IInv, TypeOK
  <2>6. at'[c] = inflight[key[c]] /\ Holders(at'[c]) # {} /\ at'[c] \in Callers
    BY <2>4, <2>5 DEF Follow, Joinable, IInv, TypeOK
  <2>7. PICK h \in Callers : at[h] = at'[c]
    BY <2>6 DEF Holders
  <2>8. stage[at'[c]] # "dropping"
    BY <2>6, <2>7, NoneAssumption
       DEF IInv, WaitersHoldLiveFlights, HandlesMatchControl
  <2>9. stage[at'[c]] \in Unfinished \cup {"dropping"}
    BY <2>4, <2>5, <2>6 DEF Follow, Joinable, IInv, EntriesAreUnfinishedFlights, TypeOK
  <2> QED
    BY <2>8, <2>9
<1> QED
  BY <1>1, Invariance, PTL DEF Spec, FollowersJoinUnfinishedFlights

-----------------------------------------------------------------------------
(* Refinement: every step of SingleFlight is a step of Coalescing or leaves
   what a caller can tell unchanged. *)

LEMMA InitRefines == Init => Promise!Init
BY DEF Init, Promise!Init, Shareable, Landed, Unfinished

LEMMA FollowRefines ==
  ASSUME IInv, NEW c \in Callers, Follow(c) PROVE Promise!Ask(c)
<1> USE NoneAssumption DEF IInv, TypeOK, Follow, Joinable
<1>1. inflight[key[c]] # None /\ inflight[key[c]] \in Callers /\ key[c] \in Keys
  OBVIOUS
<1>2. PICK h \in Callers : at[h] = inflight[key[c]]
  BY DEF Holders
<1>3. stage[inflight[key[c]]] \in Unfinished
  BY <1>1, <1>2 DEF EntriesAreUnfinishedFlights, WaitersHoldLiveFlights,
                    HandlesMatchControl
<1>4. Shareable[key[c]] = inflight[key[c]]
  BY <1>1, <1>3 DEF Shareable
<1>5. Shareable' = Shareable /\ Landed' = Landed
  BY DEF Shareable, Landed
<1> QED
  BY <1>1, <1>4, <1>5 DEF Promise!Ask

LEMMA LeadRefines ==
  ASSUME IInv, NEW c \in Callers, Lead(c) PROVE Promise!Ask(c)
<1> USE NoneAssumption DEF IInv, TypeOK, Lead, Joinable
<1>1. key[c] \in Keys /\ inflight[key[c]] \in Callers \cup {None}
  OBVIOUS
<1>2. Shareable[key[c]] = None
  BY <1>1 DEF Shareable, HandlesMatchControl
<1>3. Shareable' = [Shareable EXCEPT ![key[c]] = c]
  <2>1. \A k \in Keys : inflight[k] # None => inflight[k] # c
    BY DEF EntriesAreUnfinishedFlights, HandlesMatchControl, Unfinished
  <2>2. \A k \in Keys : Shareable'[k] = [Shareable EXCEPT ![key[c]] = c][k]
    BY <1>1, <2>1 DEF Shareable, Unfinished
  <2> QED
    BY <2>2 DEF Shareable
<1>4. Landed' = Landed
  BY DEF Landed, HandlesMatchControl
<1> QED
  BY <1>1, <1>2, <1>3, <1>4 DEF Promise!Ask

LEMMA FirstPollRefines ==
  ASSUME IInv, NEW f \in Callers, FirstPoll(f) PROVE UNCHANGED Promise!vars
<1> USE NoneAssumption DEF IInv, TypeOK, FirstPoll
<1>1. Shareable' = Shareable
  BY DEF Shareable, Unfinished, EntriesAreUnfinishedFlights
<1>2. Landed' = Landed
  BY DEF Landed
<1> QED
  BY <1>1, <1>2 DEF Promise!vars

LEMMA ReturnRefines ==
  ASSUME IInv, NEW f \in Callers, NEW c \in Callers, NEW v \in Values, Return(f, c, v) PROVE UNCHANGED Promise!vars
<1> USE NoneAssumption DEF IInv, TypeOK, Return
<1>1. Shareable' = Shareable
  BY DEF Shareable, Unfinished, EntriesAreUnfinishedFlights
<1>2. Landed' = Landed
  BY DEF Landed
<1> QED
  BY <1>1, <1>2 DEF Promise!vars

LEMMA PublishRefines ==
  ASSUME IInv, NEW f \in Callers, Publish(f) PROVE UNCHANGED Promise!vars
<1> USE NoneAssumption DEF IInv, TypeOK, Publish
<1>1. Shareable' = Shareable
  BY DEF Shareable, Unfinished, EntriesAreUnfinishedFlights
<1>2. Landed' = Landed
  BY DEF Landed
<1> QED
  BY <1>1, <1>2 DEF Promise!vars

LEMMA EvictOnDropRefines ==
  ASSUME IInv, NEW f \in Callers, EvictOnDrop(f) PROVE UNCHANGED Promise!vars
<1> USE NoneAssumption DEF IInv, TypeOK, EvictOnDrop, RemoveEntry
<1>1. Shareable' = Shareable
  BY DEF Shareable, Unfinished, EntriesAreUnfinishedFlights
<1>2. Landed' = Landed
  BY DEF Landed
<1> QED
  BY <1>1, <1>2 DEF Promise!vars

LEMMA EvictOnReturnRefines ==
  ASSUME IInv, NEW f \in Callers, EvictOnReturn(f)
  PROVE  \E v \in Values : Promise!Land(f, v)
<1> USE NoneAssumption DEF IInv, TypeOK, EvictOnReturn, RemoveEntry
<1>1. inflight[key[f]] = f /\ key[f] \in Keys
  BY DEF EntriesAreUnfinishedFlights, Unfinished
<1>2. Shareable[key[f]] = f
  BY <1>1 DEF Shareable, Unfinished
<1>3. Shareable' = [Shareable EXCEPT ![key[f]] = None]
  <2>1. \A k \in Keys : k # key[f] => inflight[k] # f
    BY DEF EntriesAreUnfinishedFlights
  <2>2. \A k \in Keys : Shareable'[k] = [Shareable EXCEPT ![key[f]] = None][k]
    BY <1>1, <2>1 DEF Shareable, Unfinished
  <2> QED
    BY <2>2 DEF Shareable
<1>4. value[f] \in Values
  BY DEF HandlesMatchControl
<1>5. Landed' = [Landed EXCEPT ![f] = value[f]]
  BY DEF Landed
<1> QED
  BY <1>2, <1>3, <1>4, <1>5 DEF Promise!Land

LEMMA ReceiveRefines ==
  ASSUME IInv, NEW c \in Callers, Receive(c) PROVE Promise!Alight(c)
<1> USE NoneAssumption DEF IInv, TypeOK
<1>1. Shareable' = Shareable /\ Landed' = Landed
  BY DEF Receive, ReceiveLeading, ReceiveFollowing, FallBack, Shareable, Landed
<1>2. Waiting(c) /\ at[c] \in Callers /\ stage[at[c]] = "complete"
  BY DEF Receive, ReceiveLeading, ReceiveFollowing, FallBack, Waiting,
         WaitersHoldLiveFlights
<1>3. Landed[at[c]] = value[at[c]] /\ value[at[c]] \in Values
  BY <1>2 DEF Landed, HandlesMatchControl
<1>4. Landed[at[c]] # None
  BY <1>3
<1> QED
  BY <1>1, <1>2, <1>3, <1>4
     DEF Promise!Alight, Receive, ReceiveLeading, ReceiveFollowing, FallBack

LEMMA ReturnAloneRefines ==
  ASSUME IInv, NEW c \in Callers, NEW v \in Values, ReturnAlone(c, v)
  PROVE  Promise!ArriveAlone(c)
<1>1. Shareable' = Shareable /\ Landed' = Landed
  BY DEF ReturnAlone, Shareable, Landed
<1> QED
  BY <1>1 DEF ReturnAlone, Promise!ArriveAlone

LEMMA HangUpRefines ==
  ASSUME IInv, NEW c \in Callers, HangUp(c) PROVE Promise!GiveUp(c)
<1> USE NoneAssumption DEF IInv, TypeOK, HangUp
<1>1. Landed' = Landed
  BY DEF Landed
<1>2. \A f \in Callers : Promise!Passengers(f) = Holders(f)
  BY DEF Promise!Passengers, Holders
<1>3. ASSUME NEW k \in Keys
      PROVE  Shareable'[k] =
               IF Shareable[k] # None /\ Promise!Passengers(Shareable[k]) = {c}
               THEN None ELSE Shareable[k]
  <2> DEFINE f == inflight[k]
  <2>1. CASE f = None
    BY <2>1 DEF Shareable
  <2>2. CASE f # None /\ stage[f] \notin Unfinished
    BY <2>2 DEF Shareable, Unfinished
  <2>3. CASE f # None /\ stage[f] \in Unfinished
    <3>1. f \in Callers /\ Shareable[k] = f
      BY <2>3 DEF Shareable
    <3>2. CASE Holders(f) = {c}
      <4>1. stage[f] # "answered"
        BY <3>1, <3>2 DEF HandlesMatchControl, Polling
      <4>2. stage'[f] = "dropping"
        BY <2>3, <3>1, <3>2, <4>1 DEF Unfinished
      <4>3. Shareable'[k] = None
        BY <4>2 DEF Shareable, Unfinished
      <4> QED
        BY <1>2, <3>1, <3>2, <4>3
    <3>3. CASE Holders(f) # {c}
      <4>1. stage'[f] = stage[f]
        BY <3>1, <3>3
      <4>2. Shareable'[k] = f
        BY <2>3, <4>1 DEF Shareable
      <4> QED
        BY <1>2, <3>1, <3>3, <4>2
    <3> QED
      BY <3>2, <3>3
  <2> QED
    BY <2>1, <2>2, <2>3
<1>4. Shareable' = [k \in Keys |->
                      IF Shareable[k] # None
                         /\ Promise!Passengers(Shareable[k]) = {c}
                      THEN None ELSE Shareable[k]]
  BY <1>3 DEF Shareable
<1> QED
  BY <1>1, <1>4 DEF Promise!GiveUp, Waiting

LEMMA NextRefines == IInv /\ [Next]_vars => [Promise!Next]_(Promise!vars)
<1> SUFFICES ASSUME IInv, [Next]_vars PROVE [Promise!Next]_(Promise!vars)
  OBVIOUS
<1>1. CASE \E c \in Callers : Join(c)
  BY <1>1, FollowRefines, LeadRefines DEF Join, Promise!Next
<1>2. CASE \E f \in Callers : Drive(f)
  <2> PICK f \in Callers : Drive(f)
    BY <1>2
  <2>1. CASE EvictOnReturn(f)
    BY <2>1, EvictOnReturnRefines DEF Promise!Next
  <2>2. CASE FirstPoll(f) \/ Publish(f) \/ \E c \in Callers, v \in Values : Return(f, c, v)
    BY <2>2, FirstPollRefines, PublishRefines, ReturnRefines
  <2> QED
    BY <2>1, <2>2 DEF Drive
<1>3. CASE \E c \in Callers : Receive(c)
  BY <1>3, ReceiveRefines DEF Promise!Next
<1>4. CASE \E c \in Callers, v \in Values : ReturnAlone(c, v)
  BY <1>4, ReturnAloneRefines DEF Promise!Next
<1>5. CASE \E c \in Callers : HangUp(c)
  BY <1>5, HangUpRefines DEF Promise!Next
<1>6. CASE \E f \in Callers : EvictOnDrop(f)
  BY <1>6, EvictOnDropRefines
<1>7. CASE UNCHANGED vars
  BY <1>7 DEF vars, Promise!vars, Shareable, Landed
<1> QED
  BY <1>1, <1>2, <1>3, <1>4, <1>5, <1>6, <1>7 DEF Next

\* The weak map, the Shared future and the Evict guard implement Coalescing:
\* who shares with whom, what they are answered and what is counted are as if
\* a flight opened and closed in one step.
THEOREM Refinement == Spec => ImplementsPromise
<1> QED
  BY InitRefines, NextRefines, Invariance, PTL
     DEF Spec, ImplementsPromise, Promise!Spec
=============================================================================
