--------------------------- MODULE ExchangeProofs ---------------------------
(***************************************************************************)
(* Three properties of Exchange for any bodies, callers and settings: what *)
(* a parser may take for a write is sent once, only whole answers are      *)
(* passed on, and everyone is answered what they asked for.                *)
(*                                                                         *)
(* All depend on what Bodies reads, but only on a few facts about it       *)
(* (WritesAreLabelled, KeysAreReads, KeysTellApart). The rest is keeping   *)
(* track: of the calls a chain has left (ChainsKeepCount), of what a call  *)
(* has read and for whom (CallsAreSound), and that those who share a       *)
(* flight have its leader's key (PassengersAgree, EntriesAgree). That all  *)
(* keeps its type and bounds is proved of the same invariant (TInv).       *)
(***************************************************************************)
EXTENDS Exchange, FiniteSetTheorems, TLAPS

ChainStates == [begun : BOOLEAN, left : Nat, sent : Nat]

Types ==
  /\ request \in [Callers -> Requests]
  /\ DOMAIN pc = Callers /\ DOMAIN answer = Callers /\ DOMAIN reply = Callers
  /\ DOMAIN call = Callers
  /\ at \in [Callers -> Callers \cup {None}]
  /\ shared \in [KeysAsked -> Callers \cup {None}]
  /\ chain \in [Callers -> ChainStates]

\* Only a caller with a dedup key has ever been given a flight.
FlightsHaveKeys == \A c \in Callers : at[c] # None => Key(c) # None

\* Whoever waits on a flight has the key of its leader, and an id of their own.
PassengersAgree ==
  \A c \in Callers : pc[c] \in {"leading", "following"} =>
    /\ at[c] \in Callers /\ Key(at[c]) = Key(c)
    /\ Key(c) # None /\ RequestId(Body(c)) # None
    /\ pc[c] = "leading" => at[c] = c

\* The map holds a flight under its leader's key.
EntriesAgree == \A k \in KeysAsked : shared[k] # None => Key(shared[k]) = k

\* A chain that may send once has one call, before it and behind it together.
ChainsKeepCount ==
  \A f \in Callers :
    /\ ~chain[f].begun => chain[f].left = 0 /\ chain[f].sent = 0
    /\ SentOnce(f) => chain[f].left + chain[f].sent <= 1

\* A call of body b: a response being read has not passed the cap, and one that
\* is passed on was made for b and has been read to its end.
Sound(state, b) ==
  /\ state.at = "reading" => state.got \in Nat /\ state.got <= MaxResponse
  /\ state.at = "done" =>
       IF state.outcome \in {"ok", "rpc_error"}
       THEN /\ state.read.status = 200
            /\ state.read.got = state.read.length /\ state.read.length <= MaxResponse
            /\ state.body \in ResponsesTo(b)
       ELSE state.body = None

CallsAreSound == \A f \in Callers : Sound(call[f], Body(f))

\* A reply has status 200, and was made for the leader's body or by the proxy.
RepliesAreSound ==
  \A f \in Callers : reply[f] # None =>
    /\ reply[f].status = 200
    /\ reply[f].body \in ResponsesTo(Body(f)) \cup {RpcErrorBody}

\* An answer has a body only with status 200, and if an upstream made it, that
\* was for c or for someone with c's key.
WellServed(c, status, body) ==
  body # None =>
    /\ status = 200
    /\ body.question # None =>
         /\ \E f \in Callers : /\ body.question = Body(f)
                               /\ f = c \/ (Key(f) = Key(c) /\ Key(c) # None)
         /\ body.object => body.id \in IdsFor(Body(c))

AnswersAreSound ==
  \A c \in Callers : answer[c] # None => WellServed(c, answer[c].status, answer[c].body)

IInv ==
  /\ Types
  /\ FlightsHaveKeys
  /\ PassengersAgree
  /\ EntriesAgree
  /\ ChainsKeepCount
  /\ CallsAreSound
  /\ RepliesAreSound
  /\ AnswersAreSound

-----------------------------------------------------------------------------
(* What the proof needs of the readings of a body *)

\* A body with a key that any parser may take for a write is labelled a write.
LEMMA WritesAreLabelled ==
  ASSUME NEW b, b.method \in Seq(STRING), Writes(b)
  PROVE  IsWrite(MethodLabel(b))
<1>1. CASE Len(b.method) = 1 /\ b.method[1] \in Reads
  BY <1>1 DEF Writes
<1>2. CASE ~(Len(b.method) = 1 /\ b.method[1] \in Reads)
  BY <1>2, MethodsAssumption DEF MethodLabel, IsWrite, Labels, Other
<1>3. QED
  BY <1>1, <1>2

\* Only reads have a dedup key.
LEMMA KeysAreReads ==
  ASSUME NEW b, DedupKey(b) # None
  PROVE  LastOf(b.method) \in Reads
BY DEF DedupKey

\* Bodies with the same key, and no number too large for it, ask the same.
LEMMA KeysTellApart ==
  ASSUME NEW a, NEW b, a.params \in Seq(Seq(Nat)), b.params \in Seq(Seq(Nat)),
         DedupKey(a) = DedupKey(b), DedupKey(a) # None, Exact(a), Exact(b)
  PROVE  SameQuestion(a, b)
<1>1. /\ a.method # <<>> /\ b.method # <<>>
      /\ KeyOf(LastOf(a.method), Params(a)) = KeyOf(LastOf(b.method), Params(b))
  BY DEF DedupKey
<1>2. LastOf(a.method) = LastOf(b.method)
  BY <1>1 DEF KeyOf
<1>3. [i \in DOMAIN Params(a) |-> Held(Params(a)[i])] =
        [i \in DOMAIN Params(b) |-> Held(Params(b)[i])]
  BY <1>1 DEF KeyOf
<1>4. Params(a) \in Seq(Nat) /\ Params(b) \in Seq(Nat)
  BY DEF Params, LastOf
<1>5. /\ \A i \in DOMAIN Params(a) : Held(Params(a)[i]) = Params(a)[i]
      /\ \A i \in DOMAIN Params(b) : Held(Params(b)[i]) = Params(b)[i]
  BY DEF Exact, Held
<1>6. DOMAIN Params(a) = DOMAIN Params(b)
  BY <1>3
<1>7. \A i \in DOMAIN Params(a) : Params(a)[i] = Params(b)[i]
  BY <1>3, <1>5, <1>6
<1>8. Params(a) = Params(b)
  BY <1>4, <1>6, <1>7
<1>9. QED
  BY <1>1, <1>2, <1>8 DEF SameQuestion

\* What an upstream's response says of its question.
LEMMA ResponsesAreOwn ==
  ASSUME NEW b, NEW r \in ResponsesTo(b) \cup {RpcErrorBody}, r.question # None
  PROVE  r.question = b /\ (r.object => r.id \in IdsFor(b))
BY DEF ResponsesTo, RpcErrorBody

\* With another id it is the same response.
LEMMA ReaddressedKeepQuestion ==
  ASSUME NEW b, NEW r \in ResponsesTo(b) \cup {RpcErrorBody}, NEW i
  PROVE  Readdress(r, i).question = r.question /\ Readdress(r, i).id = i
<1>1. CASE r \in ResponsesTo(b)
  BY <1>1 DEF ResponsesTo, Readdress
<1>2. CASE r = RpcErrorBody
  BY <1>2 DEF RpcErrorBody, Readdress
<1>3. QED
  BY <1>1, <1>2

LEMMA OwnIdIsOwn ==
  ASSUME NEW b, b.id \in Seq(STRING), RequestId(b) # None
  PROVE  RequestId(b) \in IdsFor(b)
BY DEF RequestId, IdsFor

\* Someone who waits or has a flight in the map has a key that was asked for.
LEMMA KeysAreAsked ==
  ASSUME Types, NEW c \in Callers, Key(c) # None
  PROVE  Key(c) \in KeysAsked
BY DEF Types, Key, Body, KeysAsked

-----------------------------------------------------------------------------

LEMMA InitEstablishes == Init => IInv
<1> SUFFICES ASSUME Init PROVE IInv
  OBVIOUS
<1>1. Types
  BY DEF Init, Types, Unbegun, ChainStates, CallInit
<1>2. CallsAreSound
  BY DEF Init, CallInit, CallsAreSound, Sound, Idle
<1>3. ChainsKeepCount
  BY DEF Init, ChainsKeepCount, Unbegun
<1>4. QED
  BY <1>1, <1>2, <1>3 DEF Init, IInv, FlightsHaveKeys, PassengersAgree, EntriesAgree,
                          RepliesAreSound, AnswersAreSound

\* Each part of the invariant depends on few variables.
LEMMA Frame ==
  ASSUME IInv, UNCHANGED <<build, request>>
  PROVE  /\ UNCHANGED at => FlightsHaveKeys'
         /\ UNCHANGED <<pc, at>> => PassengersAgree'
         /\ UNCHANGED shared => EntriesAgree'
         /\ UNCHANGED chain => ChainsKeepCount'
         /\ UNCHANGED call => CallsAreSound'
         /\ UNCHANGED reply => RepliesAreSound'
         /\ UNCHANGED answer => AnswersAreSound'
<1>1. \A c \in Callers : Body(c)' = Body(c) /\ Key(c)' = Key(c) /\ SentOnce(c)' = SentOnce(c)
  BY DEF Body, Key, SentOnce
<1>2. UNCHANGED at => FlightsHaveKeys'
  BY <1>1 DEF IInv, FlightsHaveKeys
<1>3. UNCHANGED <<pc, at>> => PassengersAgree'
  BY <1>1 DEF IInv, PassengersAgree, Key, Body
<1>4. UNCHANGED shared => EntriesAgree'
  BY DEF IInv, EntriesAgree, Key, Body
<1>5. UNCHANGED chain => ChainsKeepCount'
  BY <1>1 DEF IInv, ChainsKeepCount
<1>6. UNCHANGED call => CallsAreSound'
  BY <1>1 DEF IInv, CallsAreSound
<1>7. UNCHANGED reply => RepliesAreSound'
  BY <1>1 DEF IInv, RepliesAreSound
<1>8. UNCHANGED answer => AnswersAreSound'
  BY DEF IInv, AnswersAreSound, WellServed, Key, Body
<1>9. QED
  BY <1>2, <1>3, <1>4, <1>5, <1>6, <1>7, <1>8

\* One caller is answered.
LEMMA ServedPreserves ==
  ASSUME IInv, UNCHANGED request, NEW c \in Callers, NEW status, NEW body,
         Served(c, status, body), WellServed(c, status, body)
  PROVE  AnswersAreSound'
<1>1. \A d \in Callers : answer'[d] = IF d = c THEN [status |-> status, body |-> body]
                                      ELSE answer[d]
  BY DEF Served, IInv, Types
<1>2. QED
  BY <1>1 DEF IInv, AnswersAreSound, WellServed, Key, Body

LEMMA RoutingPreserves ==
  ASSUME IInv, NEW c \in Callers, RouteElsewhere(c) \/ Reject(c) \/ GoAlone(c)
  PROVE  IInv'
<1>1. UNCHANGED <<build, request, at, shared, chain, call, reply>>
  BY DEF RouteElsewhere, Reject, GoAlone
<1>2. \E p \in {"served", "alone"} : pc' = [pc EXCEPT ![c] = p]
  BY DEF RouteElsewhere, Reject, GoAlone
<1>3. UNCHANGED answer \/ \E status : Served(c, status, None)
  BY DEF RouteElsewhere, Reject, GoAlone
<1>4. Types'
  BY <1>1, <1>2, <1>3 DEF IInv, Types, Served, Body
<1>5. PassengersAgree'
  BY <1>1, <1>2 DEF IInv, Types, PassengersAgree, Key, Body
<1>6. AnswersAreSound'
  BY <1>1, <1>3, Frame, ServedPreserves DEF WellServed
<1>7. QED
  BY <1>1, <1>4, <1>5, <1>6, Frame DEF IInv

LEMMA CoalescePreserves ==
  ASSUME IInv, NEW c \in Callers, Coalesce(c)
  PROVE  IInv'
<1>1. Key(c) # None /\ Key(c) \in KeysAsked /\ RequestId(Body(c)) # None
  BY KeysAreAsked DEF IInv, Coalesce, Shares
<1>2. UNCHANGED <<build, request, chain, call, reply, answer>>
  BY DEF Coalesce
<1>3. PICK p \in {"leading", "following"}, f \in Callers :
        /\ pc' = [pc EXCEPT ![c] = p] /\ at' = [at EXCEPT ![c] = f]
        /\ Key(f) = Key(c)
        /\ p = "leading" => f = c
  <2>1. CASE shared[Key(c)] # None
    BY <1>1, <2>1 DEF Coalesce, Shared!Ask, IInv, Types, EntriesAgree
  <2>2. CASE shared[Key(c)] = None
    BY <1>1, <2>2 DEF Coalesce, Shared!Ask, IInv, Types
  <2>3. QED
    BY <2>1, <2>2
<1>4. \/ UNCHANGED shared
      \/ shared' = [shared EXCEPT ![Key(c)] = c]
  BY <1>1 DEF Coalesce, Shared!Ask
<1>5. shared' \in [KeysAsked -> Callers \cup {None}] /\ EntriesAgree'
  BY <1>1, <1>2, <1>4 DEF IInv, Types, EntriesAgree, Key, Body
<1>6. Types'
  BY <1>2, <1>3, <1>5 DEF IInv, Types
<1>7. FlightsHaveKeys'
  BY <1>1, <1>2, <1>3 DEF IInv, Types, FlightsHaveKeys, Key, Body
<1>8. PassengersAgree'
  BY <1>1, <1>2, <1>3 DEF IInv, Types, PassengersAgree, Key, Body
<1>9. QED
  BY <1>2, <1>5, <1>6, <1>7, <1>8, Frame DEF IInv

\* A chain of a write is given at most one call, and making it takes it away.
LEMMA ChainPreserves ==
  ASSUME IInv, NEW f \in Callers,
         (\E n \in 0 .. MaxAttempt : Decide(f, n)) \/ TryNext(f)
  PROVE  IInv'
<1>1. UNCHANGED <<build, request, pc, at, shared, reply, answer>>
  BY DEF Decide, TryNext
<1>2. chain' \in [Callers -> ChainStates] /\ ChainsKeepCount'
  <2>1. CASE \E n \in 0 .. MaxAttempt : Decide(f, n)
    <3>1. PICK n \in 0 .. MaxAttempt : Decide(f, n)
      BY <2>1
    <3>2. n \in Nat
      BY LimitsAssumption
    <3>3. QED
      BY <1>1, <3>1, <3>2 DEF Decide, IInv, Types, ChainStates, ChainsKeepCount, SentOnce, Body
  <2>2. CASE TryNext(f)
    <3>1. chain[f].begun
      BY <2>2 DEF TryNext, IInv, Types, ChainStates, ChainsKeepCount
    <3>2. QED
      BY <1>1, <2>2, <3>1 DEF TryNext, IInv, Types, ChainStates, ChainsKeepCount, SentOnce, Body
  <2>3. QED
    BY <2>1, <2>2
<1>3. UNCHANGED call \/ call' = [call EXCEPT ![f] = Sent]
  BY DEF Decide, TryNext, Send, Becomes
<1>4. DOMAIN call' = Callers /\ CallsAreSound'
  BY <1>1, <1>3 DEF IInv, Types, CallsAreSound, Sound, Sent, Body
<1>5. Types'
  BY <1>1, <1>2, <1>4 DEF IInv, Types
<1>6. QED
  BY <1>1, <1>2, <1>4, <1>5, Frame DEF IInv

\* Chunks are counted against the cap, and only a complete response has a meaning.
LEMMA CallPreserves ==
  ASSUME IInv, NEW f \in Callers, CallGoesOn(f)
  PROVE  IInv'
<1>1. UNCHANGED <<build, request, pc, at, shared, chain, reply, answer>>
  BY DEF CallGoesOn
<1>2. PICK v : call' = [call EXCEPT ![f] = v]
  BY DEF CallGoesOn, SendFails, Chunk, ReadFails, Headers, BodyEnds, Becomes
<1>3. Sound(call'[f], Body(f))
  <2> USE LimitsAssumption DEF IInv, Types, CallsAreSound, Sound, Becomes
  <2>1. CASE SendFails(f) \/ ReadFails(f)
    BY <2>1 DEF SendFails, ReadFails, Unreachable, ReadFailed, Done
  <2>2. CASE Chunk(f)
    BY <2>2 DEF Chunk, ReadFailed, Done
  <2>3. ASSUME NEW status, NEW length, NEW declared, Headers(f, status, length, declared)
        PROVE  Sound(call'[f], Body(f))
    BY <2>3 DEF Headers, ReadFailed, Reading, Done
  <2>4. ASSUME NEW b \in ResponsesTo(Body(f)), BodyEnds(f, b)
        PROVE  Sound(call'[f], Body(f))
    BY <2>4 DEF BodyEnds, Meaning, Done
  <2>5. \/ SendFails(f) \/ ReadFails(f) \/ Chunk(f)
        \/ \E status, length, declared : Headers(f, status, length, declared)
        \/ \E b \in ResponsesTo(Body(f)) : BodyEnds(f, b)
    BY DEF CallGoesOn
  <2>6. QED
    BY <2>1, <2>2, <2>3, <2>4, <2>5
<1>4. DOMAIN call' = Callers /\ CallsAreSound'
  BY <1>1, <1>2, <1>3 DEF IInv, Types, CallsAreSound, Body
<1>5. Types'
  BY <1>1, <1>4 DEF IInv, Types
<1>6. QED
  BY <1>1, <1>4, <1>5, Frame DEF IInv

\* What finish makes of a chain.
LEMMA FinishedIsSound ==
  ASSUME IInv, NEW f \in Callers
  PROVE  /\ Finished(f).status = 200
         /\ Finished(f).body \in ResponsesTo(Body(f)) \cup {RpcErrorBody}
BY DEF IInv, CallsAreSound, Sound, Finished

\* The end of a chain takes nothing from the invariant.
LEMMA EndsPreserves ==
  ASSUME IInv, UNCHANGED <<build, request>>, NEW f \in Callers, Ends(f)
  PROVE  /\ chain' \in [Callers -> ChainStates] /\ ChainsKeepCount'
         /\ DOMAIN call' = Callers /\ CallsAreSound'
<1>1. chain' \in [Callers -> ChainStates] /\ ChainsKeepCount'
  BY DEF IInv, Types, Ends, Unbegun, ChainStates, ChainsKeepCount, SentOnce, Body
<1>2. DOMAIN call' = Callers /\ CallsAreSound'
  BY DEF IInv, Types, Ends, Forget, Becomes, Idle, CallsAreSound, Sound, Body
<1>3. QED
  BY <1>1, <1>2

LEMMA LandPreserves ==
  ASSUME IInv, NEW f \in Callers, Land(f)
  PROVE  IInv'
<1>1. UNCHANGED <<build, request, answer, pc, at>>
  BY DEF Land, Shared!Land
<1>2. reply' = [reply EXCEPT ![f] = Finished(f)]
  BY DEF Land
<1>3. shared' = [shared EXCEPT ![Key(f)] = None]
  BY DEF Land, Shared!Land
<1>4. /\ chain' \in [Callers -> ChainStates] /\ ChainsKeepCount'
      /\ DOMAIN call' = Callers /\ CallsAreSound'
  BY <1>1, EndsPreserves DEF Land
<1>5. RepliesAreSound'
  BY <1>1, <1>2, FinishedIsSound DEF IInv, Types, RepliesAreSound, Body
<1>6. EntriesAgree'
  BY <1>1, <1>3 DEF IInv, Types, EntriesAgree, Key, Body
<1>7. Types'
  BY <1>1, <1>2, <1>3, <1>4 DEF IInv, Types
<1>8. QED
  BY <1>1, <1>4, <1>5, <1>6, <1>7, Frame DEF IInv

\* The leader is served the reply to the leader's own body; a follower one to a
\* body of the same key, with the follower's id.
LEMMA AlightPreserves ==
  ASSUME IInv, NEW c \in Callers, Alight(c)
  PROVE  IInv'
<1> DEFINE r == reply[at[c]]
<1>1. UNCHANGED <<build, request, chain, call, reply, shared>>
  BY DEF Alight, Shared!Alight
<1>2. at' = [at EXCEPT ![c] = None]
      /\ \E p \in {"served", "alone"} : pc' = [pc EXCEPT ![c] = p]
  BY DEF Alight, Shared!Alight
<1>3. /\ at[c] \in Callers /\ Key(at[c]) = Key(c) /\ Key(c) # None
      /\ RequestId(Body(c)) # None
      /\ pc[c] = "leading" => at[c] = c
  BY DEF Alight, IInv, PassengersAgree
<1>4. r.status = 200 /\ r.body \in ResponsesTo(Body(at[c])) \cup {RpcErrorBody}
  BY <1>3 DEF Alight, IInv, RepliesAreSound
<1>5. r.body.question # None =>
        /\ r.body.question = Body(at[c])
        /\ r.body.object => r.body.id \in IdsFor(Body(at[c]))
  BY <1>4, ResponsesAreOwn
<1>6. AnswersAreSound'
  <2>1. CASE pc[c] = "leading"
    <3>1. Served(c, r.status, r.body)
      BY <2>1 DEF Alight
    <3>2. WellServed(c, r.status, r.body)
      BY <1>3, <1>4, <1>5, <2>1 DEF WellServed
    <3>3. QED
      BY <1>1, <3>1, <3>2, ServedPreserves
  <2>2. CASE pc[c] # "leading" /\ CanReaddress(r.body)
    <3> DEFINE b == Readdress(r.body, RequestId(Body(c)))
    <3>1. Served(c, r.status, b)
      BY <2>2 DEF Alight
    <3>2. b.question = r.body.question /\ b.id = RequestId(Body(c))
      BY <1>4, ReaddressedKeepQuestion
    <3>3. RequestId(Body(c)) \in IdsFor(Body(c))
      BY <1>3, OwnIdIsOwn, RequestsAssumption DEF IInv, Types, Body
    <3>4. WellServed(c, r.status, b)
      BY <1>3, <1>4, <1>5, <3>2, <3>3 DEF WellServed
    <3>5. QED
      BY <1>1, <3>1, <3>4, ServedPreserves
  <2>3. CASE pc[c] # "leading" /\ ~CanReaddress(r.body)
    BY <1>1, <2>3, Frame DEF Alight
  <2>4. QED
    BY <2>1, <2>2, <2>3
<1>7. DOMAIN answer' = Callers
  BY DEF Alight, Served, IInv, Types
<1>8. Types' /\ FlightsHaveKeys'
  BY <1>1, <1>2, <1>7 DEF IInv, Types, FlightsHaveKeys, Key, Body
<1>9. PassengersAgree'
  BY <1>1, <1>2 DEF IInv, Types, PassengersAgree, Key, Body
<1>10. QED
  BY <1>1, <1>6, <1>8, <1>9, Frame DEF IInv

LEMMA ArrivePreserves ==
  ASSUME IInv, NEW c \in Callers, Arrive(c)
  PROVE  IInv'
<1>1. UNCHANGED <<build, request, reply, at, shared>>
  BY DEF Arrive, Shared!ArriveAlone
<1>2. pc' = [pc EXCEPT ![c] = "served"]
  BY DEF Arrive, Shared!ArriveAlone
<1>3. Served(c, Finished(c).status, Finished(c).body)
  BY DEF Arrive
<1>4. /\ chain' \in [Callers -> ChainStates] /\ ChainsKeepCount'
      /\ DOMAIN call' = Callers /\ CallsAreSound'
  BY <1>1, EndsPreserves DEF Arrive
<1>5. WellServed(c, Finished(c).status, Finished(c).body)
  <2> DEFINE b == Finished(c).body
  <2>1. b.question # None => b.question = Body(c) /\ (b.object => b.id \in IdsFor(Body(c)))
    BY FinishedIsSound, ResponsesAreOwn
  <2>2. QED
    BY <2>1, FinishedIsSound DEF WellServed
<1>6. AnswersAreSound'
  BY <1>1, <1>3, <1>5, ServedPreserves
<1>7. Types'
  BY <1>1, <1>2, <1>3, <1>4 DEF IInv, Types, Served
<1>8. PassengersAgree'
  BY <1>1, <1>2 DEF IInv, Types, PassengersAgree, Key, Body
<1>9. QED
  BY <1>1, <1>4, <1>6, <1>7, <1>8, Frame DEF IInv

LEMMA GiveUpPreserves ==
  ASSUME IInv, NEW c \in Callers, GiveUp(c)
  PROVE  IInv'
<1>1. UNCHANGED <<build, request, reply, answer>>
  BY DEF GiveUp
<1>2. pc' = [pc EXCEPT ![c] = "gone"] /\ at' = [at EXCEPT ![c] = None]
  BY DEF GiveUp, Shared!GiveUp
<1>3. /\ shared' \in [KeysAsked -> Callers \cup {None}]
      /\ \A k \in KeysAsked : shared'[k] \in {shared[k], None}
  BY DEF GiveUp, Shared!GiveUp, IInv, Types
<1>4. /\ DOMAIN chain' = Callers /\ DOMAIN call' = Callers
      /\ chain' = [f \in Callers |-> chain'[f]]
      /\ \A f \in Callers : chain'[f] \in {chain[f], Unbegun} /\ call'[f] \in {call[f], Idle}
  BY DEF GiveUp
<1>5. chain' \in [Callers -> ChainStates]
  <2>1. chain \in [Callers -> ChainStates] /\ Unbegun \in ChainStates
    BY DEF IInv, Types, Unbegun, ChainStates
  <2>2. \A f \in Callers : chain'[f] \in ChainStates
    BY <1>4, <2>1
  <2>3. QED
    BY <1>4, <2>2
<1>6. ChainsKeepCount'
  <2>1. \A f \in Callers : SentOnce(f)' = SentOnce(f)
    BY <1>1 DEF SentOnce, Body
  <2>2. QED
    BY <1>4, <2>1 DEF IInv, Unbegun, ChainsKeepCount
<1>7. CallsAreSound'
  BY <1>1, <1>4 DEF IInv, CallsAreSound, Sound, Idle, Body
<1>8. Types' /\ FlightsHaveKeys'
  BY <1>1, <1>2, <1>3, <1>4, <1>5 DEF IInv, Types, FlightsHaveKeys, Key, Body
<1>9. PassengersAgree' /\ EntriesAgree'
  BY <1>1, <1>2, <1>3 DEF IInv, Types, PassengersAgree, EntriesAgree, Key, Body
<1>10. QED
  BY <1>1, <1>6, <1>7, <1>8, <1>9, Frame DEF IInv

-----------------------------------------------------------------------------

\* The inductive invariant holds in every reachable state.
THEOREM Invariance == Spec => []IInv
<1>1. IInv /\ [Next]_vars => IInv'
  <2> SUFFICES ASSUME IInv, [Next]_vars PROVE IInv'
    OBVIOUS
  <2>1. CASE UNCHANGED vars
    <3>1. Types'
      BY <2>1 DEF vars, IInv, Types
    <3>2. QED
      BY <2>1, <3>1, Frame DEF vars, IInv
  <2>2. CASE Next
    BY <2>2, RoutingPreserves, CoalescePreserves, ChainPreserves, CallPreserves, LandPreserves,
       AlightPreserves, ArrivePreserves, GiveUpPreserves DEF Next
  <2>3. QED
    BY <2>1, <2>2
<1>2. QED
  BY InitEstablishes, <1>1, PTL DEF Spec

\* Whatever the body, method_label and dedup_key of jsonrpc/mod.rs read it so
\* that `run` and `coalesce` of proxy/mod.rs never send a write twice under
\* hedged dispatch, and never share one.
THEOREM WritesGoOnce == Spec => []WritesAreSentOnce
<1>1. IInv => WritesAreSentOnce
  <2> SUFFICES ASSUME IInv, NEW c \in Callers, Writes(Body(c))
               PROVE  /\ build.hedged => chain[c].sent <= 1
                      /\ LastOf(Body(c).method) \notin Reads => at[c] = None
    BY DEF WritesAreSentOnce
  <2>1. Body(c).method \in Seq(STRING)
    BY RequestsAssumption DEF IInv, Types, Body
  <2>2. build.hedged => SentOnce(c)
    BY <2>1, WritesAreLabelled DEF SentOnce
  <2>3. build.hedged => chain[c].sent <= 1
    BY <2>2 DEF IInv, Types, ChainStates, ChainsKeepCount
  <2>4. LastOf(Body(c).method) \notin Reads => at[c] = None
    BY KeysAreReads DEF IInv, FlightsHaveKeys, Key
  <2>5. QED
    BY <2>3, <2>4
<1>2. QED
  BY Invariance, <1>1, PTL

\* Upstream::call of upstream/mod.rs and finish of proxy/mod.rs: a call ends with
\* a body to pass on only when the response came with status 200 and the whole of
\* its length, at most max_response_bytes, was read; it is served with status 200.
THEOREM OnlyWholeAnswers == Spec => []OnlyWholeAnswersAreServed
<1>1. IInv => OnlyWholeAnswersAreServed
  BY DEF IInv, CallsAreSound, Sound, AnswersAreSound, WellServed, OnlyWholeAnswersAreServed,
         Upstreams
<1>2. QED
  BY Invariance, <1>1, PTL

\* coalesce and readdress of proxy/mod.rs: whoever's flight it came from, what a
\* caller is served answers the caller's own question under an id of its own.
THEOREM EveryoneGetsOwnAnswer == Spec => []AnswersOwnQuestion
<1>1. IInv => AnswersOwnQuestion
  <2> SUFFICES ASSUME IInv, NEW c \in Callers, Upstreams(c)
               PROVE  /\ Exact(answer[c].body.question) /\ Exact(Body(c))
                           => SameQuestion(answer[c].body.question, Body(c))
                      /\ answer[c].body.object => answer[c].body.id \in IdsFor(Body(c))
    BY DEF AnswersOwnQuestion
  <2>1. WellServed(c, answer[c].status, answer[c].body)
    BY DEF IInv, AnswersAreSound, Upstreams
  <2>2. PICK f \in Callers : /\ answer[c].body.question = Body(f)
                             /\ f = c \/ (Key(f) = Key(c) /\ Key(c) # None)
    BY <2>1 DEF WellServed, Upstreams
  <2>3. Body(c).params \in Seq(Seq(Nat)) /\ Body(f).params \in Seq(Seq(Nat))
    BY RequestsAssumption DEF IInv, Types, Body
  <2>4. Exact(Body(f)) /\ Exact(Body(c)) => SameQuestion(Body(f), Body(c))
    <3>1. CASE f = c
      BY <3>1 DEF SameQuestion
    <3>2. CASE Key(f) = Key(c) /\ Key(c) # None
      BY <2>3, <3>2, KeysTellApart DEF Key
    <3>3. QED
      BY <2>2, <3>1, <3>2
  <2>5. QED
    BY <2>1, <2>2, <2>4 DEF WellServed, Upstreams
<1>2. QED
  BY Invariance, <1>1, PTL

-----------------------------------------------------------------------------
(* Types and bounds *)

\* Those who have an answer: who shared a flight is among them.
ServedCallers == {c \in Callers : pc[c] = "served"}

\* What TypeOK says besides: of the callers,
InBounds ==
  /\ build \in Builds
  /\ pc \in [Callers -> {"new", "leading", "following", "alone", "served", "gone"}]
  /\ coalesced \in Nat /\ coalesced <= Cardinality(ServedCallers)

\* of chains, that none has more calls than attempts, nor a call when nobody
\* waits for it,
CallsAreWanted ==
  \A f \in Callers :
    /\ chain[f].sent + chain[f].left <= MaxAttempt
    /\ call[f].at # "idle" => Active(f) /\ chain[f].sent > 0

\* and of replies and answers, that they can be served, and served is who has one.
AnswersAreServed ==
  /\ \A f \in Callers : reply[f] \in Replies \cup {None} /\ answer[f] \in Replies \cup {None}
  /\ \A c \in Callers : pc[c] = "served" <=> answer[c] # None

\* Together they are inductive once IInv is known.
TInv == InBounds /\ CallsAreWanted /\ AnswersAreServed

\* What a chain returns can be served, as it is or under the id of a caller.
LEMMA BodiesAreServable ==
  ASSUME IInv, NEW f \in Callers, NEW b \in ResponsesTo(Body(f)) \cup {RpcErrorBody}
  PROVE  /\ b \in ReplyBodies
         /\ \A c \in Callers : RequestId(Body(c)) # None
              => Readdress(b, RequestId(Body(c))) \in ReplyBodies
<1>1. PICK r \in Requests : r.body = Body(f)
  BY DEF IInv, Types, Body
<1>2. \A i \in UNION {IdsFor(q.body) : q \in Requests} : Readdress(b, i) \in ReplyBodies
  BY <1>1 DEF ReplyBodies
<1>3. b \in ReplyBodies
  <2>1. CASE b \in ResponsesTo(Body(f))
    BY <1>1, <2>1 DEF ReplyBodies
  <2>2. CASE b = RpcErrorBody
    <3>1. Null \in UNION {IdsFor(q.body) : q \in Requests}
      BY <1>1 DEF IdsFor
    <3>2. Readdress(RpcErrorBody, Null) = RpcErrorBody
      <4>1. /\ RpcErrorBody = [x \in DOMAIN RpcErrorBody |-> RpcErrorBody[x]]
            /\ RpcErrorBody.id = Null
        BY DEF RpcErrorBody
      <4>2. QED
        BY <4>1 DEF Readdress
    <3>3. QED
      BY <1>2, <2>2, <3>1, <3>2
  <2>3. QED
    BY <2>1, <2>2
<1>4. ASSUME NEW c \in Callers, RequestId(Body(c)) # None
      PROVE  Readdress(b, RequestId(Body(c))) \in ReplyBodies
  <2>1. PICK q \in Requests : q.body = Body(c)
    BY DEF IInv, Types, Body
  <2>2. Body(c).id \in Seq(STRING)
    BY <2>1, RequestsAssumption
  <2>3. RequestId(Body(c)) \in IdsFor(q.body)
    BY <1>4, <2>1, <2>2, OwnIdIsOwn
  <2>4. QED
    BY <1>2, <2>3
<1>5. QED
  BY <1>3, <1>4

\* One caller more is served, or nobody is.
LEMMA ServedCount ==
  ASSUME Types, NEW c \in Callers, pc[c] # "served", NEW p, pc' = [pc EXCEPT ![c] = p]
  PROVE  /\ Cardinality(ServedCallers) \in Nat
         /\ Cardinality(ServedCallers') = Cardinality(ServedCallers) + (IF p = "served" THEN 1 ELSE 0)
<1>1. IsFiniteSet(ServedCallers) /\ Cardinality(ServedCallers) \in Nat
  BY CallersAssumption, FS_Subset, FS_CardinalityType DEF ServedCallers
<1>2. c \notin ServedCallers
  BY DEF ServedCallers
<1>3. ServedCallers' = IF p = "served" THEN ServedCallers \cup {c} ELSE ServedCallers
  BY DEF ServedCallers, Types
<1>4. Cardinality(ServedCallers \cup {c}) = Cardinality(ServedCallers) + 1
  BY <1>1, <1>2, FS_AddElement
<1>5. QED
  BY <1>1, <1>3, <1>4

\* The progress of one caller, and what it is served.
LEMMA ProgressPreserves ==
  ASSUME IInv, InBounds, AnswersAreServed, NEW c \in Callers, pc[c] # "served", UNCHANGED build,
         NEW p \in {"leading", "following", "alone", "served", "gone"},
         pc' = [pc EXCEPT ![c] = p],
         p # "served" => UNCHANGED answer,
         p = "served" => \E r \in Replies : answer' = [answer EXCEPT ![c] = r],
         UNCHANGED reply \/ \E f \in Callers, r \in Replies : reply' = [reply EXCEPT ![f] = r],
         coalesced' = coalesced \/ (p = "served" /\ coalesced' = coalesced + 1)
  PROVE  InBounds' /\ AnswersAreServed'
<1>1. Types
  BY DEF IInv
<1>2. /\ Cardinality(ServedCallers) \in Nat
      /\ Cardinality(ServedCallers') = Cardinality(ServedCallers) + (IF p = "served" THEN 1 ELSE 0)
  BY <1>1, ServedCount
<1>3. coalesced' \in Nat /\ coalesced' <= Cardinality(ServedCallers')
  BY <1>2 DEF InBounds
<1>4. InBounds'
  BY <1>3 DEF InBounds
<1>5. \A f \in Callers : reply'[f] \in Replies \cup {None}
  BY <1>1 DEF Types, AnswersAreServed
<1>6. \A d \in Callers : pc'[d] = IF d = c THEN p ELSE pc[d]
  BY <1>1 DEF Types
<1>7. CASE p = "served"
  <2>1. PICK r \in Replies : answer' = [answer EXCEPT ![c] = r]
    BY <1>7
  <2>2. \A d \in Callers : answer'[d] = IF d = c THEN r ELSE answer[d]
    BY <1>1, <2>1 DEF Types
  <2>3. r # None
    BY NoneAssumption
  <2>4. QED
    BY <1>4, <1>5, <1>6, <1>7, <2>2, <2>3 DEF AnswersAreServed
<1>8. CASE p # "served"
  BY <1>4, <1>5, <1>6, <1>8 DEF AnswersAreServed
<1>9. QED
  BY <1>7, <1>8

\* A chain goes on being waited for while the map and its caller let it.
LEMMA WantedFrame ==
  ASSUME IInv, CallsAreWanted, UNCHANGED request, UNCHANGED <<chain, call>>,
         \A f \in Callers : Active(f) => Active(f)'
  PROVE  CallsAreWanted'
BY DEF CallsAreWanted

\* Steps that start no flight.
LEMMA RoutingInBounds ==
  ASSUME IInv, TInv, NEW c \in Callers, RouteElsewhere(c) \/ Reject(c) \/ GoAlone(c)
  PROVE  TInv'
<1>1. UNCHANGED <<build, request, at, shared, coalesced, chain, call, reply>> /\ pc[c] = "new"
  BY DEF RouteElsewhere, Reject, GoAlone, Accepted
<1>2. PICK p \in {"served", "alone"} :
        /\ pc' = [pc EXCEPT ![c] = p]
        /\ p # "served" => UNCHANGED answer
        /\ p = "served" => \E r \in Replies : answer' = [answer EXCEPT ![c] = r]
  <2>1. CASE GoAlone(c)
    BY <2>1 DEF GoAlone
  <2>2. ASSUME NEW status, status \in {200, 400, 404, 405, 500, 503}, Served(c, status, None)
        PROVE  \E r \in Replies : answer' = [answer EXCEPT ![c] = r]
    <3>1. None \in ReplyBodies
      BY DEF ReplyBodies
    <3>2. [status |-> status, body |-> None] \in Replies
      BY <2>2, <3>1 DEF Replies
    <3>3. answer' = [answer EXCEPT ![c] = [status |-> status, body |-> None]]
      BY <2>2 DEF Served
    <3>4. QED
      BY ONLY <3>2, <3>3
  <2>3. CASE Reject(c)
    BY <2>2, <2>3 DEF Reject
  <2>4. CASE RouteElsewhere(c)
    <3>1. Statically(request[c]) \subseteq {200, 400, 404, 405, 500, 503}
      BY DEF Statically
    <3>2. QED
      BY <2>2, <2>4, <3>1 DEF RouteElsewhere
  <2>5. QED
    BY <2>1, <2>3, <2>4
<1>3. InBounds' /\ AnswersAreServed'
  BY <1>1, <1>2, ProgressPreserves DEF TInv
<1>4. \A f \in Callers : Active(f) => Active(f)'
  BY <1>1, <1>2 DEF Active, InFlight, Key, Body, IInv, Types
<1>5. CallsAreWanted'
  BY <1>1, <1>4, WantedFrame DEF TInv
<1>6. QED
  BY <1>3, <1>5 DEF TInv

\* A new flight takes an entry that was free.
LEMMA CoalesceInBounds ==
  ASSUME IInv, TInv, NEW c \in Callers, Coalesce(c)
  PROVE  TInv'
<1>1. /\ UNCHANGED <<build, request, chain, call, reply, answer, coalesced>> /\ pc[c] = "new"
      /\ Key(c) # None
  BY DEF Coalesce, Shared!Ask, Shares
<1>2. Key(c) \in KeysAsked
  BY <1>1, KeysAreAsked DEF IInv
<1>3. PICK p \in {"leading", "following"} : pc' = [pc EXCEPT ![c] = p]
  BY DEF Coalesce, Shared!Ask
<1>4. InBounds' /\ AnswersAreServed'
  BY <1>1, <1>3, ProgressPreserves DEF TInv
<1>5. UNCHANGED shared \/ (shared[Key(c)] = None /\ shared' = [shared EXCEPT ![Key(c)] = c])
  BY <1>1 DEF Coalesce, Shared!Ask
<1>6. ASSUME NEW f \in Callers, Active(f) PROVE Active(f)'
  <2>1. Key(f)' = Key(f)
    BY <1>1 DEF Key, Body
  <2>2. CASE pc[f] = "alone"
    BY <1>1, <1>3, <2>2 DEF Active, IInv, Types
  <2>3. CASE InFlight(f)
    <3>1. f # None /\ Key(f) # None /\ shared[Key(f)] = f /\ Key(f) \in KeysAsked
      BY <2>3, NoneAssumption, KeysAreAsked DEF InFlight, IInv
    <3>2. shared'[Key(f)] = f
      BY <1>2, <1>5, <3>1 DEF IInv, Types
    <3>3. QED
      BY <2>1, <3>1, <3>2 DEF Active, InFlight
  <2>4. QED
    BY <1>6, <2>2, <2>3 DEF Active
<1>7. CallsAreWanted'
  BY <1>1, <1>6, WantedFrame DEF TInv
<1>8. QED
  BY <1>4, <1>7 DEF TInv

\* Neither an answer nor who waits is affected.
LEMMA ChainsOnly ==
  ASSUME TInv, UNCHANGED <<build, request, pc, at, shared, coalesced, reply, answer>>
  PROVE  InBounds' /\ AnswersAreServed' /\ \A f \in Callers : Active(f)' <=> Active(f)
<1>1. ServedCallers' = ServedCallers
  BY DEF ServedCallers
<1>2. \A f \in Callers : Active(f)' <=> Active(f)
  BY DEF Active, InFlight, Key, Body
<1>3. QED
  BY <1>1, <1>2 DEF TInv, InBounds, AnswersAreServed

\* A chain takes its calls from its attempts.
LEMMA ChainInBounds ==
  ASSUME IInv, TInv, NEW f \in Callers,
         (\E n \in 0 .. MaxAttempt : Decide(f, n)) \/ TryNext(f)
  PROVE  TInv'
<1>1. UNCHANGED <<build, request, pc, at, shared, coalesced, reply, answer>>
  BY DEF Decide, TryNext
<1>2. InBounds' /\ AnswersAreServed' /\ \A g \in Callers : Active(g)' <=> Active(g)
  BY <1>1, ChainsOnly
<1>3. chain \in [Callers -> ChainStates] /\ DOMAIN call = Callers /\ MaxAttempt \in Nat
  BY LimitsAssumption DEF IInv, Types
<1>4. \A g \in Callers : /\ chain[g].sent \in Nat /\ chain[g].left \in Nat
                         /\ chain[g].sent + chain[g].left <= MaxAttempt
                         /\ call[g].at # "idle" => Active(g) /\ chain[g].sent > 0
  BY <1>3 DEF TInv, CallsAreWanted, ChainStates
<1>5. CASE \E n \in 0 .. MaxAttempt : Decide(f, n)
  <2>1. PICK n \in 0 .. MaxAttempt : Decide(f, n)
    BY <1>5
  <2>2. PICK m \in 0 .. MaxAttempt : chain' = [chain EXCEPT ![f] = [begun |-> TRUE, left |-> m, sent |-> 0]]
    <3>1. PICK m : m = IF SentOnce(f) /\ n > 1 THEN 1 ELSE n
      OBVIOUS
    <3>2. m \in 0 .. MaxAttempt
      BY <1>3, <3>1
    <3>3. chain' = [chain EXCEPT ![f] = [begun |-> TRUE, left |-> m, sent |-> 0]]
      BY <2>1, <3>1 DEF Decide
    <3>4. QED
      BY <3>2, <3>3
  <2>3. chain[f].sent = 0 /\ call' = call
    BY <2>1 DEF Decide, IInv, ChainsKeepCount
  <2>4. \A g \in Callers : chain'[g] = IF g = f THEN [begun |-> TRUE, left |-> m, sent |-> 0] ELSE chain[g]
    BY <1>3, <2>2
  <2>5. CallsAreWanted'
    BY <1>2, <1>3, <1>4, <2>3, <2>4 DEF CallsAreWanted
  <2>6. QED
    BY <1>2, <2>5 DEF TInv
<1>6. CASE TryNext(f)
  <2>1. /\ Active(f) /\ chain[f].left > 0
        /\ chain' = [chain EXCEPT ![f].left = @ - 1, ![f].sent = @ + 1]
        /\ call' = [call EXCEPT ![f] = Sent]
    BY <1>6 DEF TryNext, Send, Becomes
  <2>2. \A g \in Callers : /\ g # f => chain'[g] = chain[g] /\ call'[g] = call[g]
                           /\ g = f => chain'[g].left = chain[g].left - 1 /\ chain'[g].sent = chain[g].sent + 1
    BY <1>3, <2>1 DEF ChainStates
  <2>3. CallsAreWanted'
    <3> SUFFICES ASSUME NEW g \in Callers
                 PROVE  /\ chain'[g].sent + chain'[g].left <= MaxAttempt
                        /\ call'[g].at # "idle" => Active(g) /\ chain'[g].sent > 0
      BY <1>2 DEF CallsAreWanted
    <3>1. /\ chain[g].sent \in Nat /\ chain[g].left \in Nat
          /\ chain[g].sent + chain[g].left <= MaxAttempt
          /\ call[g].at # "idle" => Active(g) /\ chain[g].sent > 0
      BY <1>4
    <3>2. CASE g = f
      BY <1>3, <2>1, <2>2, <3>1, <3>2
    <3>3. CASE g # f
      BY <2>2, <3>1, <3>3
    <3>4. QED
      BY <3>2, <3>3
  <2>4. QED
    BY <1>2, <2>3 DEF TInv
<1>7. QED
  BY <1>5, <1>6

\* A call that goes on is one that is wanted.
LEMMA CallInBounds ==
  ASSUME IInv, TInv, NEW f \in Callers, CallGoesOn(f)
  PROVE  TInv'
<1>1. UNCHANGED <<build, request, pc, at, shared, coalesced, chain, reply, answer>>
  BY DEF CallGoesOn
<1>2. InBounds' /\ AnswersAreServed' /\ \A g \in Callers : Active(g)' <=> Active(g)
  BY <1>1, ChainsOnly
<1>3. call[f].at # "idle" /\ \E v : call' = [call EXCEPT ![f] = v]
  BY DEF CallGoesOn, SendFails, Chunk, ReadFails, Headers, BodyEnds, Becomes
<1>4. \A g \in Callers : g # f => call'[g] = call[g]
  BY <1>3 DEF IInv, Types
<1>5. CallsAreWanted'
  BY <1>1, <1>2, <1>3, <1>4 DEF TInv, CallsAreWanted
<1>6. QED
  BY <1>2, <1>5 DEF TInv

\* A chain that ends has no call left.
LEMMA EndsWanted ==
  ASSUME IInv, CallsAreWanted, NEW f \in Callers, Ends(f),
         \A g \in Callers : g # f /\ Active(g) => Active(g)'
  PROVE  CallsAreWanted'
<1>1. /\ \A g \in Callers : g # f => chain'[g] = chain[g] /\ call'[g] = call[g]
      /\ chain'[f] = Unbegun /\ call'[f].at = "idle"
  BY DEF Ends, Forget, Becomes, Idle, IInv, Types
<1>2. QED
  BY <1>1, LimitsAssumption DEF CallsAreWanted, Unbegun

\* What finish makes of a chain can be served.
LEMMA FinishedIsServable ==
  ASSUME IInv, NEW f \in Callers
  PROVE  [status |-> Finished(f).status, body |-> Finished(f).body] \in Replies /\ Finished(f) \in Replies
<1>1. Finished(f).status = 200 /\ Finished(f).body \in ReplyBodies
  BY FinishedIsSound, BodiesAreServable
<1>2. Finished(f) = [status |-> Finished(f).status, body |-> Finished(f).body]
  BY DEF Finished
<1>3. QED
  BY <1>1, <1>2 DEF Replies

\* A flight that lands frees its own entry only.
LEMMA LandInBounds ==
  ASSUME IInv, TInv, NEW f \in Callers, Land(f)
  PROVE  TInv'
<1>1. /\ UNCHANGED <<build, request, answer, pc, at, coalesced>> /\ InFlight(f)
      /\ reply' = [reply EXCEPT ![f] = Finished(f)] /\ Ends(f)
      /\ shared' = [shared EXCEPT ![Key(f)] = None]
  BY DEF Land, Shared!Land
<1>2. InBounds'
  <2>1. ServedCallers' = ServedCallers
    BY <1>1 DEF ServedCallers
  <2>2. QED
    BY <1>1, <2>1 DEF TInv, InBounds
<1>3. AnswersAreServed'
  BY <1>1, FinishedIsServable DEF TInv, AnswersAreServed, IInv, Types
<1>4. ASSUME NEW g \in Callers, g # f, Active(g) PROVE Active(g)'
  <2>1. Key(g)' = Key(g)
    BY <1>1 DEF Key, Body
  <2>2. InFlight(g) => shared'[Key(g)] = g
    BY <1>1, <1>4, KeysAreAsked DEF InFlight, IInv, Types
  <2>3. QED
    BY <1>1, <1>4, <2>1, <2>2 DEF Active, InFlight
<1>5. CallsAreWanted'
  BY <1>1, <1>4, EndsWanted DEF TInv
<1>6. QED
  BY <1>2, <1>3, <1>5 DEF TInv

\* A follower's own id makes a body that can be served.
LEMMA AlightInBounds ==
  ASSUME IInv, TInv, NEW c \in Callers, Alight(c)
  PROVE  TInv'
<1> DEFINE r == reply[at[c]]
<1>1. /\ UNCHANGED <<build, request, chain, call, reply, shared>>
      /\ pc[c] \in {"leading", "following"} /\ r # None
  BY DEF Alight, Shared!Alight
<1>2. at[c] \in Callers /\ RequestId(Body(c)) # None
  BY <1>1 DEF IInv, PassengersAgree
<1>3. r \in Replies /\ r.body \in ResponsesTo(Body(at[c])) \cup {RpcErrorBody}
  BY <1>1, <1>2 DEF TInv, AnswersAreServed, IInv, RepliesAreSound
<1>4. Readdress(r.body, RequestId(Body(c))) \in ReplyBodies
  BY <1>2, <1>3, BodiesAreServable
<1>5. PICK p \in {"served", "alone"} :
        /\ pc' = [pc EXCEPT ![c] = p]
        /\ p # "served" => UNCHANGED answer
        /\ p = "served" => \E q \in Replies : answer' = [answer EXCEPT ![c] = q]
        /\ coalesced' = coalesced \/ (p = "served" /\ coalesced' = coalesced + 1)
  <2>1. PICK p \in {"served", "alone"} :
          /\ pc' = [pc EXCEPT ![c] = p]
          /\ coalesced' = coalesced \/ (p = "served" /\ coalesced' = coalesced + 1)
    <3>1. coalesced \in Nat
      BY DEF TInv, InBounds
    <3>2. \/ /\ pc' = [pc EXCEPT ![c] = "served"]
             /\ coalesced' = coalesced + (IF pc[c] = "following" THEN 1 ELSE 0)
          \/ pc' = [pc EXCEPT ![c] = "alone"] /\ coalesced' = coalesced
      BY DEF Alight, Shared!Alight
    <3>3. QED
      BY <3>1, <3>2
  <2>2. pc'[c] = p
    BY <2>1 DEF IInv, Types
  <2>3. [status |-> r.status, body |-> r.body] \in Replies
    BY <1>3 DEF Replies
  <2>4. [status |-> r.status, body |-> Readdress(r.body, RequestId(Body(c)))] \in Replies
    BY <1>3, <1>4 DEF Replies
  <2>5. \/ pc'[c] = "served" /\ \E q \in Replies : answer' = [answer EXCEPT ![c] = q]
        \/ pc'[c] = "alone" /\ UNCHANGED answer
    BY <2>3, <2>4 DEF Alight, Served
  <2>6. QED
    BY <2>1, <2>2, <2>5
<1>6. InBounds' /\ AnswersAreServed'
  BY <1>1, <1>5, ProgressPreserves DEF TInv
<1>7. \A f \in Callers : Active(f) => Active(f)'
  BY <1>1, <1>5 DEF Active, InFlight, Key, Body, IInv, Types
<1>8. CallsAreWanted'
  BY <1>1, <1>7, WantedFrame DEF TInv
<1>9. QED
  BY <1>6, <1>8 DEF TInv

\* A caller alone takes its chain along.
LEMMA ArriveInBounds ==
  ASSUME IInv, TInv, NEW c \in Callers, Arrive(c)
  PROVE  TInv'
<1>1. /\ UNCHANGED <<build, request, reply, at, shared, coalesced>> /\ pc[c] = "alone"
      /\ pc' = [pc EXCEPT ![c] = "served"] /\ Ends(c)
      /\ answer' = [answer EXCEPT ![c] = [status |-> Finished(c).status, body |-> Finished(c).body]]
  BY DEF Arrive, Shared!ArriveAlone, Served
<1>2. \E r \in Replies : answer' = [answer EXCEPT ![c] = r]
  BY <1>1, FinishedIsServable
<1>3. InBounds' /\ AnswersAreServed'
  BY <1>1, <1>2, ProgressPreserves DEF TInv
<1>4. \A f \in Callers : f # c /\ Active(f) => Active(f)'
  BY <1>1 DEF Active, InFlight, Key, Body, IInv, Types
<1>5. CallsAreWanted'
  BY <1>1, <1>4, EndsWanted DEF TInv
<1>6. QED
  BY <1>3, <1>5 DEF TInv

\* Chains that nobody waits for any more are dropped with their calls.
LEMMA GiveUpInBounds ==
  ASSUME IInv, TInv, NEW c \in Callers, GiveUp(c)
  PROVE  TInv'
<1>1. /\ UNCHANGED <<build, request, reply, answer, coalesced>>
      /\ pc[c] # "served" /\ pc' = [pc EXCEPT ![c] = "gone"]
  BY DEF GiveUp, Shared!GiveUp
<1>2. InBounds' /\ AnswersAreServed'
  BY <1>1, ProgressPreserves DEF TInv
<1>3. \A f \in Callers : /\ chain'[f] = IF Active(f)' THEN chain[f] ELSE Unbegun
                         /\ call'[f] = IF Active(f)' THEN call[f] ELSE Idle
  BY DEF GiveUp
<1>4. CallsAreWanted'
  BY <1>3, LimitsAssumption DEF TInv, CallsAreWanted, Unbegun, Idle
<1>5. QED
  BY <1>2, <1>4 DEF TInv

\* In every reachable state a chain is within its attempts and has a call only
\* while somebody waits for it (`run` and `coalesce` of proxy/mod.rs), and those
\* served have an answer, of a status and a body that the proxy can give.
THEOREM TypeCorrect == Spec => []TypeOK
<1>1. Init => TInv
  <2> SUFFICES ASSUME Init PROVE TInv
    OBVIOUS
  <2>1. IsFiniteSet(ServedCallers) /\ Cardinality(ServedCallers) \in Nat
    BY CallersAssumption, FS_Subset, FS_CardinalityType DEF ServedCallers
  <2>2. InBounds
    BY <2>1 DEF Init, InBounds
  <2>3. CallsAreWanted
    BY LimitsAssumption DEF Init, CallInit, CallsAreWanted, Unbegun, Idle
  <2>4. AnswersAreServed
    BY DEF Init, AnswersAreServed
  <2>5. QED
    BY <2>2, <2>3, <2>4 DEF TInv
<1>2. IInv /\ TInv /\ [Next]_vars => TInv'
  <2> SUFFICES ASSUME IInv, TInv, [Next]_vars PROVE TInv'
    OBVIOUS
  <2>1. CASE UNCHANGED vars
    <3>1. InBounds' /\ AnswersAreServed' /\ \A f \in Callers : Active(f)' <=> Active(f)
      BY <2>1, ChainsOnly DEF vars
    <3>2. CallsAreWanted'
      BY <2>1, <3>1 DEF vars, TInv, CallsAreWanted
    <3>3. QED
      BY <3>1, <3>2 DEF TInv
  <2>2. CASE Next
    BY <2>2, RoutingInBounds, CoalesceInBounds, ChainInBounds, CallInBounds, LandInBounds,
       AlightInBounds, ArriveInBounds, GiveUpInBounds DEF Next
  <2>3. QED
    BY <2>1, <2>2
<1>3. IInv /\ TInv => TypeOK
  <2> SUFFICES ASSUME IInv, TInv PROVE TypeOK
    OBVIOUS
  <2>1. coalesced \in 0 .. Cardinality(Callers)
    <3>1. Cardinality(ServedCallers) <= Cardinality(Callers)
      BY CallersAssumption, FS_Subset DEF ServedCallers
    <3>2. Cardinality(ServedCallers) \in Nat /\ Cardinality(Callers) \in Nat
      BY CallersAssumption, FS_Subset, FS_CardinalityType DEF ServedCallers
    <3>3. QED
      BY <3>1, <3>2 DEF TInv, InBounds
  <2>2. ASSUME NEW f \in Callers, call[f].at = "done"
        PROVE  call[f].body # None <=> call[f].outcome \in {"ok", "rpc_error"}
    <3>1. \E r \in Requests : Body(f) = r.body
      BY DEF IInv, Types, Body
    <3>2. None \notin ResponsesTo(Body(f))
      BY <3>1, NoneAssumption
    <3>3. QED
      BY <2>2, <3>2 DEF IInv, CallsAreSound, Sound
  <2>3. QED
    BY <2>1, <2>2 DEF TypeOK, IInv, Types, TInv, InBounds, CallsAreWanted, AnswersAreServed
<1>4. QED
  BY Invariance, <1>1, <1>2, <1>3, PTL DEF Spec
=============================================================================
