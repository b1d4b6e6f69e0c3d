------------------------------ MODULE Exchange ------------------------------
(***************************************************************************)
(* From an HTTP request to the reply it is served: build_router and        *)
(* Pipeline::proxy (src/src/http, src/src/proxy/mod.rs), composed of what  *)
(* the proxy reads in bodies (Bodies), its calls to upstreams (Client) and *)
(* the sharing of flights (Coalescing, which SingleFlight implements).     *)
(*                                                                         *)
(* A chain, one run of `run`, bears the name of the caller whose body it   *)
(* sends.  Its calls are taken one at a time: how those of a race overlap  *)
(* is the subject of Dispatch, and here a hedge puts the call it overtakes *)
(* out of sight.                                                           *)
(***************************************************************************)
EXTENDS Bodies, FiniteSets

CONSTANTS
  Callers,      \* requests to the server
  Requests,     \* what may be requested: [verb, path, body]
  Builds,       \* [hedged, dedup, cors]: what the settings turn on
  MaxAttempt,
  MaxResponse,
  Statuses      \* HTTP statuses of upstreams' responses

ASSUME RequestsAssumption ==
  \A r \in Requests : /\ r.body.method \in Seq(STRING) /\ r.body.id \in Seq(STRING)
                      /\ r.body.params \in Seq(Seq(Nat))
ASSUME CallersAssumption  == IsFiniteSet(Callers)
ASSUME LimitsAssumption   == MaxAttempt \in Nat \ {0} /\ MaxResponse \in Nat \ {0}

VARIABLES
  build,        \* the settings in force
  request,      \* request[c]: what c requests
  pc, at, shared, coalesced,   \* of Coalescing
  chain,        \* chain[f]: [begun, left: upstreams it may yet try, sent]
  call,         \* call[f]: the call chain f is waiting for, of Client
  reply,        \* reply[f]: what flight f returned, None before it did
  answer        \* answer[c]: what c is served, None before it is

vars == <<build, request, pc, at, shared, coalesced, chain, call, reply, answer>>

Body(c)  == request[c].body
Key(c)   == DedupKey(Body(c))
KeysAsked == {DedupKey(r.body) : r \in Requests} \ {None}
Retryable(b) == IsRetryable(b.code, b.reverted)

INSTANCE Client WITH Calls <- Callers, HasFault <- HasFault, Retryable <- Retryable

\* To Coalescing a reply matters only for whether followers can be given it.
Form(r) == IF CanReaddress(r.body) THEN "object" ELSE "not_an_object"

Shared == INSTANCE Coalescing WITH
  Keys   <- KeysAsked,
  Values <- {"object", "not_an_object"},
  key    <- [c \in Callers |-> Key(c)],
  result <- [f \in Callers |-> IF reply[f] = None THEN None ELSE Form(reply[f])]

-----------------------------------------------------------------------------
(* Responses of upstreams *)

\* Of a body that sets its id twice an upstream may take either, and an error
\* may come without an id.
IdsFor(b) == {b.id[i] : i \in DOMAIN b.id} \cup {Null}

Faults ==
  { [error |-> "absent", code |-> 0, reverted |-> FALSE],
    [error |-> "unreadable", code |-> 0, reverted |-> FALSE],
    [error |-> "fault", code |-> LimitExceeded, reverted |-> FALSE],
    [error |-> "fault", code |-> GethServerError, reverted |-> TRUE] }

ResponsesTo(b) ==
  { [object |-> TRUE, error |-> e.error, code |-> e.code, reverted |-> e.reverted,
     id |-> i, question |-> b] : e \in Faults, i \in IdsFor(b) }
  \cup { [object |-> FALSE, error |-> "absent", code |-> 0, reverted |-> FALSE,
          id |-> None, question |-> b] }

\* What a caller may be served: no body, or one that an upstream or the proxy
\* made, with some request's id put in.
ReplyBodies ==
  {None} \cup UNION {ResponsesTo(r.body) \cup
    {Readdress(b, i) : b \in ResponsesTo(r.body) \cup {RpcErrorBody},
                       i \in UNION {IdsFor(q.body) : q \in Requests}} : r \in Requests}

Replies == [status : {200, 400, 404, 405, 500, 503}, body : ReplyBodies]

\* None is no caller, no body and no reply.
ASSUME NoneAssumption ==
  /\ None \notin Callers /\ None \notin Replies
  /\ \A r \in Requests : None \notin ResponsesTo(r.body)

-----------------------------------------------------------------------------

Unbegun == [begun |-> FALSE, left |-> 0, sent |-> 0]

Init ==
  /\ build \in Builds
  /\ request \in [Callers -> Requests]
  /\ pc = [c \in Callers |-> "new"]
  /\ at = [c \in Callers |-> None]
  /\ shared = [k \in KeysAsked |-> None]
  /\ coalesced = 0
  /\ chain = [f \in Callers |-> Unbegun]
  /\ CallInit
  /\ reply = [f \in Callers |-> None]
  /\ answer = [c \in Callers |-> None]

-----------------------------------------------------------------------------
(* The router *)

Served(c, status, body) ==
  answer' = [answer EXCEPT ![c] = [status |-> status, body |-> body]]

Gets == {"/healthz", "/livez", "/metrics"}

\* The statuses the router and the small handlers answer with. Readiness is
\* the decider's (Ranking), and a preflight is answered by the CORS layer.
Statically(r) ==
  CASE r.path \notin Gets \cup {"/rpc"}    -> {404}
    [] r.path = "/healthz" /\ r.verb = "GET" -> {200, 503}
    [] r.path = "/metrics" /\ r.verb = "GET" -> {200, 500}
    [] r.path = "/livez" /\ r.verb = "GET"  -> {200}
    [] r.path = "/rpc" /\ r.verb = "OPTIONS" /\ build.cors -> {200}
    [] OTHER -> {405}

ToPipeline(r) == r.path = "/rpc" /\ r.verb = "POST"

RouteElsewhere(c) ==
  /\ pc[c] = "new" /\ ~ToPipeline(request[c])
  /\ pc' = [pc EXCEPT ![c] = "served"]
  /\ \E status \in Statically(request[c]) : Served(c, status, None)
  /\ UNCHANGED <<build, request, at, shared, coalesced, chain, call, reply>>

-----------------------------------------------------------------------------
(* Pipeline::proxy and coalesce *)

\* Only a body that starts like one object goes on.
Reject(c) ==
  /\ pc[c] = "new" /\ ToPipeline(request[c]) /\ Shape(Body(c)) # "single"
  /\ pc' = [pc EXCEPT ![c] = "served"]
  /\ Served(c, 400, None)
  /\ UNCHANGED <<build, request, at, shared, coalesced, chain, call, reply>>

Accepted(c) == pc[c] = "new" /\ ToPipeline(request[c]) /\ Shape(Body(c)) = "single"

Shares(c) == build.dedup /\ Key(c) # None /\ RequestId(Body(c)) # None

Coalesce(c) ==
  /\ Accepted(c) /\ Shares(c)
  /\ UNCHANGED <<build, request, chain, call, reply, answer>>
  /\ Shared!Ask(c)

GoAlone(c) ==
  /\ Accepted(c) /\ ~Shares(c)
  /\ pc' = [pc EXCEPT ![c] = "alone"]
  /\ UNCHANGED <<build, request, at, shared, coalesced, chain, call, reply, answer>>

-----------------------------------------------------------------------------
(* A chain *)

InFlight(f) == Key(f) # None /\ shared[Key(f)] = f
Active(f)   == pc[f] = "alone" \/ InFlight(f)

SentOnce(f) == build.hedged /\ IsWrite(MethodLabel(Body(f)))

\* The decider's chain has some upstreams, perhaps none; send_once takes one.
Decide(f, n) ==
  /\ Active(f) /\ ~chain[f].begun
  /\ chain' = [chain EXCEPT ![f] =
       [begun |-> TRUE, left |-> IF SentOnce(f) /\ n > 1 THEN 1 ELSE n, sent |-> 0]]
  /\ UNCHANGED <<build, request, pc, at, shared, coalesced, call, reply, answer>>

\* The next upstream: at first, after a failure worth a retry, or, in a race,
\* while the call before it is still in progress.
TryNext(f) ==
  /\ Active(f) /\ chain[f].left > 0
  /\ \/ call[f].at = "idle"
     \/ call[f].at = "done" /\ call[f].retryable
     \/ call[f].at \in {"sent", "reading"} /\ build.hedged
  /\ chain' = [chain EXCEPT ![f].left = @ - 1, ![f].sent = @ + 1]
  /\ Send(f)
  /\ UNCHANGED <<build, request, pc, at, shared, coalesced, reply, answer>>

CallGoesOn(f) ==
  /\ \/ SendFails(f) \/ Chunk(f) \/ ReadFails(f)
     \/ \E status \in Statuses, length \in Lengths, declared \in BOOLEAN :
          Headers(f, status, length, declared)
     \/ \E b \in ResponsesTo(Body(f)) :
          (call[f].at = "reading" => (b.object => call[f].length > 0)) /\ BodyEnds(f, b)
  /\ UNCHANGED <<build, request, pc, at, shared, coalesced, chain, reply, answer>>

Over(f) ==
  /\ chain[f].begun
  /\ IF call[f].at = "done"
     THEN ~call[f].retryable \/ chain[f].left = 0
     ELSE call[f].at = "idle" /\ chain[f].left = 0

\* finish: an upstream's own error is passed on, any other gets the proxy's.
Finished(f) ==
  IF call[f].at = "done" /\ call[f].outcome \in {"ok", "rpc_error"}
  THEN [status |-> call[f].read.status, body |-> call[f].body]
  ELSE [status |-> 200, body |-> RpcErrorBody]

-----------------------------------------------------------------------------
(* The ends of flights, chains and callers *)

\* Mutation: the chain's call goes on.
EndsDetached(f) == chain' = [chain EXCEPT ![f] = Unbegun] /\ UNCHANGED call

\* A chain nobody waits for is no more, and nor is its call.
Ends(f) == chain' = [chain EXCEPT ![f] = Unbegun] /\ Forget(f)

Land(f) ==
  /\ InFlight(f) /\ Over(f)
  /\ reply' = [reply EXCEPT ![f] = Finished(f)]
  /\ UNCHANGED <<build, request, answer>>
  /\ Ends(f)
  /\ Shared!Land(f, Form(Finished(f)))

\* A leader takes the flight's reply as it is; a follower puts its own id in,
\* or goes on alone with a reply that has no place for it.
Alight(c) ==
  /\ pc[c] \in {"leading", "following"} /\ reply[at[c]] # None
  /\ UNCHANGED <<build, request, chain, call, reply>>
  /\ Shared!Alight(c)
  /\ LET r == reply[at[c]] IN
       IF pc[c] = "leading" THEN Served(c, r.status, r.body) /\ pc'[c] = "served"
       ELSE IF CanReaddress(r.body)
       THEN Served(c, r.status, Readdress(r.body, RequestId(Body(c)))) /\ pc'[c] = "served"
       ELSE UNCHANGED answer /\ pc'[c] = "alone"

Arrive(c) ==
  /\ pc[c] = "alone" /\ Over(c)
  /\ Served(c, Finished(c).status, Finished(c).body)
  /\ UNCHANGED <<build, request, reply>>
  /\ Ends(c)
  /\ Shared!ArriveAlone(c)

\* The client hangs up. A flight nobody waits on is torn down with its call.
GiveUp(c) ==
  /\ UNCHANGED <<build, request, reply, answer>>
  /\ Shared!GiveUp(c)
  /\ chain' = [f \in Callers |-> IF Active(f)' THEN chain[f] ELSE Unbegun]
  /\ call'  = [f \in Callers |-> IF Active(f)' THEN call[f] ELSE Idle]

-----------------------------------------------------------------------------

Next ==
  \E c \in Callers :
    \/ RouteElsewhere(c) \/ Reject(c) \/ Coalesce(c) \/ GoAlone(c)
    \/ \E n \in 0 .. MaxAttempt : Decide(c, n)
    \/ TryNext(c) \/ CallGoesOn(c)
    \/ Land(c) \/ Alight(c) \/ Arrive(c) \/ GiveUp(c)

Spec == Init /\ [][Next]_vars

-----------------------------------------------------------------------------
(* Properties *)

\* Type invariant: chains keep within their attempts, only a chain somebody waits
\* for has a call, and a call has a body exactly when the upstream's answer is
\* passed on.
TypeOK ==
  /\ build \in Builds /\ request \in [Callers -> Requests]
  /\ pc \in [Callers -> {"new", "leading", "following", "alone", "served", "gone"}]
  /\ at \in [Callers -> Callers \cup {None}]
  /\ shared \in [KeysAsked -> Callers \cup {None}]
  /\ coalesced \in 0 .. Cardinality(Callers)
  /\ \A f \in Callers :
       /\ chain[f].sent + chain[f].left <= MaxAttempt
       /\ call[f].at # "idle" => Active(f) /\ chain[f].sent > 0
       /\ call[f].at = "done" =>
            (call[f].body # None <=> call[f].outcome \in {"ok", "rpc_error"})
       /\ {reply[f], answer[f]} \subseteq Replies \cup {None}
  /\ \A c \in Callers : pc[c] = "served" <=> answer[c] # None

\* What c was served was made by an upstream in answer to a request.
Upstreams(c) == answer[c] # None /\ answer[c].body # None /\ answer[c].body.question # None

\* Two bodies ask for the same: method and params, as a parser takes them that
\* lets the last of repeated keys stand.
SameQuestion(a, b) ==
  a = b \/ ( /\ a.method # <<>> /\ b.method # <<>>
             /\ LastOf(a.method) = LastOf(b.method)
             /\ Params(a) = Params(b) )

Exact(b) == \A i \in DOMAIN Params(b) : Params(b)[i] < ExactBelow

\* Whoever's flight it came from, an answer is to the question its receiver
\* asked, and has an id of the receiver's own or none; `coalesce` shares by
\* a hash of what dedup_key reads and readdresses by what request_id reads, so
\* it takes two callers and both readings to go wrong. Numbers a Value has as
\* doubles are excepted, see SharedAnswersAreExact.
AnswersOwnQuestion ==
  \A c \in Callers : Upstreams(c) =>
    /\ Exact(answer[c].body.question) /\ Exact(Body(c))
         => SameQuestion(answer[c].body.question, Body(c))
    /\ answer[c].body.object => answer[c].body.id \in IdsFor(Body(c))

\* docs/design/v0.4-DEDUP.md: "A coalesced response is indistinguishable from
\* an uncoalesced one", and jsonrpc/test.rs has a test named
\* different_questions_get_different_keys. Of params that are large numbers
\* dedup_key hashes a double, so different questions can have the same key.
SharedAnswersAreExact ==
  \A c \in Callers : Upstreams(c) => SameQuestion(answer[c].body.question, Body(c))

Writes(b) == \E i \in DOMAIN b.method : b.method[i] \notin Reads

\* A body that any parser may take for a write is never sent twice under hedged
\* dispatch, by retry or by hedge; and one that every parser takes for a write
\* never travels in a flight that others may share. method_label decides the
\* one and dedup_key the other, each by its own parse of the body.
WritesAreSentOnce ==
  \A c \in Callers : Writes(Body(c)) =>
    /\ build.hedged => chain[c].sent <= 1
    /\ LastOf(Body(c).method) \notin Reads => at[c] = None

\* A call that is over holds a body to pass on only if the response came with
\* status 200, all of its length was read, and that is no more than
\* max_response_bytes: not one that broke off below the cap, was cut at it, or
\* came with an error. Whoever is served an upstream's body has it with status
\* 200.
OnlyWholeAnswersAreServed ==
  /\ \A f \in Callers : call[f].at = "done" /\ call[f].body # None =>
       LET read == call[f].read
       IN read.status = 200 /\ read.got = read.length /\ read.length <= MaxResponse
  /\ \A c \in Callers : Upstreams(c) => answer[c].status = 200
=============================================================================
