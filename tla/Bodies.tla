------------------------------- MODULE Bodies -------------------------------
(***************************************************************************)
(* What the proxy reads in JSON-RPC bodies (src/src/jsonrpc/mod.rs). The   *)
(* same body is parsed anew for its shape, its method, its dedup key and   *)
(* its id, each time into another type and so by other rules: a repeated   *)
(* key is an error to a struct and overwrites in a Value.                  *)
(*                                                                         *)
(* A request body is abstracted to                                         *)
(*   [start  |-> what it starts with, "object", "array" or "junk",         *)
(*    json   |-> whether all of it is one JSON value,                      *)
(*    method, params, id |-> the values it gives these keys, in order]     *)
(* with a sequence of numbers for each `params`, and a response body to    *)
(*   [object   |-> whether it is an object with plainly written keys,      *)
(*    error    |-> "absent", "null", "unreadable" or "fault",              *)
(*    code, reverted |-> of a fault, its code, and whether its message     *)
(*                       says "execution reverted",                        *)
(*    id       |-> the id it carries,                                      *)
(*    question |-> what the upstream that made it was asked].              *)
(***************************************************************************)
EXTENDS Integers, Sequences

CONSTANTS
  Reads,        \* IDEMPOTENT_READS
  Sends,        \* SENDS
  ExactBelow,   \* 2^64: numbers that Value holds as integers are below it
  None          \* no key, no id

Other == "other"

ASSUME MethodsAssumption == Reads \cap Sends = {} /\ Other \notin Reads
ASSUME NumbersAssumption == ExactBelow \in Nat

LimitExceeded       == -32005
ResourceUnavailable == -32002
InternalError       == -32603
GethServerError     == -32000

Labels == Reads \cup Sends \cup {Other}
Null == "null"

LastOf(values) == values[Len(values)]

-----------------------------------------------------------------------------
(* Requests *)

Shape(r) == CASE r.start = "array"  -> "batch"
              [] r.start = "object" -> "single"
              [] OTHER              -> "malformed"

\* Mutation: repeated keys overwrite here too.
MethodLabelOfLast(r) ==
  IF r.json /\ r.method # <<>> /\ LastOf(r.method) \in Labels
  THEN LastOf(r.method) ELSE Other

\* A struct takes a key at most once.
MethodLabel(r) ==
  IF r.json /\ Len(r.method) = 1 /\ r.method[1] \in Labels
  THEN r.method[1] ELSE Other

IsWrite(label) == label \notin Reads

\* A number as Value holds it. From 2^64 on that is a double, which has fewer
\* digits; that one in two is lost stands for the 11 bits that are.
Held(n) == IF n < ExactBelow THEN n ELSE n - (n % 2)

\* Mutation: the key is made from the method alone.
KeyOfMethod(method, params) == [method |-> method, params |-> <<>>]

\* What is hashed; xxh3 is taken to tell everything apart.
KeyOf(method, params) ==
  [method |-> method, params |-> [i \in DOMAIN params |-> Held(params[i])]]

\* No params are the same as an empty list of them.
Params(r) == IF r.params = <<>> THEN <<>> ELSE LastOf(r.params)

\* A Value keeps the last of repeated keys.
DedupKey(r) ==
  IF r.json /\ r.start = "object" /\ r.method # <<>> /\ LastOf(r.method) \in Reads
  THEN KeyOf(LastOf(r.method), Params(r)) ELSE None

RequestId(r) ==
  IF Shape(r) = "single" /\ r.json /\ Len(r.id) = 1 THEN r.id[1] ELSE None

-----------------------------------------------------------------------------
(* Responses *)

IsRetryable(code, reverted) ==
  \/ code \in {LimitExceeded, ResourceUnavailable, InternalError}
  \/ code = GethServerError /\ ~reverted

\* rpc_fault_in: an error object without an integer code is no fault.
HasFault(b) == b.error = "fault"

\* Mutation: a body that has an id keeps it.
ReaddressKeeping(b, id) == IF b.id = Null THEN [b EXCEPT !.id = id] ELSE b

Readdress(b, id) == [b EXCEPT !.id = id]

CanReaddress(b) == b.object

RpcErrorBody ==
  [object |-> TRUE, error |-> "fault", code |-> InternalError, reverted |-> FALSE,
   id |-> Null, question |-> None]
=============================================================================
