------------------------------- MODULE Client -------------------------------
(***************************************************************************)
(* One HTTP call to an upstream (src/src/upstream): Upstream::call sends   *)
(* the body, looks at the status and the declared length, reads the        *)
(* response chunk by chunk up to max_response_bytes, and only then decides *)
(* what the response means.  The timeout of the request covers all of it.  *)
(*                                                                         *)
(* Sizes are in units of a chunk. What an upstream and the network do is   *)
(* theirs to choose.                                                       *)
(***************************************************************************)
EXTENDS Naturals

CONSTANTS
  Calls,         \* names of calls that may be in progress
  MaxResponse,   \* max_response_bytes
  Statuses,      \* HTTP statuses of responses
  HasFault(_),   \* rpc_fault_in: the response body holds a JSON-RPC fault
  Retryable(_),  \* is_retryable of that fault
  None           \* no body

VARIABLE call    \* call[i]: what has come of call i

\* Responses are longer than the cap by one at most; that one is bound enough.
Lengths == 0 .. MaxResponse + 1

Idle == [at |-> "idle"]
Sent == [at |-> "sent"]

Reading(status, length) ==
  [at |-> "reading", status |-> status, length |-> length, got |-> 0]

\* A call that is over. Of a response that has a meaning, read is what was read
\* of it, and body its body unless an error status made that irrelevant.
Done(outcome, retryable, read, body) ==
  [at |-> "done", outcome |-> outcome, retryable |-> retryable,
   read |-> read, body |-> body]

Unreachable == Done("unreachable", TRUE, Idle, None)
ReadFailed  == Done("read_failed", TRUE, Idle, None)

\* CallError::is_retryable of an ErrorStatus.
RetryableStatus(status) == status = 429 \/ status >= 500

Becomes(i, v) == call' = [call EXCEPT ![i] = v]

-----------------------------------------------------------------------------

CallInit == call = [i \in Calls |-> Idle]

\* The call begins; what came of an earlier one of that name is forgotten.
Send(i) == Becomes(i, Sent)

\* No connection, no response, or the timeout before one.
SendFails(i) == call[i].at = "sent" /\ Becomes(i, Unreachable)

\* Response headers: a length, if declared, is checked before anything is read.
Headers(i, status, length, declared) ==
  /\ call[i].at = "sent"
  /\ Becomes(i, IF declared /\ length > MaxResponse
                THEN ReadFailed
                ELSE Reading(status, length))

\* A chunk arrives.
Chunk(i) ==
  /\ call[i].at = "reading" /\ call[i].got < call[i].length
  /\ Becomes(i, IF call[i].got + 1 > MaxResponse
                THEN ReadFailed
                ELSE [call[i] EXCEPT !.got = @ + 1])

\* The connection breaks, or the timeout expires, before the body's end.
ReadFails(i) == call[i].at = "reading" /\ Becomes(i, ReadFailed)

\* What a complete response means. A body that comes with an error status is
\* not looked into.
Meaning(read, body) ==
  IF read.status # 200
  THEN Done("error_status", RetryableStatus(read.status), read, None)
  ELSE IF HasFault(body) THEN Done("rpc_error", Retryable(body), read, body)
  ELSE Done("ok", FALSE, read, body)

\* Mutation: a broken connection is taken for the end of the response.
BodyEndsTorn(i, body) ==
  /\ call[i].at = "reading" /\ call[i].got <= call[i].length
  /\ Becomes(i, Meaning(call[i], body))

\* The response ends.
BodyEnds(i, body) ==
  /\ call[i].at = "reading" /\ call[i].got = call[i].length
  /\ Becomes(i, Meaning(call[i], body))

\* The future is dropped.
Forget(i) == Becomes(i, Idle)
=============================================================================
