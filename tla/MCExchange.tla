----------------------------- MODULE MCExchange -----------------------------
(* Exchange on a choice of bodies, see README.md. *)
EXTENDS Exchange, TLC

MCReads == {"eth_call"}
MCSends == {"eth_sendBundle"}

Make(methods, params, ids) ==
  [start |-> "object", json |-> TRUE, method |-> methods, params |-> params, id |-> ids]

Call(method, params, id) == Make(<<method>>, params, <<id>>)

Empty == [start |-> "junk", json |-> FALSE, method |-> <<>>, params |-> <<>>, id |-> <<>>]

MCBodies ==
  { Call("eth_call", <<<<2>>>>, "1"),
    Call("eth_call", <<<<4>>>>, "2"),
    Call("eth_call", <<<<5>>>>, "3"),
    Call("eth_call", <<>>, Null),
    Make(<<"eth_call">>, <<<<2>>, <<>>>>, <<"4">>),
    Make(<<"eth_call">>, <<<<2>>>>, <<"5", "6">>),
    Make(<<"eth_call", "eth_sendBundle">>, <<<<2>>>>, <<"7">>),
    Make(<<"eth_sendBundle", "eth_call">>, <<<<2>>>>, <<"8">>),
    Call("eth_sendBundle", <<>>, "9"),
    [Empty EXCEPT !.start = "object"],
    [Empty EXCEPT !.start = "array"],
    Empty }

Http(verb, path) == [verb |-> verb, path |-> path, body |-> Empty]

MCRequests ==
  {[verb |-> "POST", path |-> "/rpc", body |-> b] : b \in MCBodies}
  \cup {Http("GET", "/healthz"), Http("GET", "/metrics"), Http("OPTIONS", "/rpc"),
        Http("GET", "/favicon.ico")}

MCBuilds ==
  { [hedged |-> TRUE,  dedup |-> TRUE,  cors |-> TRUE],
    [hedged |-> FALSE, dedup |-> TRUE,  cors |-> FALSE] }

Symmetry == Permutations(Callers)
=============================================================================
