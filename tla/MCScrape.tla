------------------------------ MODULE MCScrape ------------------------------
(* Scrape with two upstreams and one method, see README.md. *)
EXTENDS Scrape, TLC

MCFleet   == <<"u1", "u2">>
MCOrders  == {<<"u1", "u2">>}
MCMethods == <<"eth_call">>

AnyChain == Permutations(Chains)
=============================================================================
