----------------------------- MODULE MCRanking -----------------------------
(* Bounds for Ranking: upstreams are interchangeable, and so are tasks. *)
EXTENDS Ranking, TLC

Interchangeable == Permutations(Upstreams) \cup Permutations(Tasks)
=============================================================================
