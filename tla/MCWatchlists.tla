----------------------------- MODULE MCWatchlists -----------------------------
(* Requests, ids and friends are interchangeable, and nothing is said of liveness. *)
EXTENDS Watchlists, TLC

Interchangeable == Permutations(Requests) \cup Permutations(Lists) \cup Permutations(Instruments)

==============================================================================
