------------------------------ MODULE MCServing ------------------------------
(* Requests, pages and keys are interchangeable, and nothing is said of liveness. *)
EXTENDS Serving, TLC

Interchangeable == Permutations(Readers) \cup Permutations(Pages) \cup Permutations(Keys)

==============================================================================
