------------------------------ MODULE MCIngest -------------------------------
(***************************************************************************)
(* A small instance of Ingest: two items of one CIK, which two instruments *)
(* hold in turn, and a rule about one of the instruments.                  *)
(***************************************************************************)
EXTENDS Ingest

OneCik == [i \in Items |-> "cik"]

OfOne == {"any"} \X {"k1"} \X Items

==============================================================================
