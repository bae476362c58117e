---------------------------- MODULE MCRecording ------------------------------
(***************************************************************************)
(* Small instances of Recording: a price that one feed states, a rate that *)
(* two feeds state, and rules on them.                                     *)
(***************************************************************************)
EXTENDS Recording, TLC

Reading(source, ref, series, value, observed) ==
  [source |-> source, ref |-> ref, series |-> series, currency |-> "USD",
   value |-> value, observed |-> observed, retrieved |-> observed]

\* A price of one feed that crosses, dips and crosses again, its last reference reused for
\* another value; and a rate of both feeds.
PriceAndRate ==
  {Reading("feed", 1, "close", 12, 1), Reading("feed", 2, "close", 8, 2),
   Reading("feed", 3, "close", 15, 3), Reading("feed", 3, "rate", 16, 3),
   Reading("other", 1, "rate", 15, 2)}

\* A rate that two feeds state.
RateOfTwo ==
  {Reading("feed", 1, "rate", 12, 1), Reading("feed", 2, "rate", 8, 2),
   Reading("other", 1, "rate", 15, 2)}

Rule(series, op, currency) ==
  [owner |-> "alice", series |-> series, op |-> op, threshold |-> 10, currency |-> currency]

\* A rule on the price and one on the rate.
OneOnEach == [r \in Rules |-> Rule(IF r = "r1" THEN "close" ELSE "rate", "above", None)]

\* Two rules on the rate, on either side of the threshold.
TwoOnRate ==
  [r \in Rules |-> IF r = "r1" THEN Rule("rate", "above", "USD") ELSE Rule("rate", "below", None)]

\* The sessions are alike.
Alike == Permutations(Sessions)

==============================================================================
