------------------------------ MODULE Freshness ------------------------------
(***************************************************************************)
(* The row of trade_source_status and the pure rules on it, from           *)
(* server/domain/source-status.js.  No variables: SourceStatus and         *)
(* Recording both run these rules inside their transactions.               *)
(*                                                                         *)
(* Times are naturals; Never (0) is the NULL of last_success_at and of     *)
(* stale_after_sec, so no success happens at time 0.  name, the notes, the *)
(* upstream status and stale_since are shown, never decided on: left out.  *)
(***************************************************************************)
EXTENDS Naturals

CONSTANT DefaultWindow          \* TRADE_DEFAULT_STALE_AFTER_SEC

ASSUME DefaultWindowAssumption == DefaultWindow \in Nat \ {0}

Never == 0

Row == [known: BOOLEAN, last: Nat, window: Nat, stale: BOOLEAN, evaluated: BOOLEAN]

\* What a SELECT finds before anything was written about the source.
Absent == [known |-> FALSE, last |-> Never, window |-> Never,
           stale |-> TRUE, evaluated |-> FALSE]

\* INSERT ... ON CONFLICT DO NOTHING, with stale = 1 and evaluated_at NULL.
Ensure(row) == [row EXCEPT !.known = TRUE]

\* Fault: the time of the last report or retrieval wins, even an older one.
ForwardOverwrites(row, at) == [row EXCEPT !.last = IF at = Never THEN @ ELSE at]

\* last_success_at only moves forward.
Forward(row, at) == [row EXCEPT !.last = IF at > @ THEN at ELSE @]

\* The UPDATE of report(): a NULL (Never) leaves the column as it is.
Reported(row, at, window) ==
  [Forward(row, at) EXCEPT !.window = IF window = Never THEN @ ELSE window]

\* fresh.verdict of the ingest chassis: fresh only within the window of a known success.
StaleAt(row, now) ==
  row.last = Never
    \/ now >= row.last + (IF row.window = Never THEN DefaultWindow ELSE row.window)

\* What evaluate() emits when the row it read gets verdict v.
Emission(row, v) ==
  IF (IF row.evaluated THEN v = row.stale ELSE ~v)
    THEN "none"
    ELSE IF v THEN "stale" ELSE "recovered"

\* The events one evaluation adds to the outbox.
Emitted(row, v) == IF Emission(row, v) = "none" THEN << >> ELSE <<Emission(row, v)>>

\* The columns `mark` writes; the others keep the value they have by then.
Marked(row, v) == [row EXCEPT !.known = TRUE, !.stale = v, !.evaluated = TRUE]

==============================================================================
