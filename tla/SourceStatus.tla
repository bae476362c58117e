----------------------------- MODULE SourceStatus ----------------------------
(***************************************************************************)
(* trade_source_status and its stale / recovered events                    *)
(* (server/domain/source-status.js): the periodic evaluation, the health   *)
(* Sources reports and the retrievals that recording proves, as concurrent *)
(* PostgreSQL transactions at READ COMMITTED.                              *)
(*                                                                         *)
(* A transaction has two visible steps.  It OPENS: its own UPDATE (report, *)
(* or a newer retrieval), which takes the row lock, then the SELECT of     *)
(* evaluate(), which takes none, then the verdict.  It FINISHES: `mark`    *)
(* waits for the row lock, writes, emits and commits.  Between the two the *)
(* row can change under a transaction that opened without the lock.        *)
(***************************************************************************)
EXTENDS Freshness, Sequences, FiniteSets

CONSTANTS
  Sources,     \* source keys
  Sessions,    \* database sessions of requests and of the sync
  Pool,        \* how many transactions may be open at once
  Windows,     \* the stale_after_sec values Sources reports (Never: none)
  MaxTime      \* bound on the clock

ASSUME SourceStatusAssumption ==
  /\ Pool \in Nat \ {0}
  /\ MaxTime \in Nat \ {0}
  /\ Windows \subseteq Nat
  /\ Sources \cap Sessions = {}

VARIABLES
  now,         \* store.now()
  status,      \* the committed rows
  events,      \* per source, the committed trade.source.* events in order
  tx           \* the open transactions

vars == <<now, status, events, tx>>

\* The worker's tick evaluates every source in a transaction of its own: source k's
\* evaluation is run by process k.
Procs == Sources \cup Sessions

Closed == [open |-> FALSE, key |-> "", holds |-> FALSE, row |-> Absent, verdict |-> TRUE]

TxRow == [open: BOOLEAN, key: Sources \cup {""}, holds: BOOLEAN, row: Row, verdict: BOOLEAN]

TypeOK ==
  /\ now \in 1 .. MaxTime
  /\ status \in [Sources -> Row]
  /\ events \in [Sources -> Seq({"stale", "recovered"})]
  /\ tx \in [Procs -> TxRow]

Init ==
  /\ now = 1
  /\ status = [k \in Sources |-> Absent]
  /\ events = [k \in Sources |-> << >>]
  /\ tx = [p \in Procs |-> Closed]

Open == {p \in Procs : tx[p].open}

\* No other transaction holds an uncommitted write to k's row.
Unlocked(k, p) == \A q \in Procs \ {p} : ~(tx[q].open /\ tx[q].holds /\ tx[q].key = k)

\* Fault: the verdict believes the stored flag, which starts and stays stale.
BeginSticky(p, k, row, holds) ==
  /\ ~tx[p].open
  /\ Cardinality(Open) < Pool
  /\ holds => Unlocked(k, p)
  /\ tx' = [tx EXCEPT ![p] = [open |-> TRUE, key |-> k, holds |-> holds, row |-> row,
                              verdict |-> row.stale \/ StaleAt(row, now)]]
  /\ UNCHANGED <<now, status, events>>

\* p has read `row`; `holds` says whether an UPDATE or INSERT of its own locked it.
Begin(p, k, row, holds) ==
  /\ ~tx[p].open
  /\ Cardinality(Open) < Pool
  /\ holds => Unlocked(k, p)
  /\ tx' = [tx EXCEPT ![p] = [open |-> TRUE, key |-> k, holds |-> holds, row |-> row,
                              verdict |-> StaleAt(row, now)]]
  /\ UNCHANGED <<now, status, events>>

\* Fault: only sources already stale are evaluated again.
TickOnlyStale(p, k) ==
  /\ p \in Sources => p = k
  /\ status[k].known /\ status[k].stale
  /\ Begin(p, k, status[k], FALSE)

\* evaluate(key) on its own: the tick, also when two ticks overlap.
Tick(p, k) ==
  /\ p \in Sources => p = k
  /\ status[k].known
  /\ Begin(p, k, status[k], FALSE)

\* noteRetrieval(key, at): the UPDATE locks the row only when it matches.
NoteRetrieval(p, k, at) ==
  LET row == Ensure(status[k]) IN
  Begin(p, k, Forward(row, at), ~status[k].known \/ at > row.last)

\* report(key, ...): always an UPDATE of the row.
Report(p, k, at, window) == Begin(p, k, Reported(Ensure(status[k]), at, window), TRUE)

\* What p commits on its source's row.
Settled(p) ==
  LET t == tx[p] IN Marked(IF t.holds THEN t.row ELSE status[t.key], t.verdict)

Finish(p) ==
  LET t == tx[p] IN
  /\ t.open
  /\ Unlocked(t.key, p)
  /\ status' = [status EXCEPT ![t.key] = Settled(p)]
  /\ events' = [events EXCEPT ![t.key] = @ \o Emitted(t.row, t.verdict)]
  /\ tx' = [tx EXCEPT ![p] = Closed]
  /\ UNCHANGED now

\* The transaction fails or the process dies: PostgreSQL forgets it.
Abort(p) ==
  /\ tx[p].open
  /\ tx' = [tx EXCEPT ![p] = Closed]
  /\ UNCHANGED <<now, status, events>>

Advance ==
  /\ now < MaxTime
  /\ now' = now + 1
  /\ UNCHANGED <<status, events, tx>>

Next ==
  \/ \E p \in Procs, k \in Sources : Tick(p, k)
  \/ \E p \in Sessions, k \in Sources, at \in 1 .. now : NoteRetrieval(p, k, at)
  \/ \E p \in Sessions, k \in Sources, at \in 0 .. now, w \in Windows :
       Report(p, k, at, w)
  \/ \E p \in Procs : Finish(p) \/ Abort(p)
  \/ Advance

\* setInterval runs the tick again and again, and an open transaction is not aborted
\* every time it is tried.
Fairness ==
  /\ \A k \in Sources : SF_vars(Tick(k, k)) /\ SF_vars(Finish(k))
  /\ \A p \in Sessions : SF_vars(Finish(p))

Spec == Init /\ [][Next]_vars

FairSpec == Spec /\ Fairness

------------------------------------------------------------------------------
(* Properties *)

\* A success is never forgotten: whatever the order in which a late page, a health report
\* and a tick commit, last_success_at never goes back (report, retrieval, mark).
SuccessNeverForgotten == [][\A k \in Sources : status'[k].last >= status[k].last]_vars

\* Data goes stale on its own: a source whose window has run out is marked stale by the
\* ticks alone, unless a newer success is recorded first (evaluateAll, freshnessTick).
AgesOut ==
  \A k \in Sources :
    (status[k].known /\ StaleAt(status[k], now))
      ~> (status[k].stale \/ ~StaleAt(status[k], now))

\* An outage that ended is noticed: from when a source stays fresh, its flag becomes fresh
\* too (report, noteRetrieval, evaluate).
Recovers ==
  \A k \in Sources :
    (status[k].known /\ ~StaleAt(status[k], now))
      ~> (~status[k].stale \/ StaleAt(status[k], now))

==============================================================================
