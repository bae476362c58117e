-------------------------- MODULE SourceStatusProofs -------------------------
(***************************************************************************)
(* What SourceStatus guarantees for any sources, sessions and pool: its    *)
(* types, and that a success is never forgotten.                           *)
(***************************************************************************)
EXTENDS SourceStatus, TLAPS

(* The rules of Freshness *)

\* A retrieval, a report's columns and a mark leave a row a row.
LEMMA RowTypes ==
  ASSUME NEW row \in Row, NEW at \in Nat, NEW v \in BOOLEAN
  PROVE  /\ Ensure(row) \in Row
         /\ Forward(row, at) \in Row
         /\ Marked(row, v) \in Row
         /\ [row EXCEPT !.last = at] \in Row
  BY DEF Row, Ensure, Forward, Marked

\* The verdict is a Boolean whatever the row and the time (source-status.js, verdict).
LEMMA VerdictType ==
  ASSUME NEW row \in Row, NEW t \in Nat
  PROVE  StaleAt(row, t) \in BOOLEAN
  BY DEF StaleAt

\* An evaluation adds stale or recovered events, or none, to the outbox.
LEMMA EmittedType ==
  ASSUME NEW row \in Row, NEW v \in BOOLEAN
  PROVE  Emitted(row, v) \in Seq({"stale", "recovered"})
<1>1. Emission(row, v) = "none" \/ Emission(row, v) \in {"stale", "recovered"}
  BY DEF Emission
<1>2. CASE Emission(row, v) = "none"
  BY <1>2 DEF Emitted
<1>3. CASE Emission(row, v) # "none"
  BY <1>1, <1>3 DEF Emitted
<1> QED
  BY <1>2, <1>3

\* Forward and a report never take last_success_at back (source-status.js, retrieval, report).
LEMMA ForwardGrows ==
  ASSUME NEW row \in Row, NEW at \in Nat, NEW w \in Nat
  PROVE  /\ Forward(row, at).last >= row.last
         /\ Reported(row, at, w).last >= row.last
         /\ Reported(row, at, w) \in Row
<1>1. Forward(row, at) \in Row /\ Forward(row, at).last >= row.last
  BY DEF Row, Forward
<1>2. ASSUME NEW f \in Row, f.last >= row.last,
             NEW x, x = [f EXCEPT !.window = IF w = Never THEN @ ELSE w]
      PROVE  x \in Row /\ x.last >= row.last
  BY <1>2 DEF Row, Never
<1> QED
  BY <1>1, <1>2 DEF Reported

\* What a transaction reads after its own UPDATE has the flags that were committed.
LEMMA FlagsKept ==
  ASSUME NEW row \in Row, NEW at \in Nat, NEW w \in Nat
  PROVE  /\ Ensure(row).last = row.last
         /\ Ensure(row).stale = row.stale /\ Ensure(row).evaluated = row.evaluated
         /\ Forward(row, at).stale = row.stale /\ Forward(row, at).evaluated = row.evaluated
         /\ Reported(row, at, w).stale = row.stale
         /\ Reported(row, at, w).evaluated = row.evaluated
  BY DEF Row, Ensure, Forward, Reported

------------------------------------------------------------------------------
(* The transactions *)

\* The states a process starts from are well-typed.
LEMMA ConstantTypes == Absent \in Row /\ Closed \in TxRow /\ ~Closed.open
  BY DEF Absent, Row, Never, Closed, TxRow

\* What p commits is a row (mark).
LEMMA SettledType ==
  ASSUME TypeOK, NEW p \in Procs, tx[p].key \in Sources
  PROVE  Settled(p) \in Row
<1>1. (IF tx[p].holds THEN tx[p].row ELSE status[tx[p].key]) \in Row /\ tx[p].verdict \in BOOLEAN
  BY DEF TypeOK, TxRow
<1> QED
  BY <1>1, RowTypes, Zenon DEF Settled

\* A transaction that opens is well-typed.
LEMMA BeginType ==
  ASSUME TypeOK, NEW p \in Procs, NEW k \in Sources, NEW row \in Row, NEW h \in BOOLEAN,
         Begin(p, k, row, h)
  PROVE  /\ tx' \in [Procs -> TxRow]
         /\ tx'[p] = [open |-> TRUE, key |-> k, holds |-> h, row |-> row,
                      verdict |-> StaleAt(row, now)]
         /\ \A q \in Procs \ {p} : tx'[q] = tx[q]
<1> DEFINE t == [open |-> TRUE, key |-> k, holds |-> h, row |-> row,
                 verdict |-> StaleAt(row, now)]
<1>1. now \in Nat
  BY SourceStatusAssumption DEF TypeOK
<1>2. t \in TxRow
  BY <1>1, VerdictType DEF TxRow
<1>3. tx' = [tx EXCEPT ![p] = t]
  BY DEF Begin
<1> HIDE DEF t
<1>4. tx' \in [Procs -> TxRow] /\ tx'[p] = t /\ \A q \in Procs \ {p} : tx'[q] = tx[q]
  BY <1>2, <1>3 DEF TypeOK
<1> QED
  BY <1>4 DEF t

\* Whatever opens, opens with a row it read: the committed one, with what its own UPDATE did to
\* it.  A new success is only ever in a row that is locked (noteRetrieval, report).
LEMMA Opens ==
  ASSUME TypeOK, Next
  PROVE  \/ \E p \in Procs, k \in Sources, row \in Row, h \in BOOLEAN :
              /\ Begin(p, k, row, h)
              /\ row.last >= status[k].last
              /\ row.stale = status[k].stale /\ row.evaluated = status[k].evaluated
         \/ \E p \in Procs : Finish(p) \/ Abort(p)
         \/ Advance
<1>1. CASE \E p \in Procs, k \in Sources : Tick(p, k)
  <2>1. PICK p \in Procs, k \in Sources : Begin(p, k, status[k], FALSE)
    BY <1>1 DEF Tick
  <2>2. status[k] \in Row /\ status[k].last >= status[k].last
    BY DEF TypeOK, Row
  <2> QED
    BY <2>1, <2>2
<1>2. CASE \E p \in Sessions, k \in Sources, at \in 1 .. now : NoteRetrieval(p, k, at)
  <2>1. PICK p \in Sessions, k \in Sources, at \in 1 .. now : NoteRetrieval(p, k, at)
    BY <1>2
  <2> DEFINE row == Forward(Ensure(status[k]), at)
             h == ~status[k].known \/ at > Ensure(status[k]).last
  <2>2. at \in Nat /\ status[k] \in Row /\ p \in Procs
    BY <2>1 DEF TypeOK, Procs
  <2>3. Ensure(status[k]) \in Row /\ row \in Row
    BY <2>2, RowTypes
  <2>4. row.last >= status[k].last /\ row.stale = status[k].stale
          /\ row.evaluated = status[k].evaluated
    <3>1. Ensure(status[k]).last = status[k].last
            /\ Ensure(status[k]).stale = status[k].stale
            /\ Ensure(status[k]).evaluated = status[k].evaluated
      BY <2>2, FlagsKept
    <3>2. row.last >= Ensure(status[k]).last
      BY <2>2, <2>3, ForwardGrows
    <3>3. row.stale = Ensure(status[k]).stale /\ row.evaluated = Ensure(status[k]).evaluated
      BY <2>2, <2>3, FlagsKept
    <3> QED
      BY <3>1, <3>2, <3>3
  <2>5. h \in BOOLEAN /\ Begin(p, k, row, h)
    BY <2>1 DEF NoteRetrieval
  <2> HIDE DEF row, h
  <2> QED
    BY <2>2, <2>3, <2>4, <2>5
<1>3. CASE \E p \in Sessions, k \in Sources, at \in 0 .. now, w \in Windows : Report(p, k, at, w)
  <2>1. PICK p \in Sessions, k \in Sources, at \in 0 .. now, w \in Windows : Report(p, k, at, w)
    BY <1>3
  <2> DEFINE row == Reported(Ensure(status[k]), at, w)
  <2>2. at \in Nat /\ w \in Nat /\ status[k] \in Row /\ p \in Procs
    BY <2>1, SourceStatusAssumption DEF TypeOK, Procs
  <2>3. Ensure(status[k]) \in Row
    BY <2>2, RowTypes
  <2>4. row \in Row /\ row.last >= Ensure(status[k]).last
    BY <2>2, <2>3, ForwardGrows
  <2>5. row.stale = status[k].stale /\ row.evaluated = status[k].evaluated
          /\ Ensure(status[k]).last = status[k].last
    BY <2>2, <2>3, FlagsKept
  <2>6. Begin(p, k, row, TRUE)
    BY <2>1 DEF Report
  <2> HIDE DEF row
  <2> QED
    BY <2>2, <2>4, <2>5, <2>6
<1> QED
  BY <1>1, <1>2, <1>3 DEF Next

------------------------------------------------------------------------------

\* What an open transaction is about is a source.
KeyOfOpen == \A p \in Procs : tx[p].open => tx[p].key \in Sources

\* Every action keeps every variable in its type, and open transactions about sources.
LEMMA TypeStep == TypeOK /\ KeyOfOpen /\ [Next]_vars => TypeOK' /\ KeyOfOpen'
<1> SUFFICES ASSUME TypeOK, KeyOfOpen, [Next]_vars PROVE TypeOK' /\ KeyOfOpen'
  OBVIOUS
<1>1. CASE \E p \in Procs, k \in Sources, row \in Row, h \in BOOLEAN : Begin(p, k, row, h)
  <2>1. PICK p \in Procs, k \in Sources, row \in Row, h \in BOOLEAN : Begin(p, k, row, h)
    BY <1>1
  <2>2. /\ tx' \in [Procs -> TxRow]
        /\ tx'[p].key = k
        /\ \A q \in Procs \ {p} : tx'[q] = tx[q]
    <3>1. /\ tx' \in [Procs -> TxRow]
          /\ tx'[p] = [open |-> TRUE, key |-> k, holds |-> h, row |-> row,
                       verdict |-> StaleAt(row, now)]
          /\ \A q \in Procs \ {p} : tx'[q] = tx[q]
      BY <2>1, BeginType, Zenon
    <3> QED
      BY <3>1
  <2>3. UNCHANGED <<now, status, events>>
    BY <2>1 DEF Begin
  <2>4. TypeOK'
    BY <2>2, <2>3 DEF TypeOK
  <2>5. KeyOfOpen'
    BY <2>2 DEF KeyOfOpen
  <2> QED
    BY <2>4, <2>5
<1>2. ASSUME NEW p \in Procs, Finish(p) PROVE TypeOK' /\ KeyOfOpen'
  <2>1. tx[p].key \in Sources /\ Settled(p) \in Row
    BY <1>2, SettledType DEF Finish, KeyOfOpen
  <2>2. tx' = [tx EXCEPT ![p] = Closed]
    BY <1>2 DEF Finish
  <2>3. tx' \in [Procs -> TxRow] /\ KeyOfOpen'
    BY <2>2, ConstantTypes DEF TypeOK, KeyOfOpen, Closed
  <2>4. status' \in [Sources -> Row]
    BY <1>2, <2>1 DEF Finish, TypeOK
  <2>5. tx[p].row \in Row /\ tx[p].verdict \in BOOLEAN
    BY DEF TypeOK, TxRow
  <2>6. Emitted(tx[p].row, tx[p].verdict) \in Seq({"stale", "recovered"})
    BY <2>5, EmittedType
  <2>7. events' = [events EXCEPT ![tx[p].key] = @ \o Emitted(tx[p].row, tx[p].verdict)]
    BY <1>2 DEF Finish
  <2> DEFINE s == Emitted(tx[p].row, tx[p].verdict)
  <2> HIDE DEF s
  <2>8. events' \in [Sources -> Seq({"stale", "recovered"})]
    BY <2>1, <2>6, <2>7 DEF TypeOK, s
  <2>9. now' = now
    BY <1>2 DEF Finish
  <2> QED
    BY <2>3, <2>4, <2>8, <2>9 DEF TypeOK
<1>3. ASSUME NEW p \in Procs, Abort(p) PROVE TypeOK' /\ KeyOfOpen'
  BY <1>3, ConstantTypes DEF Abort, TypeOK, KeyOfOpen, Closed
<1>4. CASE Advance
  BY <1>4, SourceStatusAssumption DEF Advance, TypeOK, KeyOfOpen
<1>5. CASE UNCHANGED vars
  BY <1>5 DEF vars, TypeOK, KeyOfOpen
<1>6. CASE Next
  <2>1. \/ \E p \in Procs, k \in Sources, row \in Row, h \in BOOLEAN : Begin(p, k, row, h)
        \/ \E p \in Procs : Finish(p) \/ Abort(p)
        \/ Advance
    BY <1>6, Opens, Zenon
  <2> QED
    BY <2>1, <1>1, <1>2, <1>3, <1>4
<1> QED
  BY <1>5, <1>6

\* The empty table, at the first instant.
LEMMA InitType == Init => TypeOK /\ KeyOfOpen
<1> SUFFICES ASSUME Init PROVE TypeOK /\ KeyOfOpen
  OBVIOUS
<1>1. TypeOK
  BY ConstantTypes, SourceStatusAssumption DEF Init, TypeOK
<1>2. KeyOfOpen
  BY ConstantTypes DEF Init, KeyOfOpen
<1> QED
  BY <1>1, <1>2

\* Every variable keeps its type, for any sources, sessions, pool and windows
\* (trade_source_status, source-status.js).
THEOREM TypeCorrect == Spec => []TypeOK
<1>1. Spec => [](TypeOK /\ KeyOfOpen)
  BY InitType, TypeStep, PTL DEF Spec
<1> QED
  BY <1>1, PTL

------------------------------------------------------------------------------
(* A success is never forgotten. *)

\* Whoever locked a row has, in the row it will write, every success committed so far.
HoldersUpToDate ==
  \A p \in Procs : tx[p].open /\ tx[p].holds => tx[p].row.last >= status[tx[p].key].last

\* One row is locked by one transaction.
HoldersExclude ==
  \A p, q \in Procs :
    p # q /\ tx[p].open /\ tx[q].open /\ tx[p].holds /\ tx[q].holds => tx[p].key # tx[q].key

LockInv == TypeOK /\ KeyOfOpen /\ HoldersUpToDate /\ HoldersExclude

\* What p commits has at least the success its source's row has (mark).
LEMMA SettledGrows ==
  ASSUME LockInv, NEW p \in Procs, tx[p].open
  PROVE  Settled(p).last >= status[tx[p].key].last
<1>1. tx[p].key \in Sources /\ tx[p] \in TxRow
  BY DEF LockInv, KeyOfOpen, TypeOK
<1>2. status[tx[p].key] \in Row /\ tx[p].row \in Row /\ tx[p].verdict \in BOOLEAN
  BY <1>1 DEF LockInv, TypeOK, TxRow
<1>3. ASSUME NEW row \in Row, NEW v \in BOOLEAN PROVE Marked(row, v).last = row.last
  BY DEF Row, Marked
<1>4. CASE tx[p].holds
  BY <1>2, <1>3, <1>4 DEF Settled, LockInv, HoldersUpToDate
<1>5. CASE ~tx[p].holds
  <2>1. status[tx[p].key].last \in Nat
    BY <1>2 DEF Row
  <2> QED
    BY <1>2, <1>3, <1>5, <2>1 DEF Settled
<1> QED
  BY <1>4, <1>5

\* The locks stay exclusive, and whoever has one stays up to date.
LEMMA LockStep == LockInv /\ [Next]_vars => LockInv'
<1> SUFFICES ASSUME LockInv, [Next]_vars PROVE LockInv'
  OBVIOUS
<1>0. TypeOK' /\ KeyOfOpen'
  BY TypeStep DEF LockInv
<1>1. CASE \E p \in Procs, k \in Sources, row \in Row, h \in BOOLEAN :
             Begin(p, k, row, h) /\ row.last >= status[k].last
  <2>1. PICK p \in Procs, k \in Sources, row \in Row, h \in BOOLEAN :
               Begin(p, k, row, h) /\ row.last >= status[k].last
    BY <1>1
  <2>2. /\ tx'[p] = [open |-> TRUE, key |-> k, holds |-> h, row |-> row,
                     verdict |-> StaleAt(row, now)]
        /\ \A q \in Procs \ {p} : tx'[q] = tx[q]
    BY <2>1, BeginType, Zenon DEF LockInv
  <2>3. tx'[p].key = k /\ tx'[p].holds = h /\ tx'[p].row = row
    BY <2>2
  <2>4. status' = status /\ (h => Unlocked(k, p))
    BY <2>1 DEF Begin
  <2>5. HoldersUpToDate'
    BY <2>1, <2>2, <2>3, <2>4 DEF LockInv, HoldersUpToDate
  <2>6. HoldersExclude'
    BY <2>2, <2>3, <2>4 DEF LockInv, HoldersExclude, Unlocked
  <2> QED
    BY <1>0, <2>5, <2>6 DEF LockInv
<1>2. ASSUME NEW p \in Procs, Finish(p) PROVE LockInv'
  <2>1. tx[p].open /\ Unlocked(tx[p].key, p) /\ tx' = [tx EXCEPT ![p] = Closed]
          /\ status' = [status EXCEPT ![tx[p].key] = Settled(p)]
    BY <1>2 DEF Finish
  <2>2. ~tx'[p].open /\ \A q \in Procs \ {p} : tx'[q] = tx[q]
    BY <2>1, ConstantTypes DEF LockInv, TypeOK
  <2>3. \A q \in Procs \ {p} : tx[q].open /\ tx[q].holds => status'[tx[q].key] = status[tx[q].key]
    BY <2>1 DEF LockInv, TypeOK, KeyOfOpen, Unlocked
  <2>4. HoldersUpToDate'
    BY <2>2, <2>3 DEF LockInv, HoldersUpToDate
  <2>5. HoldersExclude'
    BY <2>2 DEF LockInv, HoldersExclude
  <2> QED
    BY <1>0, <2>4, <2>5 DEF LockInv
<1>3. ASSUME NEW p \in Procs, Abort(p) PROVE LockInv'
  <2>1. status' = status /\ ~tx'[p].open /\ \A q \in Procs \ {p} : tx'[q] = tx[q]
    BY <1>3, ConstantTypes DEF Abort, LockInv, TypeOK
  <2> QED
    BY <1>0, <2>1 DEF LockInv, HoldersUpToDate, HoldersExclude
<1>4. CASE Advance
  BY <1>0, <1>4 DEF Advance, LockInv, HoldersUpToDate, HoldersExclude
<1>5. CASE UNCHANGED vars
  BY <1>0, <1>5 DEF vars, LockInv, HoldersUpToDate, HoldersExclude
<1>6. CASE Next
  <2>1. \/ \E p \in Procs, k \in Sources, row \in Row, h \in BOOLEAN :
             Begin(p, k, row, h) /\ row.last >= status[k].last
        \/ \E p \in Procs : Finish(p) \/ Abort(p)
        \/ Advance
    BY <1>6, Opens, Zenon DEF LockInv
  <2> QED
    BY <2>1, <1>1, <1>2, <1>3, <1>4
<1> QED
  BY <1>5, <1>6

\* Only a commit writes the table, and it takes no source's last success back.
LEMMA LastGrows ==
  LockInv /\ [Next]_vars => \A k \in Sources : status'[k].last >= status[k].last
<1> SUFFICES ASSUME LockInv, [Next]_vars, NEW k \in Sources
             PROVE  status'[k].last >= status[k].last
  OBVIOUS
<1>1. status[k].last \in Nat
  BY DEF LockInv, TypeOK, Row
<1>2. ASSUME NEW p \in Procs, Finish(p) PROVE status'[k].last >= status[k].last
  <2>1. tx[p].open /\ status' = [status EXCEPT ![tx[p].key] = Settled(p)]
    BY <1>2 DEF Finish
  <2>2. Settled(p).last >= status[tx[p].key].last
    BY <2>1, SettledGrows
  <2>3. status'[k] = IF k = tx[p].key THEN Settled(p) ELSE status[k]
    BY <2>1 DEF LockInv, TypeOK
  <2> QED
    BY <1>1, <2>2, <2>3
<1>3. CASE \E p \in Procs : Finish(p)
  BY <1>2, <1>3
<1>4. CASE status' = status
  BY <1>1, <1>4
<1>5. \/ \E p \in Procs : Finish(p)
      \/ status' = status
  <2>1. CASE Next
    <3>1. \/ \E p \in Procs, j \in Sources, row \in Row, h \in BOOLEAN : Begin(p, j, row, h)
          \/ \E p \in Procs : Finish(p) \/ Abort(p)
          \/ Advance
      BY <2>1, Opens, Zenon DEF LockInv
    <3> QED
      BY <3>1 DEF Begin, Abort, Advance
  <2>2. CASE UNCHANGED vars
    BY <2>2 DEF vars
  <2> QED
    BY <2>1, <2>2
<1> QED
  BY <1>3, <1>4, <1>5

\* Nothing is open, so nothing is locked.
LEMMA InitLocks == Init => LockInv
<1> SUFFICES ASSUME Init PROVE LockInv
  OBVIOUS
<1>1. \A p \in Procs : ~tx[p].open
  BY ConstantTypes DEF Init
<1> QED
  BY <1>1, InitType DEF LockInv, HoldersUpToDate, HoldersExclude

\* A success is never forgotten: last_success_at never goes back, in whatever order reports,
\* retrievals and ticks commit, in a pool of any size (report, retrieval, mark).
THEOREM NeverForgets == Spec => SuccessNeverForgotten
<1>1. Spec => []LockInv
  BY InitLocks, LockStep, PTL DEF Spec
<1>2. LockInv /\ [Next]_vars => [\A k \in Sources : status'[k].last >= status[k].last]_vars
  BY LastGrows
<1> QED
  BY <1>1, <1>2, PTL DEF Spec, SuccessNeverForgotten

==============================================================================
