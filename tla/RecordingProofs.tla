--------------------------- MODULE RecordingProofs ---------------------------
(***************************************************************************)
(* What Recording guarantees for any number of sessions, sources, inputs   *)
(* and rules: its types, that every observation and every delivery is      *)
(* there exactly once, that the row of a source keeps the success of each  *)
(* of its observations, that recordings wait in a circle only over rules   *)
(* of a series of several sources, and that a rule of one source never     *)
(* evaluates an older observation after a newer one and delivers on        *)
(* crossings.                                                              *)
(***************************************************************************)
EXTENDS Recording, Sequences, SequenceTheorems, FiniteSetTheorems, TLAPS

(* The rules of Freshness *)

\* A retrieval, a report's columns and a mark leave a row a row.
LEMMA RowTypes ==
  ASSUME NEW row \in Row, NEW at \in Nat, NEW v \in BOOLEAN
  PROVE  /\ Ensure(row) \in Row
         /\ Forward(row, at) \in Row
         /\ Marked(row, v) \in Row
         /\ [row EXCEPT !.last = at] \in Row
  BY DEF Row, Ensure, Forward, Marked

\* The verdict is a Boolean whatever the row and the time (source-status.js, verdict).
LEMMA VerdictType ==
  ASSUME NEW row \in Row, NEW t \in Nat
  PROVE  StaleAt(row, t) \in BOOLEAN
  BY DEF StaleAt

\* An evaluation adds stale or recovered events, or none, to the outbox.
LEMMA EmittedType ==
  ASSUME NEW row \in Row, NEW v \in BOOLEAN
  PROVE  Emitted(row, v) \in Seq({"stale", "recovered"})
<1>1. Emission(row, v) = "none" \/ Emission(row, v) \in {"stale", "recovered"}
  BY DEF Emission
<1>2. CASE Emission(row, v) = "none"
  BY <1>2 DEF Emitted
<1>3. CASE Emission(row, v) # "none"
  BY <1>1, <1>3 DEF Emitted
<1> QED
  BY <1>2, <1>3

------------------------------------------------------------------------------
(* The transactions *)

\* The states a transaction starts from are well-typed.
LEMMA ConstantTypes == Absent \in Row /\ Idle \in Tx
  BY DEF Absent, Row, Never, Idle, Tx, Stored

\* A session may go on to any well-typed transaction.
LEMMA SessionStep ==
  ASSUME NEW p \in Sessions, NEW t \in Tx, TypeOK, tx' = [tx EXCEPT ![p] = t],
         t.phase \in {"begun"} \cup Stored => t.input \in Inputs
  PROVE  /\ tx' \in [Sessions -> Tx]
         /\ \A q \in Sessions : tx'[q].phase \in {"begun"} \cup Stored => tx'[q].input \in Inputs
  BY DEF TypeOK

\* A recording that updates a rule keeps the rest of what it found out, and holds it.
LEMMA WritesOne ==
  ASSUME NEW p \in Sessions, tx[p] \in Tx, WriteRule(p)
  PROVE  \E t \in Tx :
           /\ tx' = [tx EXCEPT ![p] = t]
           /\ t.phase = "evaluated" /\ t.input = tx[p].input /\ t.holds = tx[p].holds
           /\ t.row = tx[p].row /\ t.looked = tx[p].looked /\ t.hits = tx[p].hits
           /\ t.wrote = tx[p].wrote \cup {tx[p].next} /\ tx[p].next \in Rules
           /\ t.next \in tx[p].looked \cup {None}
<1>1. /\ tx[p].phase = "evaluated" /\ tx[p].next \in Rules
      /\ tx[p].wrote \in SUBSET Rules /\ tx[p].looked \in SUBSET Rules
  BY DEF WriteRule, Tx
<1>2. PICK next \in Turns(tx[p].looked \ (tx[p].wrote \cup {tx[p].next})) :
        tx' = [tx EXCEPT ![p] = [tx[p] EXCEPT !.wrote = tx[p].wrote \cup {tx[p].next}, !.next = next]]
  BY DEF WriteRule
<1>3. next \in tx[p].looked \cup {None} /\ next \in Rules \cup {None}
  BY <1>1, <1>2 DEF Turns
<1>4. PICK wrote \in SUBSET Rules : wrote = tx[p].wrote \cup {tx[p].next}
  BY <1>1
<1> DEFINE t == [tx[p] EXCEPT !.wrote = wrote, !.next = next]
<1>5. /\ t \in Tx /\ t.phase = "evaluated" /\ t.input = tx[p].input /\ t.holds = tx[p].holds
      /\ t.row = tx[p].row /\ t.looked = tx[p].looked /\ t.hits = tx[p].hits
      /\ t.wrote = wrote /\ t.next = next
  BY <1>1, <1>3, <1>4 DEF Tx
<1>6. tx' = [tx EXCEPT ![p] = t]
  BY <1>2, <1>4
<1> HIDE DEF t
<1> QED
  BY <1>1, <1>3, <1>4, <1>5, <1>6

\* A transaction that has ended is in none of the phases of a recording.
LEMMA IdlePhase == Idle.phase \notin {"begun"} \cup Stored
  BY DEF Idle, Stored

------------------------------------------------------------------------------

\* Every action keeps every variable in its type.
LEMMA TypeStep == TypeOK /\ [Next]_vars => TypeOK'
<1> SUFFICES ASSUME TypeOK, [Next]_vars PROVE TypeOK'
  OBVIOUS
<1> USE RecordingAssumption, ConstantTypes
<1>0. now \in Nat
  BY DEF TypeOK
<1>1. ASSUME NEW p \in Sessions, NEW r \in Rules, CountRules(p, r) PROVE TypeOK'
  <2> DEFINE t == [Idle EXCEPT !.phase = "counted", !.rule = r, !.stamp = now]
  <2>1. t \in Tx /\ t.phase = "counted"
    BY <1>0 DEF Tx, Stored
  <2> HIDE DEF t
  <2>2. tx' = [tx EXCEPT ![p] = t]
    BY <1>1 DEF CountRules, t
  <2> QED
    BY <1>1, <2>1, <2>2, SessionStep DEF TypeOK, CountRules, store, Stored
<1>2. ASSUME NEW p \in Sessions, InsertRule(p) PROVE TypeOK'
  <2>1. tx[p] \in Tx
    BY DEF TypeOK
  <2>2. tx[p].stamp \in Nat
    BY <2>1 DEF Tx
  <2>3. rules' \in [Rules -> RuleRow]
    BY <1>2, <2>2 DEF TypeOK, InsertRule, RuleRow
  <2> QED
    BY <1>2, <2>3, IdlePhase, SessionStep DEF TypeOK, InsertRule
<1>3. ASSUME NEW r \in Rules, RemoveRule(r) PROVE TypeOK'
  BY <1>3 DEF TypeOK, RemoveRule, RuleRow
<1>4. ASSUME NEW p \in Sessions, NEW i \in Inputs, Begin(p, i) PROVE TypeOK'
  <2> DEFINE t == [Idle EXCEPT !.phase = "begun", !.input = i]
  <2>1. t \in Tx /\ t.input = i
    BY DEF Tx, Stored
  <2> HIDE DEF t
  <2>2. tx' = [tx EXCEPT ![p] = t]
    BY <1>4 DEF Begin, t
  <2> QED
    BY <1>4, <2>1, <2>2, SessionStep DEF TypeOK, Begin, store
<1>5. ASSUME NEW p \in Sessions, Insert(p) PROVE TypeOK'
  <2>1. tx[p] \in Tx
    BY DEF TypeOK
  <2> DEFINE t == [tx[p] EXCEPT !.phase = "inserted", !.stamp = now]
  <2>2. t \in Tx /\ t.input = tx[p].input
    BY <1>0, <2>1 DEF Tx, Stored
  <2>3. tx[p].input \in Inputs
    BY <1>5 DEF TypeOK, Insert, Stored
  <2> HIDE DEF t
  <2>4. \/ tx' = [tx EXCEPT ![p] = Idle]
        \/ tx' = [tx EXCEPT ![p] = t]
    BY <1>5 DEF Insert, t
  <2> QED
    BY <1>5, <2>2, <2>3, <2>4, IdlePhase, SessionStep DEF TypeOK, Insert, store
<1>6. ASSUME NEW p \in Sessions, NoteRetrieval(p) PROVE TypeOK'
  <2> DEFINE i == tx[p].input
             row == Forward(Ensure(status[i.source]), i.retrieved)
             news == IsNews(i)
  <2>1. tx[p] \in Tx /\ i \in Inputs
    BY <1>6 DEF TypeOK, NoteRetrieval, Stored
  <2>2. i.source \in Sources /\ i.retrieved \in Nat
    BY <2>1 DEF Input
  <2>3. row \in Row /\ news \in BOOLEAN
    BY <2>2, RowTypes DEF TypeOK, IsNews
  <2>4. StaleAt(row, now) \in BOOLEAN
    BY <2>3, VerdictType DEF TypeOK
  <2> HIDE DEF row, news
  <2>5. [tx[p] EXCEPT !.phase = "noted", !.holds = news, !.row = row,
                      !.verdict = StaleAt(row, now)] \in Tx
    BY <2>1, <2>3, <2>4 DEF Tx, Stored
  <2> QED
    BY <1>6, <2>1, <2>5 DEF TypeOK, NoteRetrieval, store, row, news
<1>7. ASSUME NEW p \in Sessions, MarkSource(p) PROVE TypeOK'
  <2> DEFINE t == tx[p]
             last == IF t.holds THEN t.row.last ELSE status[t.input.source].last
  <2>1. t \in Tx /\ t.input \in Inputs
    BY <1>7 DEF TypeOK, MarkSource, Stored
  <2>2. t.input.source \in Sources
    BY <2>1 DEF Input
  <2>3. t.row \in Row
    BY <2>1 DEF Tx
  <2>4. last \in Nat
    BY <2>2, <2>3 DEF TypeOK, Row
  <2>5. [t.row EXCEPT !.last = last] \in Row
    BY <2>3, <2>4, RowTypes
  <2> HIDE DEF last
  <2>6. [t EXCEPT !.phase = "marked", !.holds = TRUE, !.row = [t.row EXCEPT !.last = last]] \in Tx
    BY <2>1, <2>5 DEF Tx, Stored
  <2>7. tx' = [tx EXCEPT ![p] = [t EXCEPT !.phase = "marked", !.holds = TRUE,
                                          !.row = [t.row EXCEPT !.last = last]]]
    BY <1>7 DEF MarkSource, last
  <2> QED
    BY <1>7, <2>1, <2>6, <2>7 DEF TypeOK, MarkSource, store
<1>8. ASSUME NEW p \in Sessions, EvaluateRules(p) PROVE TypeOK'
  <2> DEFINE i == tx[p].input
             L == {r \in Rules : Applies(r, i, tx[p].stamp)}
             H == {r \in L : Meets(r, i) /\ rules[r].armed}
  <2>1. tx[p] \in Tx /\ i \in Inputs
    BY <1>8 DEF TypeOK, EvaluateRules, Stored
  <2>2. L \in SUBSET Rules /\ H \in SUBSET Rules
    OBVIOUS
  <2>t. PICK first \in Turns(L) :
          tx' = [tx EXCEPT ![p] = [tx[p] EXCEPT !.phase = "evaluated", !.looked = L,
                                                !.next = first, !.hits = H]]
    BY <1>8 DEF EvaluateRules
  <2> HIDE DEF L, H
  <2>f. first \in Rules \cup {None}
    BY <2>2 DEF Turns
  <2> DEFINE t == [tx[p] EXCEPT !.phase = "evaluated", !.looked = L, !.next = first, !.hits = H]
  <2>3. t \in Tx /\ t.input = i
    BY <2>1, <2>2, <2>f DEF Tx, Stored
  <2> HIDE DEF t
  <2>4. tx' = [tx EXCEPT ![p] = t]
    BY <2>t DEF t
  <2> QED
    BY <1>8, <2>1, <2>3, <2>4, SessionStep DEF TypeOK, EvaluateRules, store
<1>9. ASSUME NEW p \in Sessions, WriteRule(p) PROVE TypeOK'
  <2>1. tx[p] \in Tx /\ tx[p].input \in Inputs
    BY <1>9 DEF TypeOK, WriteRule, Stored
  <2>2. PICK t \in Tx : t.input = tx[p].input /\ tx' = [tx EXCEPT ![p] = t]
    BY <1>9, <2>1, WritesOne
  <2> QED
    BY <1>9, <2>1, <2>2, SessionStep DEF TypeOK, WriteRule, store
<1>10. ASSUME NEW p \in Sessions, Commit(p) PROVE TypeOK'
  <2> DEFINE t == tx[p]
             k == t.input.source
  <2>1. t \in Tx /\ t.input \in Inputs
    BY <1>10 DEF TypeOK, Commit, Stored
  <2>2. k \in Sources /\ t.input.observed \in Nat
    BY <2>1 DEF Input
  <2>3. t.row \in Row /\ t.verdict \in BOOLEAN /\ t.hits \subseteq Rules
    BY <2>1 DEF Tx
  <2>4. status' \in [Sources -> Row]
    BY <1>10, <2>2, <2>3, RowTypes DEF TypeOK, Commit
  <2>5. events' \in [Sources -> Seq({"stale", "recovered"})]
    <3>1. Emitted(t.row, t.verdict) \in Seq({"stale", "recovered"})
      BY <2>3, EmittedType
    <3>2. events[k] \in Seq({"stale", "recovered"})
      BY <2>2 DEF TypeOK
    <3>3. events[k] \o Emitted(t.row, t.verdict) \in Seq({"stale", "recovered"})
      BY <3>1, <3>2, ConcatProperties
    <3> QED
      BY <1>10, <2>2, <3>3 DEF TypeOK, Commit
  <2>6. rules' \in [Rules -> RuleRow]
    <3>1. ASSUME NEW r \in Rules
          PROVE  [rules[r] EXCEPT !.armed = ~Meets(r, t.input), !.last = t.input.observed] \in RuleRow
      BY <2>2 DEF TypeOK, RuleRow, Meets
    <3>2. \A r \in Rules : rules[r] \in RuleRow
      BY DEF TypeOK
    <3> QED
      BY <1>10, <3>1, <3>2 DEF Commit
  <2>7. NewDeliveries(t) \subseteq Rules \X Inputs
    BY <2>1, <2>3 DEF NewDeliveries
  <2>8. alerted' \in [Rules \X Inputs -> Nat]
    <3>1. \A d \in Rules \X Inputs : alerted[d] \in Nat
      BY DEF TypeOK
    <3>2. alerted' = [d \in Rules \X Inputs |->
                        IF d \in NewDeliveries(t) THEN alerted[d] + 1 ELSE alerted[d]]
      BY <1>10 DEF Commit
    <3> QED
      BY <3>1, <3>2
  <2>9. announced' \in [Inputs -> Nat] /\ observations' \subseteq Inputs
    <3>1. announced[t.input] + 1 \in Nat
      BY <2>1 DEF TypeOK
    <3> QED
      BY <1>10, <2>1, <3>1 DEF TypeOK, Commit
  <2>10. /\ tx' \in [Sessions -> Tx]
         /\ \A q \in Sessions : tx'[q].phase \in {"begun"} \cup Stored => tx'[q].input \in Inputs
    BY <1>10, IdlePhase, SessionStep DEF Commit
  <2> QED
    BY <1>10, <2>4, <2>5, <2>6, <2>7, <2>8, <2>9, <2>10 DEF TypeOK, Commit
<1>11. ASSUME NEW p \in Sessions, Abort(p) \/ BreakCircle(p) PROVE TypeOK'
  BY <1>11, IdlePhase, SessionStep DEF TypeOK, Abort, BreakCircle, store
<1>12. CASE Advance
  BY <1>12 DEF TypeOK, Advance, store
<1>13. CASE UNCHANGED vars
  BY <1>13 DEF TypeOK, vars
<1> QED
  BY <1>1, <1>2, <1>3, <1>4, <1>5, <1>6, <1>7, <1>8, <1>9, <1>10, <1>11, <1>12, <1>13
  DEF Next, Record

\* The empty database is well-typed.
LEMMA TypeInit == Init => TypeOK
<1>1. 1 \in 1 .. MaxTime
  BY RecordingAssumption
<1>2. << >> \in Seq({"stale", "recovered"})
  OBVIOUS
<1>3. \A r \in Rules :
        [state |-> "absent", created |-> 0, armed |-> TRUE, last |-> 0] \in RuleRow
  BY DEF RuleRow
<1> QED
  BY <1>1, <1>2, <1>3, ConstantTypes, IdlePhase DEF Init, TypeOK

\* Every variable keeps its type, and an open recording has an input (record).
THEOREM TypeCorrect == Spec => []TypeOK
  BY TypeInit, TypeStep, PTL DEF Spec

------------------------------------------------------------------------------

\* The locks exclude what they are there to exclude, whatever the interleaving.
LEMMA ExclusiveStep == TypeOK /\ Exclusive /\ [Next]_vars => Exclusive'
<1> SUFFICES ASSUME TypeOK, Exclusive, [Next]_vars PROVE Exclusive'
  OBVIOUS
<1> USE DEF Exclusive, RefExclusive, SourceExclusive
<1>1. ASSUME NEW p \in Sessions, NEW t, tx' = [tx EXCEPT ![p] = t],
             t.phase \notin Stored, t.phase = "begun" => ~t.holds, UNCHANGED observations
      PROVE  Exclusive'
  <2>1. tx'[p] = t /\ \A q \in Sessions \ {p} : tx'[q] = tx[q]
    BY <1>1 DEF TypeOK
  <2> QED
    BY <1>1, <2>1 DEF Stored
<1>2. ASSUME NEW p \in Sessions, NEW t, tx' = [tx EXCEPT ![p] = t], UNCHANGED observations,
             tx[p].phase \in Stored, t.phase \in Stored, t.input = tx[p].input,
             t.phase \in {"marked", "evaluated"} => t.holds,
             t.holds => tx[p].holds \/ Unlocked(t.input.source, p)
      PROVE  Exclusive'
  <2>1. tx'[p] = t /\ \A q \in Sessions \ {p} : tx'[q] = tx[q]
    BY <1>2 DEF TypeOK
  <2>2. RefExclusive'
    BY <1>2, <2>1
  <2>3. SourceExclusive'
    BY <1>2, <2>1 DEF Unlocked, SourceHeld, Stored
  <2> QED
    BY <2>2, <2>3
<1>3. CASE UNCHANGED <<tx, observations>>
  BY <1>3
<1>4. ASSUME NEW p \in Sessions, NEW r \in Rules, CountRules(p, r) PROVE Exclusive'
  <2> DEFINE t == [Idle EXCEPT !.phase = "counted", !.rule = r, !.stamp = now]
  <2>1. t.phase = "counted"
    BY DEF Idle
  <2> HIDE DEF t
  <2> QED
    BY <1>1, <1>4, <2>1 DEF CountRules, store, Stored, t
<1>5. ASSUME NEW p \in Sessions, InsertRule(p) \/ Abort(p) \/ BreakCircle(p) PROVE Exclusive'
  BY <1>1, <1>5, IdlePhase DEF InsertRule, Abort, BreakCircle, store
<1>6. ASSUME NEW p \in Sessions, NEW i \in Inputs, Begin(p, i) PROVE Exclusive'
  <2> DEFINE t == [Idle EXCEPT !.phase = "begun", !.input = i]
  <2>1. t.phase = "begun" /\ ~t.holds
    BY DEF Idle
  <2> HIDE DEF t
  <2> QED
    BY <1>1, <1>6, <2>1 DEF Begin, store, Stored, t
<1>7. ASSUME NEW p \in Sessions, Insert(p) PROVE Exclusive'
  <2>1. CASE \E o \in observations : SameRef(o, tx[p].input)
    BY <1>1, <1>7, <2>1, IdlePhase DEF Insert, store
  <2>2. CASE ~\E o \in observations : SameRef(o, tx[p].input)
    <3> DEFINE t == [tx[p] EXCEPT !.phase = "inserted", !.stamp = now]
    <3>1. t.phase = "inserted" /\ t.input = tx[p].input /\ t.holds = tx[p].holds
      BY DEF TypeOK, Tx
    <3>2. tx[p].phase = "begun"
      BY <1>7 DEF Insert
    <3> HIDE DEF t
    <3>3. tx' = [tx EXCEPT ![p] = t] /\ UNCHANGED observations
      BY <1>7, <2>2 DEF Insert, store, t
    <3>4. tx'[p] = t /\ \A q \in Sessions \ {p} : tx'[q] = tx[q]
      BY <3>3 DEF TypeOK
    <3>5. RefExclusive'
      BY <1>7, <2>2, <3>1, <3>3, <3>4 DEF Insert, RefFree, RefHeld, SameRef
    <3>6. SourceExclusive'
      BY <3>1, <3>2, <3>4 DEF Stored
    <3> QED
      BY <3>5, <3>6
  <2> QED
    BY <2>1, <2>2
<1>8. ASSUME NEW p \in Sessions, NoteRetrieval(p) PROVE Exclusive'
  <2>1. PICK h, row, v :
          /\ tx' = [tx EXCEPT ![p] = [tx[p] EXCEPT !.phase = "noted", !.holds = h, !.row = row,
                                                   !.verdict = v]]
          /\ h => Unlocked(tx[p].input.source, p)
    BY <1>8 DEF NoteRetrieval
  <2>3. tx[p].phase = "inserted" /\ UNCHANGED observations
    BY <1>8 DEF NoteRetrieval, store
  <2> DEFINE t == [tx[p] EXCEPT !.phase = "noted", !.holds = h, !.row = row, !.verdict = v]
  <2>2. t.phase = "noted" /\ t.input = tx[p].input /\ t.holds = h
    BY DEF TypeOK, Tx
  <2> HIDE DEF t
  <2> QED
    BY <1>2, <2>1, <2>2, <2>3 DEF Stored, t
<1>9. ASSUME NEW p \in Sessions, MarkSource(p) PROVE Exclusive'
  <2>1. PICK row : tx' = [tx EXCEPT ![p] = [tx[p] EXCEPT !.phase = "marked", !.holds = TRUE,
                                                         !.row = row]]
    BY <1>9 DEF MarkSource
  <2>u. Unlocked(tx[p].input.source, p) /\ tx[p].phase = "noted" /\ UNCHANGED observations
    BY <1>9 DEF MarkSource, store
  <2> DEFINE t == [tx[p] EXCEPT !.phase = "marked", !.holds = TRUE, !.row = row]
  <2>2. t.phase = "marked" /\ t.input = tx[p].input /\ t.holds = TRUE
    BY DEF TypeOK, Tx
  <2> HIDE DEF t
  <2> QED
    BY <1>2, <2>1, <2>2, <2>u DEF Stored, t
<1>10. ASSUME NEW p \in Sessions, EvaluateRules(p) PROVE Exclusive'
  <2>1. PICK L, H, n : tx' = [tx EXCEPT ![p] = [tx[p] EXCEPT !.phase = "evaluated", !.looked = L,
                                                             !.next = n, !.hits = H]]
    BY <1>10 DEF EvaluateRules
  <2> DEFINE t == [tx[p] EXCEPT !.phase = "evaluated", !.looked = L, !.next = n, !.hits = H]
  <2>2. t.phase = "evaluated" /\ t.input = tx[p].input /\ t.holds = tx[p].holds
    BY DEF TypeOK, Tx
  <2> HIDE DEF t
  <2> QED
    BY <1>2, <1>10, <2>1, <2>2 DEF EvaluateRules, store, Stored, t
<1>11. ASSUME NEW p \in Sessions, WriteRule(p) PROVE Exclusive'
  <2>1. PICK t : /\ tx' = [tx EXCEPT ![p] = t]
                 /\ t.phase = "evaluated" /\ t.input = tx[p].input /\ t.holds = tx[p].holds
    BY <1>11, WritesOne DEF TypeOK
  <2>2. tx[p].phase = "evaluated" /\ UNCHANGED observations
    BY <1>11 DEF WriteRule, store
  <2> QED
    BY <1>2, <2>1, <2>2 DEF Stored
<1>12. ASSUME NEW p \in Sessions, Commit(p) PROVE Exclusive'
  <2>1. tx'[p] = Idle /\ \A q \in Sessions \ {p} : tx'[q] = tx[q]
    BY <1>12 DEF TypeOK, Commit
  <2>2. observations' = observations \cup {tx[p].input} /\ tx[p].phase \in Stored
    BY <1>12 DEF Commit, Stored
  <2>3. RefExclusive'
    BY <2>1, <2>2, IdlePhase
  <2>4. SourceExclusive'
    BY <2>1, IdlePhase DEF Stored
  <2> QED
    BY <2>3, <2>4
<1> QED
  BY <1>3, <1>4, <1>5, <1>6, <1>7, <1>8, <1>9, <1>10, <1>11, <1>12
  DEF Next, Record, RemoveRule, Advance, vars, store

\* Nothing is on record and nothing is open at the start.
LEMMA ExclusiveInit == Init => Exclusive
  BY IdlePhase DEF Init, Exclusive, RefExclusive, SourceExclusive, Stored

\* A commit adds one observation nobody recorded before, and its deliveries with their events.
LEMMA ExactlyOnceStep == TypeOK /\ Exclusive /\ ExactlyOnce /\ [Next]_vars => ExactlyOnce'
<1> SUFFICES ASSUME TypeOK, Exclusive, ExactlyOnce, [Next]_vars PROVE ExactlyOnce'
  OBVIOUS
<1>1. ASSUME NEW p \in Sessions, Commit(p) PROVE ExactlyOnce'
  <2> DEFINE i == tx[p].input
             N == NewDeliveries(tx[p])
  <2>1. i \in Inputs /\ \A o \in observations : ~SameRef(o, i)
    BY <1>1 DEF TypeOK, Commit, Stored, Exclusive, RefExclusive
  <2>2. i \notin observations
    BY <2>1 DEF SameRef
  <2>3. observations' = observations \cup {i} /\ deliveries' = deliveries \cup N
    BY <1>1 DEF Commit
  <2>4. \A x, y \in observations' : SameRef(x, y) => x = y
    BY <2>1, <2>3 DEF ExactlyOnce, SameRef
  <2>5. \A x \in Inputs : announced'[x] = IF x \in observations' THEN 1 ELSE 0
    <3>1. announced' = [announced EXCEPT ![i] = announced[i] + 1]
      BY <1>1 DEF Commit
    <3>2. announced \in [Inputs -> Nat] /\ announced[i] = 0
      BY <2>1, <2>2 DEF ExactlyOnce, TypeOK
    <3> HIDE DEF i
    <3> QED
      BY <2>1, <2>3, <3>1, <3>2 DEF ExactlyOnce
  <2>6. \A d \in N : d \in Rules \X Inputs /\ d[2] = i /\ d \notin deliveries
    BY <2>1 DEF NewDeliveries, TypeOK, Tx
  <2>7. ASSUME NEW r \in Rules, NEW x \in Inputs
        PROVE  alerted'[<<r, x>>] = IF <<r, x>> \in deliveries' THEN 1 ELSE 0
    <3>1. <<r, x>> \in Rules \X Inputs
      OBVIOUS
    <3>2. alerted'[<<r, x>>] = IF <<r, x>> \in N THEN alerted[<<r, x>>] + 1 ELSE alerted[<<r, x>>]
      BY <1>1, <3>1 DEF Commit
    <3>3. alerted[<<r, x>>] = IF <<r, x>> \in deliveries THEN 1 ELSE 0
      BY DEF ExactlyOnce
    <3> HIDE DEF N
    <3> QED
      BY <2>3, <2>6, <3>2, <3>3
  <2>8. \A d \in deliveries' : d[2] \in observations'
    BY <2>3, <2>6 DEF ExactlyOnce
  <2> QED
    BY <2>4, <2>5, <2>7, <2>8 DEF ExactlyOnce
<1>2. CASE UNCHANGED <<observations, announced, deliveries, alerted>>
  BY <1>2 DEF ExactlyOnce
<1> QED
  BY <1>1, <1>2
  DEF Next, Record, vars, store, CountRules, InsertRule, RemoveRule, Begin, Insert, NoteRetrieval,
      MarkSource, EvaluateRules, WriteRule, Abort, BreakCircle, Advance

\* Whatever is replayed, retried or raced, an observation is on record and announced once,
\* and a delivery has exactly one event (observations.record, alerts.deliver).
THEOREM RecordedExactlyOnce == Spec => []ExactlyOnce
<1>1. Init => ExactlyOnce
  BY DEF Init, ExactlyOnce
<1>2. Init => TypeOK /\ Exclusive /\ ExactlyOnce
  BY <1>1, ExclusiveInit, TypeInit
<1>3. TypeOK /\ Exclusive /\ ExactlyOnce /\ [Next]_vars => (TypeOK /\ Exclusive /\ ExactlyOnce)'
  BY TypeStep, ExclusiveStep, ExactlyOnceStep
<1> QED
  BY <1>2, <1>3, PTL DEF Spec

\* References and source rows are exclusive to one open transaction (record, noteRetrieval).
THEOREM LocksExclude == Spec => []Exclusive
<1>1. Init => TypeOK /\ Exclusive
  BY ExclusiveInit, TypeInit
<1>2. TypeOK /\ Exclusive /\ [Next]_vars => (TypeOK /\ Exclusive)'
  BY TypeStep, ExclusiveStep
<1> QED
  BY <1>1, <1>2, PTL DEF Spec

------------------------------------------------------------------------------
(* The source's row: what a recording carries until it commits *)

\* The retrieval of every observation on record counts as a success of its source: the status
\* row is no older, whoever wrote it last (record, noteRetrieval).
RetrievalsKept ==
  \A o \in observations : status[o.source].known /\ o.retrieved <= status[o.source].last

\* A success that a recording put on record is never taken back by another (mark).
SourcesForward ==
  [][\A k \in Sources :
       status[k].known => status'[k].known /\ status'[k].last >= status[k].last]_vars

\* The retrieval of t is in the row it wrote, which is no older than the committed one; or t wrote
\* none since the committed one has it.
Carries(t) ==
  LET k == t.input.source IN
  /\ t.row.known
  /\ IF t.holds THEN status[k].last <= t.row.last /\ t.input.retrieved <= t.row.last
                ELSE status[k].known /\ t.input.retrieved <= status[k].last

RowsCarry ==
  \A p \in Sessions : tx[p].phase \in {"noted", "marked", "evaluated"} => Carries(tx[p])

\* A recording has no row of its source before it notes the retrieval.
InsertedFresh == \A p \in Sessions : tx[p].phase = "inserted" => ~tx[p].holds

SourceInv == TypeOK /\ Exclusive /\ InsertedFresh /\ RowsCarry /\ RetrievalsKept

\* A step of one session that commits nothing.
LEMMA CarriesOn ==
  ASSUME SourceInv, NEW p \in Sessions, NEW t, tx' = [tx EXCEPT ![p] = t],
         UNCHANGED <<status, observations>>,
         t.phase = "inserted" => ~t.holds,
         t.phase \in {"noted", "marked", "evaluated"} => Carries(t)
  PROVE  InsertedFresh' /\ RowsCarry' /\ RetrievalsKept'
<1>1. tx'[p] = t /\ \A q \in Sessions \ {p} : tx'[q] = tx[q]
  BY DEF SourceInv, TypeOK
<1>2. InsertedFresh'
  BY <1>1 DEF SourceInv, InsertedFresh
<1>3. ASSUME NEW q \in Sessions, tx'[q].phase \in {"noted", "marked", "evaluated"}
      PROVE  Carries(tx[q])'
  BY <1>1, <1>3 DEF SourceInv, RowsCarry, Carries
<1>4. RowsCarry'
  BY <1>3 DEF RowsCarry
<1>5. RetrievalsKept'
  BY DEF SourceInv, RetrievalsKept
<1> QED
  BY <1>2, <1>4, <1>5

\* What noteRetrieval reads and writes, and `mark` after it, has the retrieval.
LEMMA NoteCarries ==
  ASSUME SourceInv, NEW p \in Sessions, NoteRetrieval(p)
  PROVE  InsertedFresh' /\ RowsCarry' /\ RetrievalsKept'
<1> DEFINE i == tx[p].input
           old == status[i.source]
           news == IsNews(i)
           row == Forward(Ensure(old), i.retrieved)
           t == [tx[p] EXCEPT !.phase = "noted", !.holds = news, !.row = row,
                              !.verdict = StaleAt(row, now)]
<1>1. tx[p] \in Tx /\ i \in Input /\ old \in Row
  BY RecordingAssumption DEF SourceInv, TypeOK, NoteRetrieval, Stored, Input
<1>2. i.retrieved \in Nat /\ old.last \in Nat
  BY <1>1 DEF Input, Row
<1>3. row.known /\ old.last <= row.last /\ i.retrieved <= row.last
  BY <1>1, <1>2 DEF Forward, Ensure, Row
<1>4. tx' = [tx EXCEPT ![p] = t] /\ UNCHANGED <<status, observations>>
  BY DEF NoteRetrieval, store
<1> HIDE DEF row
<1>5. t.phase = "noted" /\ t.holds = news /\ t.row = row /\ t.input = i
  BY <1>1 DEF Tx
<1> HIDE DEF t
<1>6. Carries(t)
  <2>1. CASE news
    BY <1>3, <1>5, <2>1 DEF Carries
  <2>2. CASE ~news
    <3>1. ~t.holds /\ t.row.known
      BY <1>3, <1>5, <2>2
    <3>2. old.known /\ i.retrieved <= old.last
      BY <1>2, <2>2 DEF IsNews
    <3> QED
      BY <1>5, <3>1, <3>2 DEF Carries
  <2> QED
    BY <2>1, <2>2
<1> QED
  BY <1>4, <1>5, <1>6, CarriesOn

\* `mark` keeps the newest success it finds, its own or one committed since it read the row.
LEMMA MarkCarries ==
  ASSUME SourceInv, NEW p \in Sessions, MarkSource(p)
  PROVE  InsertedFresh' /\ RowsCarry' /\ RetrievalsKept'
<1> DEFINE k == tx[p].input.source
           last == IF tx[p].holds THEN tx[p].row.last ELSE status[k].last
           t == [tx[p] EXCEPT !.phase = "marked", !.holds = TRUE,
                              !.row = [tx[p].row EXCEPT !.last = last]]
<1>1. tx[p] \in Tx /\ tx[p].row \in Row /\ k \in Sources /\ status[k] \in Row
  BY RecordingAssumption DEF SourceInv, TypeOK, MarkSource, Stored, Input, Tx
<1>2. tx[p].phase = "noted" /\ tx' = [tx EXCEPT ![p] = t] /\ UNCHANGED <<status, observations>>
  BY DEF MarkSource, store
<1>3. Carries(tx[p]) /\ tx[p].row.known
  BY <1>2 DEF SourceInv, RowsCarry, Carries
<1> HIDE DEF last
<1>4. t.phase = "marked" /\ t.holds /\ t.input = tx[p].input /\ t.row.last = last /\ t.row.known
  BY <1>1, <1>3 DEF Tx, Row
<1>5. Carries(t)
  BY <1>1, <1>3, <1>4 DEF Carries, Row, last
<1> HIDE DEF t
<1> QED
  BY <1>2, <1>4, <1>5, CarriesOn

\* Statements that write nothing of the row.
LEMMA OthersCarry ==
  ASSUME SourceInv, NEW p \in Sessions, EvaluateRules(p) \/ WriteRule(p)
  PROVE  InsertedFresh' /\ RowsCarry' /\ RetrievalsKept'
<1>1. tx[p].phase \in {"marked", "evaluated"} /\ UNCHANGED <<status, observations>>
  BY DEF EvaluateRules, WriteRule, store
<1>2. PICK t : /\ tx' = [tx EXCEPT ![p] = t]
               /\ t.phase = "evaluated"
               /\ t.input = tx[p].input /\ t.holds = tx[p].holds /\ t.row = tx[p].row
  <2>1. tx[p] \in Tx
    BY DEF SourceInv, TypeOK
  <2>2. CASE EvaluateRules(p)
    <3>1. PICK L, H, n : tx' = [tx EXCEPT ![p] = [tx[p] EXCEPT !.phase = "evaluated", !.looked = L,
                                                               !.next = n, !.hits = H]]
      BY <2>2 DEF EvaluateRules
    <3> DEFINE t == [tx[p] EXCEPT !.phase = "evaluated", !.looked = L, !.next = n, !.hits = H]
    <3>2. /\ t.phase = "evaluated"
          /\ t.input = tx[p].input /\ t.holds = tx[p].holds /\ t.row = tx[p].row
      BY <2>1 DEF Tx
    <3> HIDE DEF t
    <3> QED
      BY <3>1, <3>2 DEF t
  <2>3. CASE WriteRule(p)
    BY <2>1, <2>3, WritesOne
  <2> QED
    BY <2>2, <2>3
<1>3. Carries(t)
  BY <1>1, <1>2 DEF SourceInv, RowsCarry, Carries
<1> QED
  BY <1>1, <1>2, <1>3, CarriesOn

\* A commit makes the row it carried the source's, which is no older; nobody else has that row, and
\* whoever found it had his retrieval still does.
LEMMA CommitCarries ==
  ASSUME SourceInv, NEW p \in Sessions, Commit(p)
  PROVE  /\ InsertedFresh' /\ RowsCarry' /\ RetrievalsKept'
         /\ \A k \in Sources :
              status[k].known => status'[k].known /\ status'[k].last >= status[k].last
<1> DEFINE k == tx[p].input.source
<1>1. tx[p] \in Tx /\ tx[p].row \in Row /\ k \in Sources /\ status \in [Sources -> Row]
  BY RecordingAssumption DEF SourceInv, TypeOK, Commit, Stored, Input, Tx
<1>2. tx[p].phase = "evaluated" /\ tx[p].holds
  BY DEF Commit, SourceInv, Exclusive, SourceExclusive
<1>3. Carries(tx[p])
  BY <1>2 DEF SourceInv, RowsCarry
<1>4. tx'[p] = Idle /\ \A q \in Sessions \ {p} : tx'[q] = tx[q]
  BY DEF SourceInv, TypeOK, Commit
<1>5. /\ status'[k].known /\ status'[k].last = tx[p].row.last
      /\ \A j \in Sources \ {k} : status'[j] = status[j]
  BY <1>1 DEF Commit, Marked, Row
<1>6. tx[p].row.last \in Nat /\ \A j \in Sources : status[j].last \in Nat
  BY <1>1 DEF Row
<1>7. \A j \in Sources : /\ status[j].known => status'[j].known
                         /\ status[j].last <= status'[j].last /\ status'[j].last \in Nat
  BY <1>2, <1>3, <1>5, <1>6 DEF Carries
<1>8. InsertedFresh'
  BY <1>4, IdlePhase DEF SourceInv, InsertedFresh, Stored
<1>9. ASSUME NEW q \in Sessions, tx'[q].phase \in {"noted", "marked", "evaluated"}
      PROVE  Carries(tx[q])'
  <2>1. q # p /\ tx'[q] = tx[q]
    BY <1>4, <1>9, IdlePhase DEF Stored
  <2>2. Carries(tx[q]) /\ tx[q].input \in Input
    BY <1>9, <2>1, RecordingAssumption DEF SourceInv, RowsCarry, TypeOK, Stored
  <2>3. tx[q].input.source \in Sources /\ tx[q].input.retrieved \in Nat
    BY <2>2 DEF Input
  <2>4. CASE tx[q].holds
    <3>1. tx[q].input.source # k
      BY <1>2, <1>9, <2>1, <2>4 DEF SourceInv, Exclusive, SourceExclusive, Stored
    <3> QED
      BY <1>5, <2>1, <2>2, <2>3, <2>4, <3>1 DEF Carries
  <2>5. CASE ~tx[q].holds
    <3>1. /\ tx[q].row.known /\ status'[tx[q].input.source].known
          /\ tx[q].input.retrieved <= status'[tx[q].input.source].last
      BY <1>6, <1>7, <2>2, <2>3, <2>5 DEF Carries
    <3> QED
      BY <2>1, <2>5, <3>1 DEF Carries
  <2> QED
    BY <2>4, <2>5
<1>10. RowsCarry'
  BY <1>9 DEF RowsCarry
<1>11. ASSUME NEW o \in observations'
       PROVE  status'[o.source].known /\ o.retrieved <= status'[o.source].last
  <2>1. o \in observations \/ o = tx[p].input
    BY <1>11 DEF Commit
  <2>2. CASE o = tx[p].input
    BY <1>2, <1>3, <1>5, <2>2 DEF Carries
  <2>3. CASE o \in observations
    <3>1. o.source \in Sources /\ o.retrieved \in Nat
      BY <2>3, RecordingAssumption DEF SourceInv, TypeOK, Input
    <3> QED
      BY <1>6, <1>7, <2>3, <3>1 DEF SourceInv, RetrievalsKept
  <2> QED
    BY <2>1, <2>2, <2>3
<1>12. RetrievalsKept'
  BY <1>11 DEF RetrievalsKept
<1> QED
  BY <1>6, <1>7, <1>8, <1>10, <1>12

\* The rows a recording carries are never behind what is on record.
LEMMA AlwaysSourceInv == Spec => []SourceInv
<1>1. Init => InsertedFresh /\ RowsCarry /\ RetrievalsKept
  BY IdlePhase DEF Init, InsertedFresh, RowsCarry, RetrievalsKept, Stored
<1>2. SourceInv /\ [Next]_vars => InsertedFresh' /\ RowsCarry' /\ RetrievalsKept'
  <2> SUFFICES ASSUME SourceInv, [Next]_vars PROVE InsertedFresh' /\ RowsCarry' /\ RetrievalsKept'
    OBVIOUS
  <2>1. CASE UNCHANGED <<status, observations, tx>>
    BY <2>1 DEF SourceInv, InsertedFresh, RowsCarry, Carries, RetrievalsKept
  <2>2. ASSUME NEW p \in Sessions, NEW r \in Rules, CountRules(p, r)
        PROVE  InsertedFresh' /\ RowsCarry' /\ RetrievalsKept'
    <3> DEFINE t == [Idle EXCEPT !.phase = "counted", !.rule = r, !.stamp = now]
    <3>1. t.phase = "counted"
      BY DEF Idle
    <3>2. tx' = [tx EXCEPT ![p] = t] /\ UNCHANGED <<status, observations>>
      BY <2>2 DEF CountRules, store
    <3> HIDE DEF t
    <3> QED
      BY <3>1, <3>2, CarriesOn
  <2>3. ASSUME NEW p \in Sessions, InsertRule(p) \/ Abort(p) \/ BreakCircle(p)
        PROVE  InsertedFresh' /\ RowsCarry' /\ RetrievalsKept'
    <3>1. tx' = [tx EXCEPT ![p] = Idle] /\ UNCHANGED <<status, observations>>
      BY <2>3 DEF InsertRule, Abort, BreakCircle, store
    <3> QED
      BY <3>1, IdlePhase, CarriesOn DEF Stored
  <2>4. ASSUME NEW p \in Sessions, NEW i \in Inputs, Begin(p, i)
        PROVE  InsertedFresh' /\ RowsCarry' /\ RetrievalsKept'
    <3> DEFINE t == [Idle EXCEPT !.phase = "begun", !.input = i]
    <3>1. t.phase = "begun"
      BY DEF Idle
    <3>2. tx' = [tx EXCEPT ![p] = t] /\ UNCHANGED <<status, observations>>
      BY <2>4 DEF Begin, store
    <3> HIDE DEF t
    <3> QED
      BY <3>1, <3>2, CarriesOn
  <2>5. ASSUME NEW p \in Sessions, Insert(p)
        PROVE  InsertedFresh' /\ RowsCarry' /\ RetrievalsKept'
    <3> DEFINE t == [tx[p] EXCEPT !.phase = "inserted", !.stamp = now]
    <3>1. tx[p].phase = "begun" /\ ~tx[p].holds /\ UNCHANGED <<status, observations>>
      BY <2>5 DEF Insert, SourceInv, Exclusive, SourceExclusive, store
    <3>2. t.phase = "inserted" /\ t.holds = tx[p].holds
      BY DEF SourceInv, TypeOK, Tx
    <3>3. \/ tx' = [tx EXCEPT ![p] = Idle]
          \/ tx' = [tx EXCEPT ![p] = t]
      BY <2>5 DEF Insert
    <3> HIDE DEF t
    <3> QED
      BY <3>1, <3>2, <3>3, IdlePhase, CarriesOn DEF Stored
  <2> QED
    BY <2>1, <2>2, <2>3, <2>4, <2>5, NoteCarries, MarkCarries, OthersCarry, CommitCarries
    DEF Next, Record, RemoveRule, Advance, vars, store
<1>3. TypeOK /\ Exclusive /\ InsertedFresh /\ RowsCarry /\ RetrievalsKept <=> SourceInv
  BY DEF SourceInv
<1> QED
  BY <1>1, <1>2, <1>3, TypeCorrect, LocksExclude, PTL DEF Spec

\* Whatever a source's recordings overtake, abort or race, its success is as late as the
\* retrieval of each of its observations on record (record, noteRetrieval).
THEOREM RetrievalsCounted == Spec => []RetrievalsKept
<1>1. SourceInv => RetrievalsKept
  BY DEF SourceInv
<1> QED
  BY <1>1, AlwaysSourceInv, PTL

\* And no recording takes a later success back, though it may have read the row before that one
\* committed (mark).
THEOREM SuccessesKept == Spec => SourcesForward
<1>1. SourceInv /\ [Next]_vars =>
        \A k \in Sources : status[k].known => status'[k].known /\ status'[k].last >= status[k].last
  <2> SUFFICES ASSUME SourceInv, [Next]_vars, NEW k \in Sources, status[k].known
               PROVE  status'[k].known /\ status'[k].last >= status[k].last
    OBVIOUS
  <2>1. CASE UNCHANGED status
    BY <2>1 DEF SourceInv, TypeOK, Row
  <2> QED
    BY <2>1, CommitCarries
    DEF Next, Record, vars, store, CountRules, InsertRule, RemoveRule, Begin, Insert, NoteRetrieval,
        MarkSource, EvaluateRules, WriteRule, Abort, BreakCircle, Advance
<1> QED
  BY <1>1, AlwaysSourceInv, PTL DEF Spec, SourcesForward

------------------------------------------------------------------------------
(* The rules a recording looks at, and waiting for them *)

\* Transaction t updates rules it looked at, which are of its observation's series, and holds none
\* before it has looked.
Looks(t) ==
  /\ t.phase # "evaluated" => t.wrote = {}
  /\ t.phase = "evaluated" =>
       /\ t.wrote \subseteq t.looked /\ t.hits \subseteq t.looked
       /\ t.next \in t.looked \cup {None}
       /\ \A r \in t.looked : r \in Rules /\ RuleSpec[r].series = t.input.series

AllLook == \A p \in Sessions : Looks(tx[p])

LEMMA LooksOn ==
  ASSUME TypeOK, AllLook, NEW p \in Sessions, NEW t, tx' = [tx EXCEPT ![p] = t], Looks(t)
  PROVE  AllLook'
<1>1. tx'[p] = t /\ \A q \in Sessions \ {p} : tx'[q] = tx[q]
  BY DEF TypeOK
<1> QED
  BY <1>1 DEF AllLook, Looks

\* Every step keeps it: a rule's series is its own (onObservation).
LEMMA LookStep == TypeOK /\ AllLook /\ [Next]_vars => AllLook'
<1> SUFFICES ASSUME TypeOK, AllLook, [Next]_vars PROVE AllLook'
  OBVIOUS
<1>0. Looks(Idle)
  BY DEF Looks, Idle
<1>1. CASE UNCHANGED tx
  BY <1>1 DEF AllLook, Looks
<1>2. ASSUME NEW p \in Sessions, NEW r \in Rules, CountRules(p, r) PROVE AllLook'
  <2> DEFINE t == [Idle EXCEPT !.phase = "counted", !.rule = r, !.stamp = now]
  <2>1. Looks(t)
    BY DEF Looks, Idle
  <2>2. tx' = [tx EXCEPT ![p] = t]
    BY <1>2 DEF CountRules
  <2> HIDE DEF t
  <2> QED
    BY <2>1, <2>2, LooksOn
<1>3. ASSUME NEW p \in Sessions, NEW i \in Inputs, Begin(p, i) PROVE AllLook'
  <2> DEFINE t == [Idle EXCEPT !.phase = "begun", !.input = i]
  <2>1. Looks(t)
    BY DEF Looks, Idle
  <2>2. tx' = [tx EXCEPT ![p] = t]
    BY <1>3 DEF Begin
  <2> HIDE DEF t
  <2> QED
    BY <2>1, <2>2, LooksOn
<1>4. ASSUME NEW p \in Sessions, InsertRule(p) \/ Abort(p) \/ BreakCircle(p) \/ Commit(p)
      PROVE  AllLook'
  BY <1>0, <1>4, LooksOn DEF InsertRule, Abort, BreakCircle, Commit
<1>5. ASSUME NEW p \in Sessions, Insert(p) \/ NoteRetrieval(p) \/ MarkSource(p) PROVE AllLook'
  <2>1. tx[p] \in Tx /\ tx[p].phase # "evaluated" /\ Looks(tx[p])
    BY <1>5 DEF Insert, NoteRetrieval, MarkSource, TypeOK, AllLook
  <2>2. tx[p].wrote = {}
    BY <2>1 DEF Looks
  <2>3. CASE Insert(p)
    <3> DEFINE t == [tx[p] EXCEPT !.phase = "inserted", !.stamp = now]
    <3>1. Looks(t)
      BY <2>1, <2>2 DEF Looks, Tx
    <3>2. tx' = [tx EXCEPT ![p] = Idle] \/ tx' = [tx EXCEPT ![p] = t]
      BY <2>3 DEF Insert
    <3> HIDE DEF t
    <3> QED
      BY <1>0, <3>1, <3>2, LooksOn
  <2>4. CASE NoteRetrieval(p)
    <3>1. PICK h, row, v :
            tx' = [tx EXCEPT ![p] = [tx[p] EXCEPT !.phase = "noted", !.holds = h, !.row = row,
                                                  !.verdict = v]]
      BY <2>4 DEF NoteRetrieval
    <3> DEFINE t == [tx[p] EXCEPT !.phase = "noted", !.holds = h, !.row = row, !.verdict = v]
    <3>2. Looks(t)
      BY <2>1, <2>2 DEF Looks, Tx
    <3> HIDE DEF t
    <3> QED
      BY <3>1, <3>2, LooksOn DEF t
  <2>5. CASE MarkSource(p)
    <3>1. PICK row : tx' = [tx EXCEPT ![p] = [tx[p] EXCEPT !.phase = "marked", !.holds = TRUE,
                                                           !.row = row]]
      BY <2>5 DEF MarkSource
    <3> DEFINE t == [tx[p] EXCEPT !.phase = "marked", !.holds = TRUE, !.row = row]
    <3>2. Looks(t)
      BY <2>1, <2>2 DEF Looks, Tx
    <3> HIDE DEF t
    <3> QED
      BY <3>1, <3>2, LooksOn DEF t
  <2> QED
    BY <1>5, <2>3, <2>4, <2>5
<1>6. ASSUME NEW p \in Sessions, EvaluateRules(p) PROVE AllLook'
  <2> DEFINE i == tx[p].input
             L == {r \in Rules : Applies(r, i, tx[p].stamp)}
             H == {r \in L : Meets(r, i) /\ rules[r].armed}
  <2>1. tx[p] \in Tx /\ tx[p].phase = "marked" /\ Looks(tx[p])
    BY <1>6 DEF EvaluateRules, TypeOK, AllLook
  <2>2. PICK first \in Turns(L) :
          tx' = [tx EXCEPT ![p] = [tx[p] EXCEPT !.phase = "evaluated", !.looked = L,
                                                !.next = first, !.hits = H]]
    BY <1>6 DEF EvaluateRules
  <2>3. H \subseteq L /\ \A r \in L : r \in Rules /\ RuleSpec[r].series = i.series
    BY DEF Applies
  <2> HIDE DEF L, H
  <2>4. first \in L \cup {None}
    BY <2>2 DEF Turns
  <2> DEFINE t == [tx[p] EXCEPT !.phase = "evaluated", !.looked = L, !.next = first, !.hits = H]
  <2>5. /\ t.phase = "evaluated" /\ t.looked = L /\ t.hits = H /\ t.next = first /\ t.input = i
        /\ t.wrote = {}
    BY <2>1 DEF Tx, Looks
  <2> HIDE DEF t
  <2>6. Looks(t)
    BY <2>3, <2>4, <2>5 DEF Looks
  <2> QED
    BY <2>2, <2>6, LooksOn DEF t
<1>7. ASSUME NEW p \in Sessions, WriteRule(p) PROVE AllLook'
  <2>1. tx[p] \in Tx /\ tx[p].phase = "evaluated" /\ Looks(tx[p]) /\ tx[p].next # None
    BY <1>7 DEF WriteRule, TypeOK, AllLook
  <2>2. PICK t : /\ tx' = [tx EXCEPT ![p] = t]
                 /\ t.phase = "evaluated" /\ t.input = tx[p].input
                 /\ t.looked = tx[p].looked /\ t.hits = tx[p].hits
                 /\ t.wrote = tx[p].wrote \cup {tx[p].next}
                 /\ t.next \in tx[p].looked \cup {None}
    BY <1>7, <2>1, WritesOne
  <2>3. Looks(t)
    BY <2>1, <2>2 DEF Looks
  <2> QED
    BY <2>2, <2>3, LooksOn
<1> QED
  BY <1>1, <1>2, <1>3, <1>4, <1>5, <1>6, <1>7
  DEF Next, Record, RemoveRule, Advance, vars, store

LEMMA LookInit == Init => AllLook
  BY DEF Init, AllLook, Looks, Idle

\* The rules a transaction looked at are of its observation's series, always (onObservation).
LEMMA AlwaysLook == Spec => []AllLook
  BY LookInit, LookStep, TypeCorrect, PTL DEF Spec

\* However many recordings of however many sources wait for one another's references, rows and
\* rules: they do so in a circle only over the rules of one series that several sources state
\* (record: a reference, then the source, then the rules one by one).
THEOREM NoCircleOfOneSource == Spec => []CirclesOfSeveralSources
<1>1. SourceInv /\ AllLook => CirclesOfSeveralSources
  <2> SUFFICES ASSUME SourceInv, AllLook, NEW S \in SUBSET Sessions, Circle(S), NEW p \in S
               PROVE  /\ tx[p].phase = "evaluated"
                      /\ \E q \in S : /\ tx[q].input.series = tx[p].input.series
                                     /\ tx[q].input.source # tx[p].input.source
    BY DEF CirclesOfSeveralSources
  <2>1. \A q \in S : /\ q \in Sessions
                     /\ \E s \in S : WaitsFor(q, s)
                     /\ \E s \in S : WaitsFor(s, q)
    BY DEF Circle
  <2>2. \A q \in S : tx[q].phase # "begun"
    \* Nobody waits for one that has inserted nothing.
    <3> SUFFICES ASSUME NEW q \in S, tx[q].phase = "begun" PROVE FALSE
      OBVIOUS
    <3>1. PICK s \in S : WaitsFor(s, q)
      BY <2>1
    <3> QED
      BY <2>1, <3>1 DEF WaitsFor, RefHeld, SourceHeld, RuleHeld, Stored, AllLook, Looks
  <2>3. \A q \in S : tx[q].phase \notin {"inserted", "noted"}
    \* Only one that wrote its source's row is waited for, and that one does not wait for the row.
    <3> SUFFICES ASSUME NEW q \in S, tx[q].phase \in {"inserted", "noted"} PROVE FALSE
      OBVIOUS
    <3>1. PICK s \in S : WaitsFor(s, q)
      BY <2>1
    <3>2. tx[q].holds
      <4>1. SourceHeld(tx[s].input.source, q) \/ RuleHeld(tx[s].next, q)
        BY <2>2, <3>1 DEF WaitsFor
      <4> QED
        BY <2>1, <4>1 DEF SourceHeld, RuleHeld, AllLook, Looks
    <3>3. tx[q].phase = "noted"
      BY <2>1, <3>2 DEF SourceInv, InsertedFresh
    <3>4. PICK u \in S : WaitsFor(q, u)
      BY <2>1
    <3>5. u # q /\ SourceHeld(tx[q].input.source, u)
      BY <3>3, <3>4 DEF WaitsFor
    <3> QED
      BY <2>1, <3>2, <3>3, <3>5 DEF SourceHeld, SourceInv, Exclusive, SourceExclusive, Stored
  <2>4. \A q \in S : tx[q].phase = "evaluated"
    BY <2>1, <2>2, <2>3 DEF WaitsFor
  <2>5. PICK q \in S : q # p /\ tx[p].next # None /\ tx[p].next \in tx[q].wrote
    <3>1. PICK q \in S : WaitsFor(p, q)
      BY <2>1
    <3> QED
      BY <2>4, <3>1 DEF WaitsFor, RuleHeld
  <2>6. Looks(tx[p]) /\ Looks(tx[q])
    BY <2>1 DEF AllLook
  <2>7. tx[q].input.series = tx[p].input.series
    BY <2>4, <2>5, <2>6 DEF Looks
  <2>8. tx[q].input.source # tx[p].input.source
    BY <2>1, <2>4, <2>5 DEF SourceInv, Exclusive, SourceExclusive, Stored
  <2> QED
    BY <2>4, <2>7, <2>8
<1> QED
  BY <1>1, AlwaysSourceInv, AlwaysLook, PTL

------------------------------------------------------------------------------

\* The source's lock makes a transaction's view of a rule of that one source last until it
\* commits: whoever else could move the rule would have to hold the lock too.
LEMMA StableStep == TypeOK /\ Exclusive /\ AllLook /\ EvaluationStable /\ [Next]_vars
                      => EvaluationStable'
<1> SUFFICES ASSUME TypeOK, Exclusive, AllLook, EvaluationStable, [Next]_vars
             PROVE  EvaluationStable'
  OBVIOUS
<1> DEFINE Deciding == {"evaluated"}
           Own(t) == t.looked \cap OfOneSource
           RulesKept(R) == \A r \in R : /\ rules'[r].armed = rules[r].armed
                                        /\ rules'[r].last = rules[r].last
           Decided(t) == \A r \in Own(t) : StillTrue(t, r)
<1>1. ASSUME NEW q \in Sessions, tx[q].phase \in Deciding
      PROVE  Own(tx[q]) \subseteq Rules /\ Decided(tx[q])
  BY <1>1 DEF EvaluationStable, TypeOK, Tx, OfOneSource
<1>2. ASSUME NEW t, Decided(t), RulesKept(Own(t))
      PROVE  \A r \in Own(t) :
               /\ rules'[r].last < t.input.observed
               /\ r \in t.hits <=> Meets(r, t.input) /\ rules'[r].armed
  BY <1>2 DEF StillTrue
<1>3. ASSUME NEW p \in Sessions, NEW t, tx' = [tx EXCEPT ![p] = t],
             t.phase \in Deciding => Decided(t) /\ RulesKept(Own(t)),
             \A q \in Sessions \ {p} : tx[q].phase \in Deciding => RulesKept(Own(tx[q]))
      PROVE  EvaluationStable'
  <2>1. tx'[p] = t /\ \A q \in Sessions \ {p} : tx'[q] = tx[q]
    BY <1>3 DEF TypeOK
  <2>2. ASSUME NEW q \in Sessions, tx'[q].phase \in Deciding
        PROVE  Decided(tx'[q]) /\ RulesKept(Own(tx'[q]))
    BY <1>1, <1>3, <2>1, <2>2
  <2>3. ASSUME NEW q \in Sessions, tx'[q].phase \in Deciding
        PROVE  \A r \in Own(tx'[q]) :
                    /\ rules'[r].last < tx'[q].input.observed
                    /\ r \in tx'[q].hits <=> Meets(r, tx'[q].input) /\ rules'[r].armed
    BY <1>2, <2>2, <2>3
  <2> QED
    BY <2>3 DEF EvaluationStable, StillTrue, Meets
<1>4. ASSUME UNCHANGED tx, RulesKept(Rules) PROVE EvaluationStable'
  <2>1. ASSUME NEW q \in Sessions, tx[q].phase \in Deciding
        PROVE  \A r \in Own(tx[q]) :
                    /\ rules'[r].last < tx[q].input.observed
                    /\ r \in tx[q].hits <=> Meets(r, tx[q].input) /\ rules'[r].armed
    BY <1>1, <1>2, <1>4, <2>1
  <2> QED
    BY <1>4, <2>1 DEF EvaluationStable, StillTrue, Meets
<1>5. \A R : UNCHANGED rules => RulesKept(R)
  OBVIOUS
<1>6. \A q \in Sessions : tx[q].phase \in Deciding =>
        (RulesKept(Rules) => RulesKept(Own(tx[q])))
  BY <1>1
<1>7. ASSUME NEW p \in Sessions, NEW r \in Rules, CountRules(p, r) PROVE EvaluationStable'
  <2> DEFINE t == [Idle EXCEPT !.phase = "counted", !.rule = r, !.stamp = now]
  <2>1. t.phase \notin Deciding
    BY DEF Idle
  <2> HIDE DEF t
  <2> QED
    BY <1>3, <1>5, <1>7, <2>1 DEF CountRules, store, t
<1>8. ASSUME NEW p \in Sessions, InsertRule(p) PROVE EvaluationStable'
  <2>1. RulesKept(Rules)
    BY <1>8 DEF InsertRule, TypeOK, RuleRow
  <2> HIDE DEF RulesKept
  <2>2. tx' = [tx EXCEPT ![p] = Idle] /\ Idle.phase \notin Deciding
    BY <1>8, IdlePhase DEF InsertRule, Stored
  <2> QED
    BY <1>3, <1>6, <2>1, <2>2
<1>9. ASSUME NEW r \in Rules, RemoveRule(r) PROVE EvaluationStable'
  <2>1. RulesKept(Rules)
    BY <1>9 DEF RemoveRule, TypeOK, RuleRow
  <2> QED
    BY <1>4, <1>9, <2>1 DEF RemoveRule
<1>10. ASSUME NEW p \in Sessions, NEW i \in Inputs, Begin(p, i) PROVE EvaluationStable'
  <2> DEFINE t == [Idle EXCEPT !.phase = "begun", !.input = i]
  <2>1. t.phase \notin Deciding
    BY DEF Idle
  <2> HIDE DEF t
  <2> QED
    BY <1>3, <1>5, <1>10, <2>1 DEF Begin, store, t
<1>11. ASSUME NEW p \in Sessions,
              Insert(p) \/ NoteRetrieval(p) \/ MarkSource(p) \/ Abort(p) \/ BreakCircle(p)
       PROVE  EvaluationStable'
  <2>1. PICK t : tx' = [tx EXCEPT ![p] = t] /\ t.phase \notin Deciding
    <3>1. Idle.phase \notin Deciding
      BY IdlePhase DEF Stored
    <3>2. ASSUME NEW t PROVE [tx[p] EXCEPT !.phase = "inserted", !.stamp = t].phase = "inserted"
      BY DEF TypeOK, Tx
    <3>3. ASSUME NEW h, NEW row, NEW v
          PROVE  [tx[p] EXCEPT !.phase = "noted", !.holds = h, !.row = row, !.verdict = v].phase
                   = "noted"
      BY DEF TypeOK, Tx
    <3>4. ASSUME NEW row
          PROVE  [tx[p] EXCEPT !.phase = "marked", !.holds = TRUE, !.row = row].phase = "marked"
      BY DEF TypeOK, Tx
    <3>5. CASE Insert(p)
      BY <3>1, <3>2, <3>5 DEF Insert
    <3>6. CASE NoteRetrieval(p)
      BY <3>3, <3>6 DEF NoteRetrieval
    <3>7. CASE MarkSource(p)
      BY <3>4, <3>7 DEF MarkSource
    <3>8. CASE Abort(p) \/ BreakCircle(p)
      BY <3>1, <3>8 DEF Abort, BreakCircle
    <3> QED
      BY <1>11, <3>5, <3>6, <3>7, <3>8
  <2>2. UNCHANGED rules
    BY <1>11 DEF Insert, NoteRetrieval, MarkSource, Abort, BreakCircle, store
  <2> QED
    BY <1>3, <1>5, <2>1, <2>2
<1>12. ASSUME NEW p \in Sessions, EvaluateRules(p) PROVE EvaluationStable'
  <2> DEFINE i == tx[p].input
             L == {r \in Rules : Applies(r, i, tx[p].stamp)}
             H == {r \in L : Meets(r, i) /\ rules[r].armed}
  <2>1. i \in Inputs
    BY <1>12 DEF TypeOK, EvaluateRules, Stored
  <2>2. \A r \in L : rules[r].last < i.observed
    <3>1. \A r \in Rules : rules[r].last \in Nat
      BY DEF TypeOK, RuleRow
    <3>2. i.observed \in Nat
      BY <2>1, RecordingAssumption DEF Input
    <3> QED
      BY <3>1, <3>2 DEF Applies
  <2>3. \A r \in L : r \in H <=> Meets(r, i) /\ rules[r].armed
    OBVIOUS
  <2>4. PICK n : tx' = [tx EXCEPT ![p] = [tx[p] EXCEPT !.phase = "evaluated", !.looked = L,
                                                       !.next = n, !.hits = H]]
    BY <1>12 DEF EvaluateRules
  <2>u. UNCHANGED rules
    BY <1>12 DEF EvaluateRules, store
  <2> HIDE DEF L, H
  <2> DEFINE t == [tx[p] EXCEPT !.phase = "evaluated", !.looked = L, !.next = n, !.hits = H]
  <2>5. t.looked = L /\ t.hits = H /\ t.input = i
    BY DEF TypeOK, Tx
  <2>6. tx' = [tx EXCEPT ![p] = t]
    BY <2>4
  <2> HIDE DEF t
  <2>7. Decided(t)
    BY <2>2, <2>3, <2>5 DEF StillTrue
  <2> HIDE DEF Decided
  <2> QED
    BY <1>3, <1>5, <2>u, <2>6, <2>7
<1>13. ASSUME NEW p \in Sessions, WriteRule(p) PROVE EvaluationStable'
  <2>1. PICK t : /\ tx' = [tx EXCEPT ![p] = t]
                 /\ t.looked = tx[p].looked /\ t.hits = tx[p].hits /\ t.input = tx[p].input
    BY <1>13, WritesOne DEF TypeOK
  <2>2. tx[p].phase \in Deciding /\ UNCHANGED rules
    BY <1>13 DEF WriteRule, store
  <2>4. Decided(t)
    BY <1>1, <2>1, <2>2 DEF StillTrue
  <2> HIDE DEF Decided
  <2> QED
    BY <1>3, <1>5, <2>1, <2>2, <2>4
<1>14. ASSUME NEW p \in Sessions, Commit(p) PROVE EvaluationStable'
  <2>1. tx' = [tx EXCEPT ![p] = Idle] /\ Idle.phase \notin Deciding
    BY <1>14, IdlePhase DEF Commit, Stored
  <2>2. tx[p].phase = "evaluated"
    BY <1>14 DEF Commit
  <2>3. ASSUME NEW q \in Sessions \ {p}, tx[q].phase \in Deciding
        PROVE  RulesKept(Own(tx[q]))
    <3>1. tx[p].input \in Inputs /\ tx[q].input \in Inputs
      BY <2>2, <2>3 DEF TypeOK, Stored
    <3>2. tx[p].input.source # tx[q].input.source
      BY <2>2, <2>3 DEF Exclusive, SourceExclusive, Stored
    <3>3. Looks(tx[p]) /\ Looks(tx[q])
      BY DEF AllLook
    <3>4. ASSUME NEW r \in Own(tx[q]), r \in tx[p].looked PROVE FALSE
      <4>1. RuleSpec[r].series = tx[p].input.series /\ RuleSpec[r].series = tx[q].input.series
        BY <2>2, <2>3, <3>3, <3>4 DEF Looks
      <4> QED
        BY <3>1, <3>2, <3>4, <4>1 DEF OfOneSource
    <3>5. \A r \in Rules : r \notin tx[p].looked => rules'[r] = rules[r]
      BY <1>14 DEF Commit
    <3> QED
      BY <1>1, <2>3, <3>4, <3>5
  <2> HIDE DEF RulesKept, Own
  <2> QED
    BY <1>3, <2>1, <2>3
<1>15. CASE UNCHANGED <<tx, rules>>
  BY <1>4, <1>5, <1>15
<1> QED
  BY <1>7, <1>8, <1>9, <1>10, <1>11, <1>12, <1>13, <1>14, <1>15
  DEF Next, Record, Advance, vars, store

\* What transactions found out holds from the start.
LEMMA StableInit == Init => EvaluationStable
  BY IdlePhase DEF Init, EvaluationStable, Stored

\* The inductive invariant of the rules of one source.
StableInv == TypeOK /\ Exclusive /\ AllLook /\ EvaluationStable

\* Every step keeps it (record, onObservation).
LEMMA StableInvStep == StableInv /\ [Next]_vars => StableInv'
  BY TypeStep, ExclusiveStep, LookStep, StableStep DEF StableInv

\* The empty database satisfies it.
LEMMA StableInvInit == Init => StableInv
  BY TypeInit, ExclusiveInit, LookInit, StableInit DEF StableInv

\* No rule whose series one source states ever goes back to an older observation than one it has
\* evaluated, whatever the sessions and the rules of several sources do (onObservation, setState).
THEOREM RulesMoveForward == Spec => EvaluationMovesForward
<1>1. StableInv /\ [Next]_vars => [\A r \in OfOneSource : rules'[r].last >= rules[r].last]_vars
  <2> SUFFICES ASSUME StableInv, Next PROVE \A r \in OfOneSource : rules'[r].last >= rules[r].last
    OBVIOUS
  <2>1. OfOneSource \subseteq Rules /\ \A r \in Rules : rules[r].last \in Nat
    BY DEF StableInv, TypeOK, RuleRow, OfOneSource
  <2>2. ASSUME NEW p \in Sessions, Commit(p)
        PROVE  \A r \in OfOneSource : rules'[r].last >= rules[r].last
    <3>1. tx[p].phase = "evaluated" /\ tx[p].input \in Inputs
      BY <2>2 DEF Commit, StableInv, TypeOK, Stored
    <3>2. \A r \in tx[p].looked \cap OfOneSource : rules[r].last < tx[p].input.observed
      BY <3>1 DEF StableInv, EvaluationStable, StillTrue
    <3>3. tx[p].input.observed \in Nat
      BY <3>1, RecordingAssumption DEF Input
    <3>4. \A r \in Rules : rules'[r] = IF r \in tx[p].looked
                                     THEN [rules[r] EXCEPT !.armed = ~Meets(r, tx[p].input),
                                                           !.last = tx[p].input.observed]
                                     ELSE rules[r]
      BY <2>2 DEF Commit
    <3>5. \A r \in tx[p].looked \cap Rules : rules'[r].last = tx[p].input.observed
      BY <3>4 DEF StableInv, TypeOK, RuleRow
    <3>6. ASSUME NEW r \in OfOneSource PROVE rules'[r].last >= rules[r].last
      <4>1. CASE r \in tx[p].looked
        BY <2>1, <3>2, <3>3, <3>5, <4>1
      <4>2. CASE r \notin tx[p].looked
        <5>1. rules'[r] = rules[r]
          BY <2>1, <3>4, <4>2
        <5> QED
          BY <2>1, <5>1
      <4> QED
        BY <4>1, <4>2
    <3> QED
      BY <3>6
  <2>3. ASSUME NEW p \in Sessions, InsertRule(p)
        PROVE  \A r \in OfOneSource : rules'[r].last >= rules[r].last
    BY <2>1, <2>3 DEF InsertRule, StableInv, TypeOK, RuleRow
  <2>4. ASSUME NEW r \in Rules, RemoveRule(r)
        PROVE  \A s \in OfOneSource : rules'[s].last >= rules[s].last
    BY <2>1, <2>4 DEF RemoveRule, StableInv, TypeOK, RuleRow
  <2>5. CASE UNCHANGED rules
    BY <2>1, <2>5
  <2> QED
    BY <2>2, <2>3, <2>4, <2>5
    DEF Next, Record, store, CountRules, Begin, Insert, NoteRetrieval, MarkSource, EvaluateRules,
        WriteRule, Abort, BreakCircle, Advance
<1> QED
  BY <1>1, StableInvInit, StableInvStep, PTL DEF Spec, EvaluationMovesForward

------------------------------------------------------------------------------

\* A commit takes the rules that looked at its observation one step of Crossing further and
\* leaves the others where they were (onObservation).
LEMMA CommitLooks ==
  ASSUME StableInv, NEW p \in Sessions, Commit(p)
  PROVE  Threshold!Next
<1>1. tx[p].phase = "evaluated" /\ tx[p].input \in Inputs
  BY DEF Commit, StableInv, TypeOK, Stored
<1>2. PICK o \in Inputs : o = tx[p].input
  BY <1>1
<1> DEFINE Del(r) == {i \in Inputs : <<r, i>> \in deliveries}
<1>3. /\ tx[p].hits \subseteq tx[p].looked /\ OfOneSource \subseteq Rules
      /\ \A r \in tx[p].looked \cap OfOneSource : StillTrue(tx[p], r)
  BY <1>1 DEF StableInv, EvaluationStable, AllLook, Looks, OfOneSource
<1>4. \A r \in Rules : <<r, o>> \in deliveries' <=> <<r, o>> \in deliveries \/ r \in tx[p].hits
  BY <1>2 DEF Commit, NewDeliveries
<1>5. \A r \in Rules, i \in Inputs : i # o => (<<r, i>> \in deliveries' <=> <<r, i>> \in deliveries)
  BY <1>2 DEF Commit, NewDeliveries
<1>6. ASSUME NEW r \in Rules
      PROVE  Del(r)' = IF r \in tx[p].hits THEN Del(r) \cup {o} ELSE Del(r)
  BY <1>4, <1>5
<1>7. \A r \in Rules : rules'[r] = IF r \in tx[p].looked
                                     THEN [rules[r] EXCEPT !.armed = ~Meets(r, o),
                                                           !.last = o.observed]
                                     ELSE rules[r]
  BY <1>2 DEF Commit
<1>8. ASSUME NEW r \in OfOneSource, r \in tx[p].looked PROVE Threshold!Look(r, o)
  <2>1. rules'[r].armed = ~Meets(r, o) /\ rules'[r].last = o.observed
    BY <1>3, <1>7, <1>8 DEF StableInv, TypeOK, RuleRow
  <2>2. rules[r].last \in Nat /\ o.observed \in Nat
    BY <1>3, <1>8, RecordingAssumption DEF StableInv, TypeOK, RuleRow, Input
  <2>3. o.observed > rules[r].last
    BY <1>2, <1>3, <1>8, <2>2 DEF StillTrue
  <2>4. r \in tx[p].hits <=> Meets(r, o) /\ rules[r].armed
    BY <1>2, <1>3, <1>8 DEF StillTrue
  <2> QED
    BY <1>3, <1>6, <1>8, <2>1, <2>3, <2>4 DEF Threshold!Look
<1>9. ASSUME NEW r \in OfOneSource, r \notin tx[p].looked PROVE Threshold!Keep(r)
  BY <1>3, <1>6, <1>7, <1>9 DEF Threshold!Keep
<1> QED
  BY <1>8, <1>9 DEF Threshold!Next

\* What the rules of one source deliver is what the crossings of one stream of ever newer
\* observations call for, whatever the interleaving, failures and retries, and whatever rules of
\* several sources do beside them (alerts.js: "fires on a CROSSING").
THEOREM DeliversOnCrossings == Spec => FiresOnCrossings
<1>1. Init => Threshold!Init
  BY DEF Init, Threshold!Init, OfOneSource
<1>0. OfOneSource \subseteq Rules
  BY DEF OfOneSource
<1>2. StableInv /\ [Next]_vars => [Threshold!Next]_(Threshold!abstractVars)
  <2> SUFFICES ASSUME StableInv, [Next]_vars PROVE Threshold!Next \/ UNCHANGED Threshold!abstractVars
    OBVIOUS
  <2>1. ASSUME NEW p \in Sessions, Commit(p) PROVE Threshold!Next
    BY <2>1, CommitLooks
  <2>2. ASSUME UNCHANGED deliveries,
               \A r \in Rules : rules'[r].armed = rules[r].armed /\ rules'[r].last = rules[r].last
        PROVE  UNCHANGED Threshold!abstractVars
    BY <1>0, <2>2 DEF Threshold!abstractVars
  <2>3. ASSUME NEW p \in Sessions, InsertRule(p) PROVE UNCHANGED Threshold!abstractVars
    BY <2>2, <2>3 DEF InsertRule, StableInv, TypeOK, RuleRow
  <2>4. ASSUME NEW r \in Rules, RemoveRule(r) PROVE UNCHANGED Threshold!abstractVars
    BY <2>2, <2>4 DEF RemoveRule, StableInv, TypeOK, RuleRow
  <2>5. CASE UNCHANGED <<rules, deliveries>>
    BY <2>2, <2>5
  <2> QED
    BY <2>1, <2>3, <2>4, <2>5
    DEF Next, Record, vars, store, CountRules, Begin, Insert, NoteRetrieval, MarkSource,
        EvaluateRules, WriteRule, Abort, BreakCircle, Advance
<1> QED
  BY <1>1, <1>2, StableInvInit, StableInvStep, PTL DEF Spec, FiresOnCrossings, Threshold!Spec

==============================================================================
