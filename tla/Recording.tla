------------------------------ MODULE Recording ------------------------------
(***************************************************************************)
(* Recording a market observation: observations.record() and everything it *)
(* does in its transaction, i.e. trade.observation.created, the source's   *)
(* freshness (noteRetrieval), the threshold rules of its series and their  *)
(* deliveries with trade.alert.triggered, next to people creating and      *)
(* removing rules.                                                         *)
(*                                                                         *)
(* Sessions run at READ COMMITTED: each statement reads what is committed  *)
(* when it runs, takes no lock to read, and waits to write what another    *)
(* open transaction wrote.  A transaction therefore goes through           *)
(*                                                                         *)
(*   begun -> inserted -> noted -> marked -> evaluated -> done             *)
(*                                                                         *)
(* and, once evaluated, the rules it looked at, one statement each.  The   *)
(* others see nothing of it before it commits except its locks: the        *)
(* reference it inserted, its source's row, the rules it updated.  Of      *)
(* transactions that wait in a circle PostgreSQL aborts one.               *)
(* The Search document refreshed at the end feeds nothing back here.       *)
(***************************************************************************)
EXTENDS Freshness, FiniteSets, Sequences

CONSTANTS
  Sources,     \* source keys
  Inputs,      \* the observations that may be submitted
  Rules,       \* threshold rules people may create
  RuleSpec,    \* per rule: owner, series (instrument, metric, unit), op, threshold, currency
  None,        \* a NULL currency; no input; no source
  Sessions,    \* database sessions
  RuleLimit,   \* config.limits.alertRulesPerSubject
  FutureSkew,  \* FUTURE_SKEW_MS
  MaxTime      \* bound on the clock

Input == [source: Sources, ref: Nat, series: STRING, currency: {None} \cup STRING,
          value: Nat, observed: Nat \ {0}, retrieved: Nat \ {0}]

RuleShape == [owner: STRING, series: STRING, op: {"above", "below"}, threshold: Nat,
              currency: {None} \cup STRING]

ASSUME RecordingAssumption ==
  /\ Inputs \subseteq Input
  /\ RuleSpec \in [Rules -> RuleShape]
  /\ RuleLimit \in Nat
  /\ FutureSkew \in Nat
  /\ MaxTime \in Nat \ {0}
  /\ None \notin Inputs
  /\ None \notin Rules

VARIABLES
  now,           \* store.now()
  observations,  \* trade_market_observations; the id stands for the input it was made from
  announced,     \* per input, how many trade.observation.created are in the outbox
  status,        \* trade_source_status
  events,        \* per source, the trade.source.* events in the outbox
  rules,         \* trade_alert_rules: what changes of a rule
  deliveries,    \* trade_alert_deliveries: (rule, observation)
  alerted,       \* per (rule, observation), how many trade.alert.triggered are in the outbox
  tx             \* what each session is doing

vars == <<now, observations, announced, status, events, rules, deliveries, alerted, tx>>

RuleRow == [state: {"absent", "active", "deleted"}, created: Nat, armed: BOOLEAN, last: Nat]

Idle == [phase |-> "idle", input |-> None, rule |-> None, stamp |-> 0,
         holds |-> FALSE, row |-> Absent, verdict |-> TRUE,
         looked |-> {}, hits |-> {}, wrote |-> {}, next |-> None]

\* The phases of a recording in which it has inserted its row.
Stored == {"inserted", "noted", "marked", "evaluated"}

Tx == [phase: {"idle", "counted", "begun"} \cup Stored,
       input: Inputs \cup {None}, rule: Rules \cup {None}, stamp: Nat,
       holds: BOOLEAN, row: Row, verdict: BOOLEAN,
       looked: SUBSET Rules, hits: SUBSET Rules, wrote: SUBSET Rules, next: Rules \cup {None}]

TypeOK ==
  /\ now \in 1 .. MaxTime
  /\ observations \subseteq Inputs
  /\ announced \in [Inputs -> Nat]
  /\ status \in [Sources -> Row]
  /\ events \in [Sources -> Seq({"stale", "recovered"})]
  /\ rules \in [Rules -> RuleRow]
  /\ deliveries \subseteq Rules \X Inputs
  /\ alerted \in [Rules \X Inputs -> Nat]
  /\ tx \in [Sessions -> Tx]
  /\ \A p \in Sessions : tx[p].phase \in {"begun"} \cup Stored => tx[p].input \in Inputs

Init ==
  /\ now = 1
  /\ observations = {}
  /\ announced = [i \in Inputs |-> 0]
  /\ status = [k \in Sources |-> Absent]
  /\ events = [k \in Sources |-> << >>]
  /\ rules = [r \in Rules |-> [state |-> "absent", created |-> 0, armed |-> TRUE, last |-> 0]]
  /\ deliveries = {}
  /\ alerted = [d \in Rules \X Inputs |-> 0]
  /\ tx = [p \in Sessions |-> Idle]

store == <<observations, announced, status, events, rules, deliveries, alerted>>

------------------------------------------------------------------------------
(* Rules: alerts.create and alerts.remove.  The limit is counted in one statement and the  *)
(* rule inserted, with the time taken in between, in another; nothing spans the two.       *)

ActiveOf(owner) == {r \in Rules : rules[r].state = "active" /\ RuleSpec[r].owner = owner}

CountRules(p, r) ==
  /\ tx[p].phase = "idle"
  /\ rules[r].state = "absent"
  /\ \A q \in Sessions : tx[q].rule # r
  /\ Cardinality(ActiveOf(RuleSpec[r].owner)) < RuleLimit
  /\ tx' = [tx EXCEPT ![p] = [Idle EXCEPT !.phase = "counted", !.rule = r, !.stamp = now]]
  /\ UNCHANGED <<now, store>>

InsertRule(p) ==
  /\ tx[p].phase = "counted"
  /\ rules' = [rules EXCEPT ![tx[p].rule] =
                 [@ EXCEPT !.state = "active", !.created = tx[p].stamp]]
  /\ tx' = [tx EXCEPT ![p] = Idle]
  /\ UNCHANGED <<now, observations, announced, status, events, deliveries, alerted>>

\* Fault: a transaction waits for the others that only read the rule.
RuleFreeEager(r, p) == \A q \in Sessions \ {p} : r \notin tx[q].looked

RuleHeld(r, q) == r \in tx[q].wrote

\* No other open transaction has updated rule r.
RuleFree(r, p) == \A q \in Sessions \ {p} : ~RuleHeld(r, q)

RemoveRule(r) ==
  /\ rules[r].state = "active"
  /\ RuleFree(r, None)
  /\ rules' = [rules EXCEPT ![r].state = "deleted"]
  /\ UNCHANGED <<now, observations, announced, status, events, deliveries, alerted, tx>>

------------------------------------------------------------------------------
(* observations.record *)

SameRef(i, j) == i.source = j.source /\ i.ref = j.ref

\* The part of validate() that depends on the clock.
NotFuture(i) == i.observed <= now + FutureSkew /\ i.retrieved <= now + FutureSkew

\* SELECT by reference finds nothing.  (When it finds a row, nothing changes: a replay is
\* answered with the row, another value with a 409.)
Begin(p, i) ==
  /\ tx[p].phase = "idle"
  /\ NotFuture(i)
  /\ \A o \in observations : ~SameRef(o, i)
  /\ tx' = [tx EXCEPT ![p] = [Idle EXCEPT !.phase = "begun", !.input = i]]
  /\ UNCHANGED <<now, store>>

\* Fault: no UNIQUE (source_key, source_ref).
RefFreeAlways(p) == TRUE

RefHeld(i, q) == tx[q].phase \in Stored /\ SameRef(tx[q].input, i)

\* INSERT waits for a transaction that inserted the same reference.
RefFree(p) == \A q \in Sessions \ {p} : ~RefHeld(tx[p].input, q)

\* Refused by UNIQUE (source_key, source_ref) when that one committed: the error rolls back.
Insert(p) ==
  /\ tx[p].phase = "begun"
  /\ RefFree(p)
  /\ tx' = [tx EXCEPT ![p] =
              IF \E o \in observations : SameRef(o, tx[p].input) THEN Idle
              ELSE [@ EXCEPT !.phase = "inserted", !.stamp = now]]
  /\ UNCHANGED <<now, store>>

\* Fault: the rules are evaluated before anything locks the source.
UnlockedAlways(k, p) == TRUE

SourceHeld(k, q) == tx[q].phase \in Stored /\ tx[q].holds /\ tx[q].input.source = k

\* No other open transaction wrote the status row of source k.
Unlocked(k, p) == \A q \in Sessions \ {p} : ~SourceHeld(k, q)

\* The retrieval is later than the source's last success.
IsNews(i) == ~status[i.source].known \/ i.retrieved > status[i.source].last

\* noteRetrieval up to the verdict: the row is locked only when the retrieval is news.
NoteRetrieval(p) ==
  LET i   == tx[p].input
      row == Forward(Ensure(status[i.source]), i.retrieved)
  IN
  /\ tx[p].phase = "inserted"
  /\ IsNews(i) => Unlocked(i.source, p)
  /\ tx' = [tx EXCEPT ![p] = [@ EXCEPT !.phase = "noted", !.holds = IsNews(i), !.row = row,
                                       !.verdict = StaleAt(row, now)]]
  /\ UNCHANGED <<now, store>>

\* `mark` updates the row whatever the verdict: from here on the source is locked.
MarkSource(p) ==
  LET t    == tx[p]
      last == IF t.holds THEN t.row.last ELSE status[t.input.source].last
  IN
  /\ t.phase = "noted"
  /\ Unlocked(t.input.source, p)
  /\ tx' = [tx EXCEPT ![p] = [@ EXCEPT !.phase = "marked", !.holds = TRUE,
                                       !.row = [t.row EXCEPT !.last = last]]]
  /\ UNCHANGED <<now, store>>

Meets(r, o) ==
  IF RuleSpec[r].op = "above" THEN o.value > RuleSpec[r].threshold
  ELSE o.value < RuleSpec[r].threshold

\* Fault: late arrivals are not skipped.
AppliesLate(r, i, recorded) ==
  /\ rules[r].state = "active"
  /\ RuleSpec[r].series = i.series
  /\ RuleSpec[r].currency \in {None, i.currency}
  /\ rules[r].created <= recorded

\* onObservation goes on with rule r for observation i recorded at `recorded`.
Applies(r, i, recorded) ==
  /\ rules[r].state = "active"
  /\ RuleSpec[r].series = i.series
  /\ RuleSpec[r].currency \in {None, i.currency}
  /\ rules[r].created <= recorded
  /\ i.observed > rules[r].last

\* Whose turn it may be among the rules R, which come in no order.
Turns(R) == IF R = {} THEN {None} ELSE R

\* onObservation's SELECT of the rules, which decides everything it writes.
EvaluateRules(p) ==
  LET i == tx[p].input
      L == {r \in Rules : Applies(r, i, tx[p].stamp)}
  IN
  /\ tx[p].phase = "marked"
  /\ \E first \in Turns(L) :
       tx' = [tx EXCEPT ![p] = [@ EXCEPT !.phase = "evaluated", !.looked = L, !.next = first,
                                         !.hits = {r \in L : Meets(r, i) /\ rules[r].armed}]]
  /\ UNCHANGED <<now, store>>

\* deliver() and setState of the rule whose turn it is; waits for its row lock.
WriteRule(p) ==
  LET r     == tx[p].next
      wrote == tx[p].wrote \cup {r}
  IN
  /\ tx[p].phase = "evaluated"
  /\ r # None
  /\ RuleFree(r, p)
  /\ \E next \in Turns(tx[p].looked \ wrote) :
       tx' = [tx EXCEPT ![p] = [@ EXCEPT !.wrote = wrote, !.next = next]]
  /\ UNCHANGED <<now, store>>

\* The deliveries t inserts and announces: those not on record yet (ON CONFLICT DO NOTHING).
NewDeliveries(t) == {d \in t.hits \X {t.input} : d \notin deliveries}

Commit(p) ==
  LET t == tx[p]
      k == t.input.source
  IN
  /\ t.phase = "evaluated"
  /\ t.next = None
  /\ observations' = observations \cup {t.input}
  /\ announced' = [announced EXCEPT ![t.input] = @ + 1]
  /\ status' = [status EXCEPT ![k] = Marked(t.row, t.verdict)]
  /\ events' = [events EXCEPT ![k] = @ \o Emitted(t.row, t.verdict)]
  /\ rules' = [r \in Rules |->
                 IF r \in t.looked
                   THEN [rules[r] EXCEPT !.armed = ~Meets(r, t.input),
                                         !.last = t.input.observed]
                   ELSE rules[r]]
  /\ deliveries' = deliveries \cup NewDeliveries(t)
  /\ alerted' = [d \in Rules \X Inputs |->
                   IF d \in NewDeliveries(t) THEN alerted[d] + 1 ELSE alerted[d]]
  /\ tx' = [tx EXCEPT ![p] = Idle]
  /\ UNCHANGED now

\* A failed statement, a lost connection or a crash: nothing of the transaction remains.
Abort(p) ==
  /\ tx[p].phase # "idle"
  /\ tx' = [tx EXCEPT ![p] = Idle]
  /\ UNCHANGED <<now, store>>

\* Session p waits for q: for what becomes of its reference, for its source's row, or for the
\* rule whose turn it is.
WaitsFor(p, q) ==
  LET i == tx[p].input IN
  /\ q # p
  /\ \/ tx[p].phase = "begun" /\ RefHeld(i, q)
     \/ tx[p].phase = "inserted" /\ IsNews(i) /\ SourceHeld(i.source, q)
     \/ tx[p].phase = "noted" /\ SourceHeld(i.source, q)
     \/ tx[p].phase = "evaluated" /\ tx[p].next # None /\ RuleHeld(tx[p].next, q)

\* The sessions S wait for one another.
Circle(S) ==
  /\ S # {}
  /\ \A p \in S : (\E q \in S : WaitsFor(p, q)) /\ (\E q \in S : WaitsFor(q, p))

\* PostgreSQL finds the circle and aborts one of it.
BreakCircle(p) ==
  /\ \E S \in SUBSET Sessions : p \in S /\ Circle(S)
  /\ tx' = [tx EXCEPT ![p] = Idle]
  /\ UNCHANGED <<now, store>>

Advance ==
  /\ now < MaxTime
  /\ now' = now + 1
  /\ UNCHANGED <<store, tx>>

Record(p) ==
  \/ \E i \in Inputs : Begin(p, i)
  \/ Insert(p) \/ NoteRetrieval(p) \/ MarkSource(p)
  \/ EvaluateRules(p) \/ WriteRule(p) \/ Commit(p)

Next ==
  \/ \E p \in Sessions : Record(p) \/ Abort(p) \/ BreakCircle(p) \/ InsertRule(p)
  \/ \E p \in Sessions, r \in Rules : CountRules(p, r)
  \/ \E r \in Rules : RemoveRule(r)
  \/ Advance

Spec == Init /\ [][Next]_vars

\* A statement runs once its locks are free, and PostgreSQL queues those who wait for one,
\* so nobody is overtaken for ever (SF); its detector finds a circle; people, failures and the
\* clock owe nothing.
Fairness ==
  /\ WF_vars(\E p \in Sessions : BreakCircle(p))
  /\ \A p \in Sessions :
       SF_vars(Insert(p) \/ NoteRetrieval(p) \/ MarkSource(p)
               \/ EvaluateRules(p) \/ WriteRule(p) \/ Commit(p) \/ InsertRule(p))

FairSpec == Spec /\ Fairness

------------------------------------------------------------------------------
(* Properties *)

\* Exactly once: however a submission is replayed, retried or raced, one reference is one
\* observation, announced once; and a rule has one delivery, with one event, for an
\* observation that is on record, or none at all (record, deliver).
ExactlyOnce ==
  /\ \A i, j \in observations : SameRef(i, j) => i = j
  /\ \A i \in Inputs : announced[i] = IF i \in observations THEN 1 ELSE 0
  /\ \A r \in Rules, i \in Inputs : alerted[<<r, i>>] = IF <<r, i>> \in deliveries THEN 1 ELSE 0
  /\ \A d \in deliveries : d[2] \in observations

\* Two open transactions never have the same reference, nor one that is on record already.
RefExclusive ==
  /\ \A p, q \in Sessions :
       p # q /\ tx[p].phase \in Stored /\ tx[q].phase \in Stored =>
         ~SameRef(tx[p].input, tx[q].input)
  /\ \A p \in Sessions : tx[p].phase \in Stored =>
       \A o \in observations : ~SameRef(o, tx[p].input)

\* At most one open transaction has written a source's row; from `mark` on it surely has.
SourceExclusive ==
  /\ \A p, q \in Sessions :
       /\ p # q /\ tx[p].phase \in Stored /\ tx[q].phase \in Stored
       /\ tx[p].holds /\ tx[q].holds
       => tx[p].input.source # tx[q].input.source
  /\ \A p \in Sessions :
       /\ tx[p].phase \in {"marked", "evaluated"} => tx[p].holds
       /\ tx[p].phase = "begun" => ~tx[p].holds

\* What the locks of a recording are for (record, noteRetrieval).
Exclusive == RefExclusive /\ SourceExclusive

\* The rules whose series one source states.  ECB and Frankfurter both state "rate".
OfOneSource ==
  {r \in Rules : \A i, j \in Inputs :
     i.series = RuleSpec[r].series /\ j.series = RuleSpec[r].series => i.source = j.source}

\* What transaction t decided about rule r is what the committed rule calls for.
StillTrue(t, r) ==
  /\ rules[r].last < t.input.observed
  /\ r \in t.hits <=> Meets(r, t.input) /\ rules[r].armed

\* What a transaction found out about the rules still holds when it commits: those of one
\* source have seen nothing newer and are armed as it read them (onObservation).
EvaluationStable ==
  \A p \in Sessions : tx[p].phase = "evaluated" =>
    \A r \in tx[p].looked \cap OfOneSource : StillTrue(tx[p], r)

\* What a rule of one source compares the next observation with never goes back in time,
\* whatever rules of two sources do beside it (setState).
EvaluationMovesForward == [][\A r \in OfOneSource : rules'[r].last >= rules[r].last]_vars

\* Recordings wait in a circle only over the rules of one series that several sources state:
\* references and source rows never close one (record).
CirclesOfSeveralSources ==
  \A S \in SUBSET Sessions : Circle(S) =>
    \A p \in S :
      /\ tx[p].phase = "evaluated"
      /\ \E q \in S : /\ tx[q].input.series = tx[p].input.series
                     /\ tx[q].input.source # tx[p].input.source

\* Every recording ends: what a transaction waits for is let go, if need be by breaking a circle
\* (record).
RecordingEnds == \A p \in Sessions : (tx[p].phase # "idle") ~> (tx[p].phase = "idle")

\* The rules of one source as the Crossing specification sees them.
Threshold == INSTANCE Crossing WITH
  Rules <- OfOneSource,
  Readings <- Inputs,
  armed <- [r \in OfOneSource |-> rules[r].armed],
  last <- [r \in OfOneSource |-> rules[r].last],
  delivered <- [r \in OfOneSource |-> {i \in Inputs : <<r, i>> \in deliveries}]

\* Recording implements Crossing: what these rules deliver is what crossings in one stream of
\* ever newer observations call for (onObservation, "fires on a CROSSING").
FiresOnCrossings == Threshold!Spec

==============================================================================
