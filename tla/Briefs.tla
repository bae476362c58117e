------------------------------- MODULE Briefs --------------------------------
(***************************************************************************)
(* SEC's numbers and the AI briefs written from them: facts.record         *)
(* (server/domain/facts.js), briefs.make (server/domain/briefs.js), the    *)
(* worker's briefsTick (server/worker.js) and the readers who ask          *)
(* (POST /i/:symbol/brief, server/http/pages.js).                          *)
(*                                                                         *)
(* SEC and OpenVibe.AI answer after a while: a call is open meanwhile and  *)
(* keeps what it read before.  Every stamp (retrieved_at, fetched_at,      *)
(* created_at) is a time of its own; the hour of the budget passes brief   *)
(* by brief.  SEC's numbers come in versions, each recorded in two halves; *)
(* filings come, are retrieved again, revised and removed, so that what a  *)
(* brief is written from may return.  began and grown are history.         *)
(* AiBriefsProofs reads this module beside MarketBriefs: no name of the    *)
(* one is a name of the other.                                             *)
(***************************************************************************)
EXTENDS Integers, Sequences, FiniteSets

CONSTANTS
  Companies,    \* active instruments with a CIK
  Readers,
  Worker,       \* the caller that is briefsTick
  SecPerTick,   \* config.sec.perTick
  PerTick,      \* config.briefs.perTick
  PerHour,      \* config.briefs.perHour
  MaxReports,   \* bound on the changes of reports at Sources
  MaxAsks,      \* bound on what readers ask
  MaxEvents,    \* bound on the two together
  MaxRestarts   \* bound on the restarts of the process

ASSUME BriefsAssumption ==
  /\ IsFiniteSet(Companies)
  /\ Worker \notin Readers
  /\ IsFiniteSet(Readers)
  /\ SecPerTick \in Nat
  /\ PerTick \in Nat
  /\ PerHour \in Nat
  /\ MaxReports \in Nat
  /\ MaxAsks \in Nat
  /\ MaxEvents \in Nat
  /\ MaxRestarts \in Nat

VARIABLES
  now,        \* the last stamp given
  reports,    \* how many changes of reports there were
  asks,       \* how often readers asked
  restarts,   \* how often the process restarted
  sec,        \* at SEC, per company: the version of its numbers
  filings,    \* per company: its reports that are not removed
  numbers,    \* per company: the numbers recorded; version v is whole at 2 * v
  grown,      \* history, per company: when numbers last grew
  facts,      \* trade_facts_state
  briefs,     \* trade_ai_briefs, per company, oldest first
  lastHour,   \* the briefs created in the last hour
  call,       \* per caller: its open call
  briefsTick  \* the worker's tick, and what is left of its list

world == <<reports, sec, filings>>
recorded == <<numbers, grown>>
stored == <<recorded, facts, briefs, lastHour>>
counts == <<asks, restarts>>
briefsVars == <<now, counts, world, stored, call, briefsTick>>

Callers == Readers \cup {Worker}

FactsRow == [at: Nat, ok: BOOLEAN, n: Nat]

\* text: what a brief's hash takes of a filing; at: retrieved_at, which it leaves out.
Filing == [text: Nat, at: Nat]

Input == [numbers: Nat, texts: SUBSET Nat]

\* began: when its inputs were read.
Brief == [input: Input, began: Nat, at: Nat]

\* got: the version SEC answered with; input, began: what the brief is written from.
Call == [step: {"fetch", "record", "rest", "save", "make", "compare", "budget", "ai"},
         of: Companies, got: Nat, input: Input, began: Nat]

NoCall == [step |-> "none"]

BriefsTick == [stage: {"idle", "facts", "briefs"}, todo: SUBSET (Companies \X Nat)]

BriefsTypeOK ==
  /\ now \in Nat
  /\ reports \in 0 .. MaxReports
  /\ asks \in 0 .. MaxAsks
  /\ restarts \in 0 .. MaxRestarts
  /\ sec \in [Companies -> Nat]
  /\ filings \in [Companies -> SUBSET Filing]
  /\ numbers \in [Companies -> Nat]
  /\ grown \in [Companies -> Nat]
  /\ facts \in [Companies -> FactsRow]
  /\ briefs \in [Companies -> Seq(Brief)]
  /\ lastHour \in Nat
  /\ call \in [Callers -> Call \cup {NoCall}]
  /\ briefsTick \in BriefsTick
  /\ briefsTick.stage = "facts" => Cardinality(briefsTick.todo) <= SecPerTick
  /\ briefsTick.stage = "briefs" => Cardinality(briefsTick.todo) <= PerTick

\* At most one company was read before: its report is on the list and no brief is written.
BriefsInit ==
  /\ reports = 0 /\ asks = 0 /\ restarts = 0 /\ lastHour = 0
  /\ now = 3
  /\ filings \in [Companies -> {{}, {[text |-> 0, at |-> 1]}}]
  /\ \A c, d \in Companies : filings[c] # {} /\ filings[d] # {} => c = d
  /\ sec = [c \in Companies |-> IF filings[c] = {} THEN 0 ELSE 1]
  /\ numbers = [c \in Companies |-> 2 * sec[c]]
  /\ grown = [c \in Companies |-> 2 * sec[c]]
  /\ facts = [c \in Companies |->
       IF filings[c] = {} THEN [at |-> 0, ok |-> FALSE, n |-> 0] ELSE [at |-> 3, ok |-> TRUE, n |-> 1]]
  /\ briefs = [c \in Companies |-> <<>>]
  /\ call = [p \in Callers |-> NoCall]
  /\ briefsTick = [stage |-> "idle", todo |-> {}]

------------------------------------------------------------------------------
(* The world: companies file reports, Sources follows them, the clock moves on. *)

\* Sources changes a report of company c at a time of its own.
Changed(c, list) ==
  /\ reports < MaxReports /\ reports + asks < MaxEvents
  /\ reports' = reports + 1
  /\ now' = now + 1
  /\ filings' = [filings EXCEPT ![c] = list]
  /\ UNCHANGED <<counts, stored, call, briefsTick>>

\* A report: a filing on Trade's list (documents.upsert), and at SEC new numbers or none.
File(c) ==
  /\ Changed(c, filings[c] \cup {[text |-> reports + 1, at |-> now + 1]})
  /\ sec' \in {sec, [sec EXCEPT ![c] = @ + 1]}

\* Sources retrieves a report again (touch), or with another form type or date (revise).
Revise(c, f) ==
  /\ \E t \in {f.text, reports + 1} :
       Changed(c, (filings[c] \ {f}) \cup {[text |-> t, at |-> now + 1]})
  /\ UNCHANGED sec

\* Sources takes a report back (documents.remove).
Remove(c, f) == Changed(c, filings[c] \ {f}) /\ UNCHANGED sec

\* The oldest brief of the last hour turns an hour old.
HourPasses ==
  /\ lastHour > 0
  /\ lastHour' = lastHour - 1
  /\ UNCHANGED <<now, counts, world, recorded, facts, briefs, call, briefsTick>>

------------------------------------------------------------------------------
(* The lists of the worker. *)

\* What ORDER BY key LIMIT n keeps of S.  Stamps differ, so the order is total.
FirstOf(S, key, n) ==
  {<<c, key[c]>> : c \in {d \in S : Cardinality({e \in S : key[e] < key[d]}) < n}}

\* MAX(d.retrieved_at): when the newest report on the list was retrieved.
ReportAt == [c \in Companies |->
  IF filings[c] = {} THEN 0
  ELSE CHOOSE t \in {f.at : f \in filings[c]} : \A f \in filings[c] : f.at <= t]

\* facts.due: a report on the list that is newer than the last read.
FactsDue == {c \in Companies : \E f \in filings[c] : f.at > facts[c].at}

\* Fault: a tick reads the facts of every company that is due.
FactsListAll == FirstOf(FactsDue, ReportAt, Cardinality(Companies))

FactsList == FirstOf(FactsDue, ReportAt, SecPerTick)

ReadAt == [c \in Companies |-> facts[c].at]

\* Fault: any brief will do, however old.
BriefsDueOnce == {c \in Companies : facts[c].ok /\ facts[c].n > 0 /\ briefs[c] = <<>>}

\* briefs.due: numbers read after the last brief.
BriefsDue ==
  {c \in Companies :
     /\ facts[c].ok /\ facts[c].n > 0
     /\ ~\E k \in DOMAIN briefs[c] : briefs[c][k].at >= facts[c].at}

Room == IF lastHour >= PerHour THEN 0
        ELSE IF PerHour - lastHour < PerTick THEN PerHour - lastHour ELSE PerTick

BriefsList == FirstOf(BriefsDue, ReadAt, Room)

Turn(t) == t \in briefsTick.todo /\ \A u \in briefsTick.todo : t[2] <= u[2]

------------------------------------------------------------------------------
(* Calls: facts.record, then briefs.make. *)

Free(p) == call[p] = NoCall

NoInput == [numbers |-> 0, texts |-> {}]

Opened(p, step, c) ==
  call' = [call EXCEPT ![p] = [step |-> step, of |-> c, got |-> 0,
                               input |-> NoInput, began |-> 0]]

At(p, step) == ~Free(p) /\ call[p].step = step

Ended(p) == call' = [call EXCEPT ![p] = NoCall]

\* After facts.record the worker takes its next company, a reader's brief is made.
Recorded(p) ==
  /\ IF p = Worker THEN Ended(p) ELSE call' = [call EXCEPT ![p].step = "make"]
  /\ UNCHANGED briefsTick

\* What facts.record throws ends the reader's request, and the worker's whole tick.
Thrown(p) ==
  /\ Ended(p)
  /\ briefsTick' = IF p = Worker THEN [stage |-> "idle", todo |-> {}] ELSE briefsTick

\* A reader asks: SEC's numbers are read first if this company's never were.
WriteBrief(r, c) ==
  /\ Free(r)
  /\ asks < MaxAsks /\ reports + asks < MaxEvents
  /\ asks' = asks + 1
  /\ Opened(r, IF facts[c].at = 0 THEN "fetch" ELSE "make", c)
  /\ UNCHANGED <<now, restarts, world, stored, briefsTick>>

\* SEC answers with the numbers it has.
Fetch(p) ==
  /\ At(p, "fetch")
  /\ call' = [call EXCEPT ![p].step = "record", ![p].got = sec[call[p].of]]
  /\ UNCHANGED <<now, counts, world, stored, briefsTick>>

\* SEC does not answer: the read counts as made, at this time.
FetchFails(p) ==
  /\ At(p, "fetch")
  /\ now' = now + 1
  /\ facts' = [facts EXCEPT ![call[p].of] = [at |-> now', ok |-> FALSE, n |-> 0]]
  /\ Recorded(p)
  /\ UNCHANGED <<counts, world, recorded, briefs, lastHour>>

\* Observations are only ever added.
Grows(c, n) ==
  \/ n <= numbers[c] /\ UNCHANGED <<now, recorded>>
  \/ /\ n > numbers[c]
     /\ now' = now + 1
     /\ numbers' = [numbers EXCEPT ![c] = n]
     /\ grown' = [grown EXCEPT ![c] = now']

\* The observations are recorded, each in a transaction of its own: the first of a version,
RecordSome(p) ==
  /\ At(p, "record")
  /\ Grows(call[p].of, 2 * call[p].got - 1)
  /\ call' = [call EXCEPT ![p].step = "rest"]
  /\ UNCHANGED <<counts, world, facts, briefs, lastHour, briefsTick>>

\* and the rest of it.
RecordRest(p) ==
  /\ At(p, "rest")
  /\ Grows(call[p].of, 2 * call[p].got)
  /\ call' = [call EXCEPT ![p].step = "save"]
  /\ UNCHANGED <<counts, world, facts, briefs, lastHour, briefsTick>>

\* One of them cannot be recorded (no 409 and no 422): the read is not saved.
RecordThrows(p) ==
  /\ At(p, "record") \/ At(p, "rest")
  /\ Thrown(p)
  /\ UNCHANGED <<now, counts, world, stored>>

\* The read is saved; the report of SEC's health after it may throw.
SaveFacts(p) ==
  /\ At(p, "save")
  /\ now' = now + 1
  /\ facts' = [facts EXCEPT ![call[p].of] = [at |-> now', ok |-> TRUE, n |-> call[p].got]]
  /\ Recorded(p) \/ Thrown(p)
  /\ UNCHANGED <<counts, world, recorded, briefs, lastHour>>

Inputs(c) == [numbers |-> numbers[c], texts |-> {f.text : f \in filings[c]}]

\* make reads the inputs; without any there is nothing to write from.
ReadInputs(p) ==
  /\ At(p, "make")
  /\ LET inputs == Inputs(call[p].of) IN
     IF inputs = NoInput THEN Ended(p)
     ELSE call' = [call EXCEPT ![p].step = "compare", ![p].input = inputs, ![p].began = now]
  /\ UNCHANGED <<now, counts, world, stored, briefsTick>>

\* Fault: the inputs are never compared.
CurrentNever(c, input) == FALSE

\* The last brief was written from these inputs.
Current(c, input) == briefs[c] # <<>> /\ briefs[c][Len(briefs[c])].input = input

\* Fault: the budget is read and not enforced.
SpentNever == FALSE

Spent == lastHour >= PerHour

\* make reads the last brief, which may be current,
ReadLast(p) ==
  /\ At(p, "compare")
  /\ IF Current(call[p].of, call[p].input) THEN Ended(p)
     ELSE call' = [call EXCEPT ![p].step = "budget"]
  /\ UNCHANGED <<now, counts, world, stored, briefsTick>>

\* and then the budget.  A spent one ends the worker's list.
RefuseBudget(p) ==
  /\ At(p, "budget")
  /\ Spent
  /\ Ended(p)
  /\ briefsTick' = [briefsTick EXCEPT !.todo = IF p = Worker THEN {} ELSE @]
  /\ UNCHANGED <<now, counts, world, stored>>

\* OpenVibe.AI is asked.
AskAi(p) ==
  /\ At(p, "budget")
  /\ ~Spent
  /\ call' = [call EXCEPT ![p].step = "ai"]
  /\ UNCHANGED <<now, counts, world, stored, briefsTick>>

\* OpenVibe.AI answers with text that is kept.
StoreBrief(p) ==
  /\ At(p, "ai")
  /\ now' = now + 1
  /\ briefs' = [briefs EXCEPT ![call[p].of] =
                  Append(@, [input |-> call[p].input, began |-> call[p].began, at |-> now'])]
  /\ lastHour' = lastHour + 1
  /\ Ended(p)
  /\ UNCHANGED <<counts, world, recorded, facts, briefsTick>>

\* It fails, answers with a placeholder or nothing, or with text that reads as advice.
RefuseText(p) ==
  /\ At(p, "ai")
  /\ Ended(p)
  /\ UNCHANGED <<now, counts, world, stored, briefsTick>>

------------------------------------------------------------------------------
(* The worker's tick: the facts that are due, then the briefs that are due. *)

StartTick ==
  /\ briefsTick.stage = "idle"
  /\ briefsTick' = [stage |-> "facts", todo |-> FactsList]
  /\ UNCHANGED <<now, counts, world, stored, call>>

TakeNext(t) ==
  /\ Free(Worker)
  /\ Turn(t)
  /\ Opened(Worker, IF briefsTick.stage = "facts" THEN "fetch" ELSE "make", t[1])
  /\ briefsTick' = [briefsTick EXCEPT !.todo = @ \ {t}]
  /\ UNCHANGED <<now, counts, world, stored>>

FactsDone ==
  /\ briefsTick.stage = "facts" /\ briefsTick.todo = {} /\ Free(Worker)
  /\ briefsTick' = [stage |-> "briefs", todo |-> BriefsList]
  /\ UNCHANGED <<now, counts, world, stored, call>>

TickDone ==
  /\ briefsTick.stage = "briefs" /\ briefsTick.todo = {} /\ Free(Worker)
  /\ briefsTick' = [stage |-> "idle", todo |-> {}]
  /\ UNCHANGED <<now, counts, world, stored, call>>

\* The process restarts: every open call is gone.
ProcessRestarts ==
  /\ restarts < MaxRestarts
  /\ restarts' = restarts + 1
  /\ call' = [p \in Callers |-> NoCall]
  /\ briefsTick' = [stage |-> "idle", todo |-> {}]
  /\ UNCHANGED <<now, asks, world, stored>>

CallStep(p) ==
  \/ Fetch(p) \/ FetchFails(p)
  \/ RecordSome(p) \/ RecordRest(p) \/ RecordThrows(p) \/ SaveFacts(p)
  \/ ReadInputs(p) \/ ReadLast(p) \/ RefuseBudget(p) \/ AskAi(p) \/ StoreBrief(p) \/ RefuseText(p)

TickStep == StartTick \/ FactsDone \/ TickDone \/ \E t \in briefsTick.todo : TakeNext(t)

BriefsNext ==
  \/ \E c \in Companies : File(c) \/ \E f \in filings[c] : Revise(c, f) \/ Remove(c, f)
  \/ HourPasses
  \/ \E r \in Readers, c \in Companies : WriteBrief(r, c)
  \/ \E p \in Callers : CallStep(p)
  \/ TickStep \/ ProcessRestarts

BriefsSpec == BriefsInit /\ [][BriefsNext]_briefsVars

\* The timer keeps starting ticks, what is called answers or fails, hours pass; recording does
\* not throw for ever, and OpenVibe.AI does not refuse for ever.
Fairness ==
  /\ WF_briefsVars(HourPasses)
  /\ WF_briefsVars(TickStep \/ CallStep(Worker))
  /\ SF_briefsVars(RecordSome(Worker))
  /\ SF_briefsVars(RecordRest(Worker))
  /\ SF_briefsVars(StoreBrief(Worker))

FairSpec == BriefsSpec /\ Fairness

------------------------------------------------------------------------------
(* Properties *)

Writing == {p \in Callers : At(p, "ai")}

\* Together with those being written, the briefs of an hour exceed the budget by at most one
\* per caller but the first: each may have read the budget before the others' stores (make).
BudgetBounded == lastHour + Cardinality(Writing) <= PerHour + Cardinality(Readers)

\* The same numbers and filings make no second brief after the first: of two in a row with the
\* same inputs, the second was begun before the first was stored (inputs_hash, make).
OncePerInput ==
  \A c \in Companies : \A k \in DOMAIN briefs[c] \ {1} :
    briefs[c][k].input = briefs[c][k - 1].input => briefs[c][k].began < briefs[c][k - 1].at

\* Numbers of company c were recorded, read and saved, and no brief is written from them; none
\* was being written when they came.
Unbriefed(c) ==
  /\ facts[c].ok /\ facts[c].n > 0
  /\ grown[c] <= facts[c].at
  /\ \A k \in DOMAIN briefs[c] :
       /\ briefs[c][k].input.numbers < numbers[c]
       /\ ~(briefs[c][k].began < grown[c] /\ grown[c] <= briefs[c][k].at)

\* Numbers that no brief was written from keep their company on the list of briefs that are due,
\* whatever is asked, read, thrown and removed meanwhile (due, make, record).
NewNumbersDue == \A c \in Companies : Unbriefed(c) => c \in BriefsDue

\* Another company is due before c although its brief is current: nothing takes it off the list,
\* and its place is lost to the others.
Stuck(c) ==
  \E d \in BriefsDue \ {c} : facts[d].at < facts[c].at /\ Current(d, Inputs(d))

\* A company with new numbers gets its brief, or finds one before it that is stuck (briefsTick,
\* due, make).
NewNumbersBriefed == \A c \in Companies : Unbriefed(c) ~> (~Unbriefed(c) \/ Stuck(c))

==============================================================================
