------------------------------- MODULE Ingest --------------------------------
(***************************************************************************)
(* The Sources sync (server/domain/ingest.js) and the documents it records *)
(* (server/domain/documents.js), with the document rules they trigger      *)
(* (alerts.onDocument), the script that moves the cursor, failures and     *)
(* crashes.                                                                *)
(*                                                                         *)
(* Sources keeps its items in the order of their last change; a run reads  *)
(* the pages after Trade's cursor.  A page is one transaction: its items,  *)
(* each under a savepoint, then the cursor.  Nothing of it is seen before  *)
(* it commits, so it works on a copy.  Statements read what is committed   *)
(* when they run: rules and instruments may change while a page is open.   *)
(* Observation items are recorded by Recording, health by SourceStatus.    *)
(*                                                                         *)
(* The pull loop and the cursor belong to openvibe-publishing/ingest.      *)
(***************************************************************************)
EXTENDS Integers, FiniteSets

CONSTANTS
  Items,          \* document items of the trade category
  CikOf,          \* per item, the CIK it states
  Instruments,
  None,
  Rules,          \* filing_type and new_document rules
  Matches,        \* (rule, instrument, item): the rule is about it, and about the item's form type
  PageSize,       \* config.sources.pageLimit
  MaxPages,       \* config.sources.maxPagesPerRun
  MaxSeq,         \* bound on the changes at Sources
  MaxIncidents    \* bound on the failed runs and the moves of the cursor

ASSUME IngestAssumption ==
  /\ IsFiniteSet(Items)
  /\ None \notin Instruments
  /\ Matches \subseteq Rules \X Instruments \X Items
  /\ PageSize \in Nat \ {0}
  /\ MaxPages \in Nat \ {0}
  /\ MaxSeq \in Nat
  /\ MaxIncidents \in Nat

VARIABLES
  feed,        \* at Sources, per item: its last change (0: none yet), revision, removal
  seq,         \* at Sources, the last change_seq given
  holder,      \* per CIK, the active instrument it names, or None (module Registry)
  rules,       \* per rule: absent, active or deleted
  db,          \* documents, deliveries, and the items the cursor passed unapplied (missed)
  cursor,      \* trade_ingest_cursor
  run,         \* the run in this process, with its open page
  unread,      \* history: the changes that the script moved the cursor over
  incidents    \* how many runs failed, or died, and how often the script moved the cursor

vars == <<feed, seq, holder, rules, db, cursor, run, unread, incidents>>

Ciks == {CikOf[i] : i \in Items}

FeedRow == [seq: Nat, rev: Nat, removed: BOOLEAN]

Change == [item: Items, seq: Nat, rev: Nat, removed: BOOLEAN]

Doc == [rev: Nat, hidden: BOOLEAN, of: Instruments \cup {None}]

Db == [docs: [Items -> Doc], deliveries: SUBSET (Rules \X Items), missed: SUBSET Items]

\* todo and next: what is left of the page, and the cursor it commits.  For the properties only:
\* since, the rules that were active when the page began and still are; left, what was unread then.
Run == [phase: {"idle", "reading", "paging"}, pages: Nat, todo: SUBSET Change, next: Nat,
        work: Db, since: SUBSET Rules, left: SUBSET (1 .. MaxSeq)]

NoDocs == [docs |-> [i \in Items |-> [rev |-> 0, hidden |-> FALSE, of |-> None]],
           deliveries |-> {}, missed |-> {}]

NoRun == [phase |-> "idle", pages |-> 0, todo |-> {}, next |-> 0, work |-> NoDocs, since |-> {},
          left |-> {}]

TypeOK ==
  /\ feed \in [Items -> FeedRow]
  /\ seq \in 0 .. MaxSeq
  /\ holder \in [Ciks -> Instruments \cup {None}]
  /\ rules \in [Rules -> {"absent", "active", "deleted"}]
  /\ db \in Db
  /\ cursor \in 0 .. MaxSeq
  /\ run \in Run
  /\ unread \subseteq 1 .. MaxSeq
  /\ incidents \in 0 .. MaxIncidents

Init ==
  /\ feed = [i \in Items |-> [seq |-> 0, rev |-> 0, removed |-> FALSE]]
  /\ seq = 0
  /\ holder = [c \in Ciks |-> None]
  /\ rules = [r \in Rules |-> "absent"]
  /\ db = NoDocs
  /\ cursor = 0
  /\ run = NoRun
  /\ unread = {}
  /\ incidents = 0

------------------------------------------------------------------------------
(* Sources: every change of an item moves it to the end of the order. *)

Changed(i, rev, removed) ==
  /\ seq < MaxSeq
  /\ seq' = seq + 1
  /\ feed' = [feed EXCEPT ![i] = [seq |-> seq + 1, rev |-> rev, removed |-> removed]]
  /\ UNCHANGED <<holder, rules, db, cursor, run, unread, incidents>>

\* A first revision, or a newer one, also of an item that was removed.
Publish(i) == Changed(i, feed[i].rev + 1, FALSE)

Withdraw(i) == feed[i].seq > 0 /\ ~feed[i].removed /\ Changed(i, feed[i].rev, TRUE)

------------------------------------------------------------------------------
(* People: instruments, document rules, and the rewind script. *)

\* An instrument with this CIK is created or archived, or an editor gives the CIK to another one.
Rekey(c, k) ==
  /\ holder[c] # k
  /\ holder' = [holder EXCEPT ![c] = k]
  /\ UNCHANGED <<feed, seq, rules, db, cursor, run, unread, incidents>>

CreateRule(r) ==
  /\ rules[r] = "absent"
  /\ rules' = [rules EXCEPT ![r] = "active"]
  /\ UNCHANGED <<feed, seq, holder, db, cursor, run, unread, incidents>>

RemoveRule(r) ==
  /\ rules[r] = "active"
  /\ rules' = [rules EXCEPT ![r] = "deleted"]
  /\ run' = [run EXCEPT !.since = @ \ {r}]
  /\ UNCHANGED <<feed, seq, holder, db, cursor, unread, incidents>>

\* rewind-sync-cursor.js sets the cursor, back or ahead, whatever a run is doing.  What it moves
\* over is not read; what it goes back before is read again.
Rewind(to) ==
  /\ incidents < MaxIncidents
  /\ to # cursor
  /\ cursor' = to
  /\ unread' = {n \in 1 .. to : n \in unread \/ n > cursor}
  /\ incidents' = incidents + 1
  /\ UNCHANGED <<feed, seq, holder, rules, db, run>>

------------------------------------------------------------------------------
(* The run. *)

\* run(): the timer or a webhook.  A call during a run shares it.
Start ==
  /\ run.phase = "idle"
  /\ run' = [NoRun EXCEPT !.phase = "reading"]
  /\ UNCHANGED <<feed, seq, holder, rules, db, cursor, unread, incidents>>

\* Fault: the cursor is taken for the next change to read.
BehindOffByOne == {i \in Items : feed[i].seq > cursor + 1}

Behind == {i \in Items : feed[i].seq > cursor}

\* The changes Sources answers with: the first PageSize after the cursor.
Answer ==
  {[item |-> i, seq |-> feed[i].seq, rev |-> feed[i].rev, removed |-> feed[i].removed] :
     i \in {j \in Behind : Cardinality({k \in Behind : feed[k].seq < feed[j].seq}) < PageSize}}

\* The next page is read and its transaction begins.
ReadPage ==
  /\ run.phase = "reading"
  /\ run.pages < MaxPages
  /\ Answer # {}
  /\ \E last \in Answer :
       /\ \A c \in Answer : c.seq <= last.seq
       /\ run' = [run EXCEPT !.phase = "paging", !.todo = Answer, !.next = last.seq, !.work = db,
                             !.since = {r \in Rules : rules[r] = "active"}, !.left = unread]
  /\ UNCHANGED <<feed, seq, holder, rules, db, cursor, unread, incidents>>

\* Nothing is left, or no more than the next run will read.
EndRun ==
  /\ run.phase = "reading"
  /\ run.pages > 0 \/ Answer = {}
  /\ run' = NoRun
  /\ UNCHANGED <<feed, seq, holder, rules, db, cursor, unread, incidents>>

\* documents.remove: hides the document Trade has, if any.
Removed(w, i) ==
  [w EXCEPT !.docs[i].hidden = @ \/ w.docs[i].rev > 0, !.missed = @ \ {i}]

\* onDocument: what a document of k first seen delivers, at most one per rule.
Triggered(i, k) == {<<r, i>> : r \in {q \in Rules : <<q, k, i>> \in Matches /\ rules[q] = "active"}}

\* Fault: a newer revision triggers the rules again.
UpsertedAlertsAgain(w, c, k) ==
  LET i == c.item IN
  [w EXCEPT !.docs[i].rev = IF c.rev > @ THEN c.rev ELSE @,
            !.docs[i].of = k,
            !.deliveries = IF c.rev > w.docs[i].rev THEN @ \cup Triggered(i, k) ELSE @,
            !.missed = @ \ {i}]

\* Fault: only an item's first revision counts as new.
UpsertedFirstRevision(w, c, k) ==
  LET i == c.item IN
  [w EXCEPT !.docs[i].rev = IF c.rev > @ THEN c.rev ELSE @,
            !.docs[i].of = k,
            !.deliveries = IF c.rev = 1 THEN @ \cup Triggered(i, k) ELSE @,
            !.missed = @ \ {i}]

\* documents.upsert: insert, revise, or touch, which changes nothing modelled.
Upserted(w, c, k) ==
  LET i == c.item IN
  [w EXCEPT !.docs[i].rev = IF c.rev > @ THEN c.rev ELSE @,
            !.docs[i].of = k,
            !.deliveries = IF w.docs[i].rev = 0 THEN @ \cup Triggered(i, k) ELSE @,
            !.missed = @ \ {i}]

Missed(w, i) == [w EXCEPT !.missed = @ \cup {i}]

\* The item names k, and has no document or one of k.
Fits(w, i, k) == k # None /\ w.docs[i].of \in {None, k}

\* applyItem: an item with no active instrument is skipped and counted; one whose document is
\* another instrument's leaves it as it is, and counts as applied.
Applied(w, c) ==
  LET k == holder[CikOf[c.item]] IN
  IF c.removed THEN Removed(w, c.item)
  ELSE IF Fits(w, c.item, k) THEN Upserted(w, c, k)
  ELSE Missed(w, c.item)

\* The page's next item, in change order.
Turn(c) == c \in run.todo /\ \A e \in run.todo : c.seq <= e.seq

ApplyItem(c) ==
  /\ run.phase = "paging"
  /\ Turn(c)
  /\ run' = [run EXCEPT !.todo = @ \ {c}, !.work = Applied(@, c)]
  /\ UNCHANGED <<feed, seq, holder, rules, db, cursor, unread, incidents>>

\* The item throws: its savepoint is undone and the page goes on.
FailItem(c) ==
  /\ run.phase = "paging"
  /\ Turn(c)
  /\ run' = [run EXCEPT !.todo = @ \ {c}, !.work = Missed(@, c.item)]
  /\ UNCHANGED <<feed, seq, holder, rules, db, cursor, unread, incidents>>

\* Fault: the cursor goes one past the page.
CommitPagePast ==
  /\ run.phase = "paging"
  /\ run.todo = {}
  /\ db' = run.work
  /\ cursor' = run.next + 1
  /\ unread' = run.left
  /\ run' = [NoRun EXCEPT !.phase = "reading", !.pages = run.pages + 1]
  /\ UNCHANGED <<feed, seq, holder, rules, incidents>>

\* The cursor is the page's, wherever the script has put it meanwhile.
CommitPage ==
  /\ run.phase = "paging"
  /\ run.todo = {}
  /\ db' = run.work
  /\ cursor' = run.next
  /\ unread' = run.left
  /\ run' = [NoRun EXCEPT !.phase = "reading", !.pages = run.pages + 1]
  /\ UNCHANGED <<feed, seq, holder, rules, incidents>>

\* Sources or PostgreSQL fails, or the process dies: an open page leaves nothing.
FailRun ==
  /\ run.phase # "idle"
  /\ incidents < MaxIncidents
  /\ incidents' = incidents + 1
  /\ run' = NoRun
  /\ UNCHANGED <<feed, seq, holder, rules, db, cursor, unread>>

RunStep ==
  \/ Start \/ ReadPage \/ EndRun \/ CommitPage
  \/ \E c \in run.todo : ApplyItem(c) \/ FailItem(c)

Next ==
  \/ \E i \in Items : Publish(i) \/ Withdraw(i)
  \/ \E c \in Ciks, k \in Instruments \cup {None} : Rekey(c, k)
  \/ \E r \in Rules : CreateRule(r) \/ RemoveRule(r)
  \/ \E to \in 0 .. MaxSeq : Rewind(to)
  \/ RunStep \/ FailRun

Spec == Init /\ [][Next]_vars

\* The timer starts a run again and again, and not every run fails.
Fairness == WF_vars(RunStep)

FairSpec == Spec /\ Fairness

------------------------------------------------------------------------------
(* Properties *)

\* What Trade has of an item is what Sources says of it.
Reflects(i) ==
  IF feed[i].removed THEN db.docs[i].rev = 0 \/ db.docs[i].hidden
  ELSE db.docs[i].rev = feed[i].rev

\* The cursor never passes a change that is not on record, whatever fails, dies, or is read again,
\* unless the item was skipped, failed on its own or met a document of another instrument, or the
\* script moved the cursor over the change (runOnce, pullChanges, upsert, rewind-sync-cursor.js).
CursorCovers ==
  \A i \in Items :
    feed[i].seq \in (1 .. cursor) \ unread /\ i \notin db.missed => Reflects(i)

\* A document first seen is delivered to every matching rule that was there before the page
\* and still is (upsert, onDocument).
EveryRuleTold ==
  [][\A r \in run.since, i \in Items :
       /\ db.docs[i].rev = 0 /\ db'.docs[i].rev > 0
       /\ <<r, db'.docs[i].of, i>> \in Matches
       => <<r, i>> \in db'.deliveries]_vars

\* Every change is on record in the end, or has one of those four excuses, or the item has changed
\* again: a wake-up that only shared the run under way loses nothing (run, the timer).
CatchesUp ==
  \A i \in Items, n \in 1 .. MaxSeq :
    (feed[i].seq = n) ~> (feed[i].seq # n \/ Reflects(i) \/ i \in db.missed \/ n \in unread)

\* Documents as DocumentLife sees them.
Life == INSTANCE DocumentLife WITH
  rev <- [i \in Items |-> db.docs[i].rev],
  hidden <- [i \in Items |-> db.docs[i].hidden],
  told <- [i \in Items |-> {r \in Rules : <<r, i>> \in db.deliveries}]

\* Pages, crashes, replays and incidents included, a document follows newer revisions only, its
\* rules hear of it once, when it is first seen, and hidden it stays (upsert, remove).
FollowsLife == Life!Spec

==============================================================================
