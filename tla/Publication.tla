------------------------------ MODULE Publication -----------------------------
(***************************************************************************)
(* What readers and OpenVibe.Search see of one instrument: the context     *)
(* revision on its page (server/domain/context.js: drafts, reviews,        *)
(* publish, retract), and the Search document that follows it              *)
(* (server/domain/indexing.js), refreshed by whoever changes the page, by  *)
(* recordings, by the two-step update of the API and the editor, and by    *)
(* the worker's tick.  Transactions are PostgreSQL's at READ COMMITTED.    *)
(*                                                                         *)
(* A revision's text, fields and citations are its number here, and so is  *)
(* a Search document's: the name, the aliases and the provenance it also   *)
(* holds are refreshed the same way.  0 is no revision, and no document.   *)
(***************************************************************************)
EXTENDS Naturals, Sequences

CONSTANTS
  Sessions,     \* requests of editors, of OpenVibe.AI and of feeds
  Worker,       \* the freshness tick
  MaxRevisions, \* bound on the revisions of the context
  MaxReviews    \* bound on the reviews recorded

ASSUME PublicationAssumption ==
  /\ Worker \notin Sessions
  /\ MaxRevisions \in Nat \ {0}
  /\ MaxReviews \in Nat

VARIABLES
  revs,        \* trade_context_revisions: the authorship mode of revision 1, 2, ...
  reviews,     \* trade_context_reviews, committed
  ids,         \* the last id the identity column of the reviews gave
  active,      \* trade_instruments.status
  pub,         \* trade_instruments.context_published_revision
  fresh,       \* the newest price is younger than TRADE_PRICE_MAX_AGE_SEC, or there is none
  indexed,     \* trade_index_revisions has a row for the instrument
  held,        \* the document of its newest revision: what Search was told last
  work         \* what each session and the worker is doing

vars == <<revs, reviews, ids, active, pub, fresh, indexed, held, work>>

Procs == Sessions \cup {Worker}

Review == [id: 1 .. MaxReviews, rev: 1 .. MaxRevisions, decision: {"approved", "rejected"}]

InstrumentRow == [active: BOOLEAN, pub: 0 .. MaxRevisions]

NoRow == [active |-> FALSE, pub |-> 0]

\* at: reviewed has approved revision `to`, checked may publish it; loaded and updated hold the
\* row they will refresh from; open has computed the document it will send.
\* sets (to), adds, priced, stamps (doc), review: what its transaction writes when it commits.
Work == [at: {"idle", "reviewed", "checked", "loaded", "updated", "open"}, row: InstrumentRow,
         to: 0 .. MaxRevisions, sets: BOOLEAN, adds: BOOLEAN, priced: BOOLEAN,
         doc: 0 .. MaxRevisions, stamps: BOOLEAN, review: SUBSET Review]

Idle == [at |-> "idle", row |-> NoRow, to |-> 0, sets |-> FALSE, adds |-> FALSE,
         priced |-> FALSE, doc |-> 0, stamps |-> FALSE, review |-> {}]

TypeOK ==
  /\ revs \in Seq({"human", "ai"}) /\ Len(revs) <= MaxRevisions
  /\ reviews \subseteq Review
  /\ ids \in 0 .. MaxReviews
  /\ active \in BOOLEAN /\ fresh \in BOOLEAN /\ indexed \in BOOLEAN
  /\ pub \in 0 .. MaxRevisions /\ held \in 0 .. MaxRevisions
  /\ work \in [Procs -> Work]

Init ==
  /\ revs = << >> /\ reviews = {} /\ ids = 0
  /\ active = TRUE /\ pub = 0 /\ fresh = TRUE
  /\ indexed = FALSE /\ held = 0
  /\ work = [p \in Procs |-> Idle]

------------------------------------------------------------------------------
(* Rules *)

\* Fault: any review will do.
ApprovedOrNot(log, n) == \E r \in log : r.rev = n

\* reviews.latest, the review with the greatest id, is an approval.
Approved(log, n) ==
  \E r \in log :
    /\ r.rev = n /\ r.decision = "approved"
    /\ \A s \in log : s.rev = n => s.id <= r.id

\* authorship.canPublish: what an AI wrote needs an approval as its latest review.
CanPublish(texts, log, n) == texts[n] = "human" \/ Approved(log, n)

\* The gate: an active instrument, a published context that may be published, no stale price.
Listable(row, texts, log, price) ==
  /\ row.active
  /\ row.pub # 0 /\ CanPublish(texts, log, row.pub)
  /\ price

\* The document of a page, or a tombstone.
Document(row, texts, log, price) ==
  IF Listable(row, texts, log, price) THEN row.pub ELSE 0

InstrumentNow == [active |-> active, pub |-> pub]

\* What Search should be told.
Wanted == Document(InstrumentNow, revs, reviews, fresh)

\* publication.sync: the sequencer takes a document that changed; a page that was never indexed
\* gets no tombstone.
Stamp(doc) ==
  /\ indexed' = (indexed \/ doc # 0)
  /\ held' = doc

\* No other transaction holds an uncommitted UPDATE of the instrument.
RowFree(p) == \A q \in Procs \ {p} : ~(work[q].at = "open" /\ work[q].sets)

------------------------------------------------------------------------------
(* Transactions open ... *)

\* p's transaction has written w and read `row`: it decides and builds the document.
Opened(w, row, texts, price) ==
  [w EXCEPT !.at = "open", !.row = NoRow, !.stamps = TRUE,
            !.doc = Document(row, texts, reviews \cup w.review, price)]

\* propose with publish: a new human revision, published in the same transaction.
OpenWrite(p) ==
  /\ work[p].at = "idle" /\ active
  /\ Len(revs) < MaxRevisions
  /\ RowFree(p)
  /\ work' = [work EXCEPT ![p] =
       Opened([Idle EXCEPT !.sets = TRUE, !.to = Len(revs) + 1, !.adds = TRUE],
              [active |-> active, pub |-> Len(revs) + 1], Append(revs, "human"), fresh)]
  /\ UNCHANGED <<revs, reviews, ids, active, pub, fresh, indexed, held>>

\* publish(n), called by the editor's form: its check is not in the transaction that follows.
CheckPublish(p, n) ==
  /\ work[p].at = "idle"
  /\ CanPublish(revs, reviews, n)
  /\ work' = [work EXCEPT ![p] = [Idle EXCEPT !.at = "checked", !.to = n]]
  /\ UNCHANGED <<revs, reviews, ids, active, pub, fresh, indexed, held>>

\* review(n, approved): the transaction inserts the review ...
Approve(p, n) ==
  /\ work[p].at = "idle"
  /\ ids < MaxReviews
  /\ ids' = ids + 1
  /\ work' = [work EXCEPT ![p] = [Idle EXCEPT !.at = "reviewed", !.to = n,
                !.review = {[id |-> ids + 1, rev |-> n, decision |-> "approved"]}]]
  /\ UNCHANGED <<revs, reviews, active, pub, fresh, indexed, held>>

\* ... and checks with it, and with what was committed meanwhile: a rejection with a greater id
\* refuses the approval, which is rolled back (Abort).
CheckApproved(p) ==
  /\ work[p].at = "reviewed"
  /\ CanPublish(revs, reviews \cup work[p].review, work[p].to)
  /\ work' = [work EXCEPT ![p].at = "checked"]
  /\ UNCHANGED <<revs, reviews, ids, active, pub, fresh, indexed, held>>

\* The transaction of publish: setPublished takes the row lock, the row is read back.
OpenPublish(p) ==
  /\ work[p].at = "checked"
  /\ RowFree(p)
  /\ work' = [work EXCEPT ![p] =
       Opened([@ EXCEPT !.sets = TRUE], [active |-> active, pub |-> @.to], revs, fresh)]
  /\ UNCHANGED <<revs, reviews, ids, active, pub, fresh, indexed, held>>

\* review(n, rejected): recorded, and nothing else.
Reject(p, n) ==
  /\ work[p].at = "idle"
  /\ ids < MaxReviews
  /\ ids' = ids + 1
  /\ work' = [work EXCEPT ![p] = [Idle EXCEPT !.at = "open",
                !.review = {[id |-> ids + 1, rev |-> n, decision |-> "rejected"]}]]
  /\ UNCHANGED <<revs, reviews, active, pub, fresh, indexed, held>>

Retract(p) ==
  /\ work[p].at = "idle"
  /\ RowFree(p)
  /\ work' = [work EXCEPT ![p] =
       Opened([Idle EXCEPT !.sets = TRUE], [active |-> active, pub |-> 0], revs, fresh)]
  /\ UNCHANGED <<revs, reviews, ids, active, pub, fresh, indexed, held>>

\* A recording reads its instrument when the request begins ...
Load(p) ==
  /\ work[p].at = "idle" /\ active
  /\ work' = [work EXCEPT ![p] = [Idle EXCEPT !.at = "loaded", !.row = InstrumentNow]]
  /\ UNCHANGED <<revs, reviews, ids, active, pub, fresh, indexed, held>>

\* ... and refreshes from what it read, after it inserted an observation (a new price, or not).
OpenRecord(p, price) ==
  /\ work[p].at = "loaded"
  /\ work' = [work EXCEPT ![p] =
       Opened([@ EXCEPT !.priced = price], @.row, revs, fresh \/ price)]
  /\ UNCHANGED <<revs, reviews, ids, active, pub, fresh, indexed, held>>

\* update(status): a transaction of its own ...
SetStatus(p, status) ==
  /\ work[p].at = "idle" /\ active # status
  /\ RowFree(p)
  /\ active' = status
  /\ work' = [work EXCEPT ![p] =
                [Idle EXCEPT !.at = "updated", !.row = [active |-> status, pub |-> pub]]]
  /\ UNCHANGED <<revs, reviews, ids, pub, fresh, indexed, held>>

\* ... and the route refreshes the row it returned in the next.
OpenRefresh(p) ==
  /\ work[p].at = "updated"
  /\ work' = [work EXCEPT ![p] = Opened(@, @.row, revs, fresh)]
  /\ UNCHANGED <<revs, reviews, ids, active, pub, fresh, indexed, held>>

\* Fault: only the instruments with a published context are refreshed.
CandidatePublished == active /\ pub # 0

\* indexCandidates: instruments that can have a document, or of which Search was told something.
Candidate == active /\ (pub # 0 \/ indexed)

\* freshnessTick, refreshAll.
Tick ==
  /\ work[Worker].at = "idle"
  /\ Candidate
  /\ work' = [work EXCEPT ![Worker] = Opened(Idle, InstrumentNow, revs, fresh)]
  /\ UNCHANGED <<revs, reviews, ids, active, pub, fresh, indexed, held>>

------------------------------------------------------------------------------
(* ... and commit, or do not. *)

\* Two revisions of one number conflict: the later transaction fails.
Finish(p) ==
  LET w == work[p] IN
  /\ w.at = "open"
  /\ w.adds => w.to = Len(revs) + 1
  /\ revs' = IF w.adds THEN Append(revs, "human") ELSE revs
  /\ reviews' = reviews \cup w.review
  /\ pub' = IF w.sets THEN w.to ELSE pub
  /\ fresh' = (fresh \/ w.priced)
  /\ IF w.stamps THEN Stamp(w.doc) ELSE UNCHANGED <<indexed, held>>
  /\ work' = [work EXCEPT ![p] = Idle]
  /\ UNCHANGED <<ids, active>>

\* The request fails, its transaction is rolled back, or the process dies.
Abort(p) ==
  /\ work[p].at # "idle"
  /\ work' = [work EXCEPT ![p] = Idle]
  /\ UNCHANGED <<revs, reviews, ids, active, pub, fresh, indexed, held>>

\* propose without publish: OpenVibe.AI's draft or an editor's.
Draft(mode) ==
  /\ active
  /\ Len(revs) < MaxRevisions
  /\ revs' = Append(revs, mode)
  /\ UNCHANGED <<reviews, ids, active, pub, fresh, indexed, held, work>>

\* No price was recorded for TRADE_PRICE_MAX_AGE_SEC.
PriceAges ==
  /\ fresh
  /\ fresh' = FALSE
  /\ UNCHANGED <<revs, reviews, ids, active, pub, indexed, held, work>>

SessionStep(p) ==
  \/ OpenWrite(p)
  \/ \E n \in 1 .. Len(revs) : CheckPublish(p, n) \/ Approve(p, n) \/ Reject(p, n)
  \/ CheckApproved(p)
  \/ OpenPublish(p)
  \/ Retract(p)
  \/ Load(p)
  \/ \E price \in BOOLEAN : OpenRecord(p, price)
  \/ \E status \in BOOLEAN : SetStatus(p, status)
  \/ OpenRefresh(p)

Next ==
  \/ \E p \in Sessions : SessionStep(p)
  \/ Tick
  \/ \E p \in Procs : Finish(p) \/ Abort(p)
  \/ \E mode \in {"human", "ai"} : Draft(mode)
  \/ PriceAges

\* The interval runs the tick again and again, it is not rolled back every time, and a request
\* that was not cut off goes on.
Fairness ==
  /\ SF_vars(Tick) /\ SF_vars(Finish(Worker))
  /\ \A p \in Sessions : WF_vars(OpenRefresh(p)) /\ SF_vars(Finish(p))

Spec == Init /\ [][Next]_vars

FairSpec == Spec /\ Fairness

------------------------------------------------------------------------------
(* Properties *)

\* A person wrote revision n, or approved it.
ByAPerson(n) ==
  /\ n \in 1 .. Len(revs)
  /\ revs[n] = "human" \/ \E r \in reviews : r.rev = n /\ r.decision = "approved"

\* Readers never see AI text no person approved, however checks, reviews and publications of
\* several editors interleave (context.js, publish, review).
ReadersSeeReviewed == pub # 0 => ByAPerson(pub)

\* Nor does Search, whichever stale row a document was built from (indexing.js, decide).
SearchHoldsReviewed == held # 0 => ByAPerson(held)

\* No request is under way.
Quiet == \A p \in Sessions : work[p].at = "idle"

\* Once requests stop, Search comes to hold what the page of an active instrument allows, and
\* keeps it: the context published last, or nothing (indexing.js, refresh, refreshAll).
SearchFollows == <>[](Quiet /\ active) => <>[](held = Wanted)

==============================================================================
