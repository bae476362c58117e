--------------------------- MODULE PublicationProofs --------------------------
(***************************************************************************)
(* For any number of sessions, revisions and reviews: the types of         *)
(* Publication, and that neither readers nor Search are ever given AI      *)
(* text no person approved.  The invariant follows the revision through    *)
(* every step that carries it: checked, read into a row, about to be       *)
(* written, about to be sent.                                              *)
(***************************************************************************)
EXTENDS Publication, SequenceTheorems, TLAPS

\* Revision n of `texts` is a person's, or `log` has an approval of it.
Vouched(n, texts, log) ==
  /\ n \in 1 .. Len(texts)
  /\ texts[n] = "human" \/ \E r \in log : r.rev = n /\ r.decision = "approved"

\* What a process carries is vouched for, by what is committed and by its own review.
WorkOk(w, texts, log) ==
  /\ w.at # "open" => ~w.adds /\ ~w.sets
  /\ w.at \in {"reviewed", "checked"} => Vouched(w.to, texts, log \cup w.review)
  /\ w.row.pub # 0 => Vouched(w.row.pub, texts, log)
  /\ w.at = "open" /\ w.adds => w.to # 0 /\ w.doc \in {0, w.to}
  /\ w.at = "open" /\ ~w.adds =>
       /\ w.sets /\ w.to # 0 => Vouched(w.to, texts, log \cup w.review)
       /\ w.doc # 0 => Vouched(w.doc, texts, log \cup w.review)

VouchInv ==
  /\ TypeOK
  /\ pub # 0 => Vouched(pub, revs, reviews)
  /\ held # 0 => Vouched(held, revs, reviews)
  /\ \A p \in Procs : WorkOk(work[p], revs, reviews)

------------------------------------------------------------------------------
(* The rules *)

\* What may be published is vouched for (authorship.canPublish).
LEMMA PublishVouched ==
  ASSUME NEW texts, NEW log, NEW n \in 1 .. Len(texts), CanPublish(texts, log, n)
  PROVE  Vouched(n, texts, log)
  BY DEF CanPublish, Approved, Vouched

\* Revisions and reviews are only ever added, so vouching lasts.
LEMMA VouchedLasts ==
  ASSUME NEW texts \in Seq({"human", "ai"}), NEW more \in Seq({"human", "ai"}),
         Len(texts) <= Len(more), \A i \in 1 .. Len(texts) : more[i] = texts[i],
         NEW log, NEW longer, log \subseteq longer, NEW n, Vouched(n, texts, log)
  PROVE  Vouched(n, more, longer)
<1>1. n \in 1 .. Len(more) /\ more[n] = texts[n]
  BY DEF Vouched
<1> QED
  BY <1>1 DEF Vouched

\* A document is the published revision's, and then that one may be published.
LEMMA DocumentIs ==
  ASSUME NEW row \in InstrumentRow, NEW texts, NEW log, NEW price
  PROVE  /\ Document(row, texts, log, price) \in 0 .. MaxRevisions
         /\ Document(row, texts, log, price) # 0 =>
              Document(row, texts, log, price) = row.pub /\ CanPublish(texts, log, row.pub)
  BY PublicationAssumption DEF Document, Listable, InstrumentRow

\* What a transaction that opens carries over, and what it computes.
LEMMA OpenedIs ==
  ASSUME NEW w \in Work, NEW row \in InstrumentRow, NEW texts, NEW price,
         NEW o, o = Opened(w, row, texts, price)
  PROVE  /\ o \in Work
         /\ o.at = "open" /\ o.row.pub = 0
         /\ o.to = w.to /\ o.sets = w.sets /\ o.adds = w.adds /\ o.review = w.review
         /\ o.doc = Document(row, texts, reviews \cup w.review, price)
<1> DEFINE d == Document(row, texts, reviews \cup w.review, price)
<1>1. d \in 0 .. MaxRevisions
  BY DocumentIs
<1>2. o = [w EXCEPT !.at = "open", !.row = NoRow, !.stamps = TRUE, !.doc = d]
  BY DEF Opened
<1>3. NoRow \in InstrumentRow /\ NoRow.pub = 0
  BY PublicationAssumption DEF NoRow, InstrumentRow
<1> HIDE DEF d
<1>4. /\ o \in Work
      /\ o.at = "open" /\ o.row.pub = 0
      /\ o.to = w.to /\ o.sets = w.sets /\ o.adds = w.adds /\ o.review = w.review
      /\ o.doc = d
  BY <1>1, <1>2, <1>3 DEF Work
<1> QED
  BY <1>4 DEF d

\* A process that does nothing carries nothing.
LEMMA IdleType ==
  /\ Idle \in Work /\ Idle.at = "idle" /\ Idle.row.pub = 0 /\ Idle.doc = 0
  /\ ~Idle.adds /\ ~Idle.sets /\ Idle.review = {} /\ Idle.to = 0
  BY PublicationAssumption DEF Idle, NoRow, Work, InstrumentRow

LEMMA IdleOk ==
  ASSUME NEW texts, NEW log
  PROVE  WorkOk(Idle, texts, log)
  BY IdleType, PublicationAssumption DEF WorkOk

------------------------------------------------------------------------------
(* The steps *)

\* What a process carries stays vouched for while revisions and reviews are added.
LEMMA WorkLasts ==
  ASSUME NEW texts \in Seq({"human", "ai"}), NEW more \in Seq({"human", "ai"}),
         Len(texts) <= Len(more), \A i \in 1 .. Len(texts) : more[i] = texts[i],
         NEW log, NEW longer, log \subseteq longer,
         NEW w, WorkOk(w, texts, log)
  PROVE  WorkOk(w, more, longer)
<1>1. log \cup w.review \subseteq longer \cup w.review
  OBVIOUS
<1>2. \A n : Vouched(n, texts, log) => Vouched(n, more, longer)
  BY VouchedLasts
<1>3. \A n : Vouched(n, texts, log \cup w.review) => Vouched(n, more, longer \cup w.review)
  BY <1>1, VouchedLasts
<1> QED
  BY <1>2, <1>3 DEF WorkOk

\* A step that only gives p something else to carry keeps the invariant.
LEMMA OneWorks ==
  ASSUME VouchInv, NEW p \in Procs, NEW o \in Work, WorkOk(o, revs, reviews),
         work' = [work EXCEPT ![p] = o],
         UNCHANGED <<revs, reviews, pub, fresh, indexed, held>>,
         ids' \in 0 .. MaxReviews, active' \in BOOLEAN
  PROVE  VouchInv'
<1>1. TypeOK'
  BY DEF VouchInv, TypeOK
<1>2. \A q \in Procs : work'[q] = IF q = p THEN o ELSE work[q]
  BY DEF VouchInv, TypeOK
<1>3. \A q \in Procs : WorkOk(work'[q], revs, reviews)
  BY <1>2 DEF VouchInv
<1> QED
  BY <1>1, <1>3 DEF VouchInv

\* What OpenWrite, OpenPublish, Retract, OpenRecord, OpenRefresh and the tick open is vouched for
\* when the row they decide on is.
LEMMA OpenedOk ==
  ASSUME VouchInv, NEW w \in Work, NEW row \in InstrumentRow, NEW price,
         ~w.adds,
         row.pub # 0 => Vouched(row.pub, revs, reviews \cup w.review),
         w.sets => w.to = row.pub
  PROVE  Opened(w, row, revs, price) \in Work /\ WorkOk(Opened(w, row, revs, price), revs, reviews)
<1> DEFINE o == Opened(w, row, revs, price)
<1>1. /\ o \in Work
      /\ o.at = "open" /\ o.row.pub = 0
      /\ o.to = w.to /\ o.sets = w.sets /\ o.adds = w.adds /\ o.review = w.review
      /\ o.doc = Document(row, revs, reviews \cup w.review, price)
  BY OpenedIs
<1> HIDE DEF o
<1>2. o.doc # 0 => o.doc = row.pub
  BY <1>1, DocumentIs
<1>3. WorkOk(o, revs, reviews)
  BY <1>1, <1>2 DEF WorkOk
<1> QED
  BY <1>1, <1>3 DEF o

\* The row that is committed is vouched for.
LEMMA RowNow ==
  ASSUME VouchInv
  PROVE  InstrumentNow \in InstrumentRow /\ (InstrumentNow.pub # 0 => Vouched(InstrumentNow.pub, revs, reviews))
  BY DEF VouchInv, TypeOK, InstrumentNow, InstrumentRow

\* More reviews vouch for as much.
LEMMA MoreReviews ==
  ASSUME VouchInv, NEW n, Vouched(n, revs, reviews), NEW more
  PROVE  Vouched(n, revs, reviews \cup more)
  BY VouchedLasts DEF VouchInv, TypeOK

\* A process carries something of its type.
LEMMA WorkType ==
  ASSUME VouchInv, NEW p \in Procs
  PROVE  work[p] \in Work /\ WorkOk(work[p], revs, reviews)
  BY DEF VouchInv, TypeOK

LEMMA OpenWriteStep ==
  ASSUME VouchInv, NEW p \in Procs, OpenWrite(p)
  PROVE  VouchInv'
<1>1. PICK n : n = Len(revs) + 1
  OBVIOUS
<1>2. PICK w : w = [Idle EXCEPT !.sets = TRUE, !.to = n, !.adds = TRUE]
  OBVIOUS
<1>3. PICK row : row = [active |-> active, pub |-> n]
  OBVIOUS
<1>4. n \in 0 .. MaxRevisions /\ n # 0
  BY <1>1, PublicationAssumption DEF OpenWrite, VouchInv, TypeOK
<1>5. w \in Work /\ w.adds /\ w.to = n
  BY <1>2, <1>4, IdleType DEF Work
<1>6. row \in InstrumentRow /\ row.pub = n
  BY <1>3, <1>4 DEF InstrumentRow, VouchInv, TypeOK
<1>7. PICK o : o = Opened(w, row, Append(revs, "human"), fresh)
  OBVIOUS
<1>8. o \in Work /\ o.at = "open" /\ o.row.pub = 0 /\ o.to = w.to /\ o.adds = w.adds
        /\ o.doc = Document(row, Append(revs, "human"), reviews \cup w.review, fresh)
  <2>1. PICK texts, price : texts = Append(revs, "human") /\ price = fresh
    OBVIOUS
  <2>2. w \in Work /\ row \in InstrumentRow /\ o = Opened(w, row, texts, price)
    BY <1>5, <1>6, <1>7, <2>1
  <2>3. o \in Work /\ o.at = "open" /\ o.row.pub = 0 /\ o.to = w.to /\ o.adds = w.adds
          /\ o.doc = Document(row, texts, reviews \cup w.review, price)
    BY <2>2, OpenedIs
  <2> QED
    BY <2>1, <2>3
<1>9. o.doc \in {0, n}
  BY <1>6, <1>8, DocumentIs
<1>10. WorkOk(o, revs, reviews)
  BY <1>4, <1>5, <1>8, <1>9 DEF WorkOk
<1>11. work' = [work EXCEPT ![p] = o]
         /\ UNCHANGED <<revs, reviews, ids, active, pub, fresh, indexed, held>>
  BY <1>1, <1>2, <1>3, <1>7 DEF OpenWrite
<1> QED
  BY <1>8, <1>10, <1>11, OneWorks DEF VouchInv, TypeOK

LEMMA CheckPublishStep ==
  ASSUME VouchInv, NEW p \in Procs, NEW n \in 1 .. Len(revs), CheckPublish(p, n)
  PROVE  VouchInv'
<1>1. n \in 0 .. MaxRevisions /\ Vouched(n, revs, reviews)
  BY PublishVouched, PublicationAssumption DEF CheckPublish, VouchInv, TypeOK
<1>2. PICK o : o = [Idle EXCEPT !.at = "checked", !.to = n]
  OBVIOUS
<1>3. o \in Work /\ o.at = "checked" /\ o.to = n /\ o.row.pub = 0 /\ ~o.adds /\ ~o.sets
  BY <1>1, <1>2, IdleType DEF Work
<1>4. work' = [work EXCEPT ![p] = o]
        /\ UNCHANGED <<revs, reviews, ids, active, pub, fresh, indexed, held>>
  BY <1>2 DEF CheckPublish
<1>5. WorkOk(o, revs, reviews)
  BY <1>1, <1>3, MoreReviews DEF WorkOk
<1> QED
  BY <1>3, <1>4, <1>5, OneWorks DEF VouchInv, TypeOK

LEMMA ApproveStep ==
  ASSUME VouchInv, NEW p \in Procs, NEW n \in 1 .. Len(revs), Approve(p, n)
  PROVE  VouchInv'
<1>1. PICK mine : mine = [id |-> ids + 1, rev |-> n, decision |-> "approved"]
  OBVIOUS
<1>2. n \in 0 .. MaxRevisions /\ n # 0 /\ ids + 1 \in 0 .. MaxReviews /\ ids + 1 # 0
  BY PublicationAssumption DEF Approve, VouchInv, TypeOK
<1>3. mine \in Review
  BY <1>1, <1>2, PublicationAssumption DEF Review
<1>4. PICK w : w = [Idle EXCEPT !.at = "reviewed", !.to = n, !.review = {mine}]
  OBVIOUS
<1>5. w \in Work /\ w.at = "reviewed" /\ w.to = n /\ w.row.pub = 0 /\ w.review = {mine}
        /\ ~w.adds /\ ~w.sets
  BY <1>2, <1>3, <1>4, IdleType DEF Work
<1>6. work' = [work EXCEPT ![p] = w] /\ ids' = ids + 1
        /\ UNCHANGED <<revs, reviews, active, pub, fresh, indexed, held>>
  BY <1>1, <1>4 DEF Approve
<1>7. Vouched(n, revs, reviews \cup {mine})
  BY <1>1 DEF Vouched
<1>8. WorkOk(w, revs, reviews)
  BY <1>5, <1>7 DEF WorkOk
<1> QED
  BY <1>2, <1>5, <1>6, <1>8, OneWorks DEF VouchInv, TypeOK

LEMMA CheckApprovedStep ==
  ASSUME VouchInv, NEW p \in Procs, CheckApproved(p)
  PROVE  VouchInv'
<1>1. work[p] \in Work /\ WorkOk(work[p], revs, reviews) /\ work[p].at = "reviewed"
  BY WorkType DEF CheckApproved
<1>2. PICK o : o = [work[p] EXCEPT !.at = "checked"]
  OBVIOUS
<1>3. o \in Work /\ o.at = "checked" /\ o.to = work[p].to /\ o.row = work[p].row
        /\ o.review = work[p].review /\ o.adds = work[p].adds /\ o.sets = work[p].sets
  BY <1>1, <1>2 DEF Work
<1>4. work' = [work EXCEPT ![p] = o]
        /\ UNCHANGED <<revs, reviews, ids, active, pub, fresh, indexed, held>>
  BY <1>2 DEF CheckApproved
<1>5. WorkOk(o, revs, reviews)
  BY <1>1, <1>3 DEF WorkOk
<1> QED
  BY <1>3, <1>4, <1>5, OneWorks DEF VouchInv, TypeOK

LEMMA RejectStep ==
  ASSUME VouchInv, NEW p \in Procs, NEW n \in 1 .. Len(revs), Reject(p, n)
  PROVE  VouchInv'
<1> DEFINE mine == [id |-> ids + 1, rev |-> n, decision |-> "rejected"]
           o == [Idle EXCEPT !.at = "open", !.review = {mine}]
<1>1. n \in 1 .. MaxRevisions /\ ids + 1 \in 1 .. MaxReviews
  BY PublicationAssumption DEF Reject, VouchInv, TypeOK
<1>2. mine \in Review
  BY <1>1 DEF Review
<1>3. work' = [work EXCEPT ![p] = o] /\ ids' = ids + 1
        /\ UNCHANGED <<revs, reviews, active, pub, fresh, indexed, held>>
  BY DEF Reject
<1> HIDE DEF mine
<1>4. o \in Work /\ o.at = "open" /\ o.row.pub = 0 /\ ~o.adds /\ ~o.sets /\ o.doc = 0
  BY <1>2, IdleType, PublicationAssumption DEF Work
<1> HIDE DEF o
<1>5. WorkOk(o, revs, reviews)
  BY <1>4 DEF WorkOk
<1> QED
  BY <1>1, <1>3, <1>4, <1>5, OneWorks DEF VouchInv, TypeOK

\* Whatever opens with a row that is vouched for keeps the invariant.
LEMMA OpenStep ==
  ASSUME VouchInv, NEW p \in Procs, NEW w \in Work, NEW row \in InstrumentRow, NEW price,
         ~w.adds,
         row.pub # 0 => Vouched(row.pub, revs, reviews \cup w.review),
         w.sets => w.to = row.pub,
         work' = [work EXCEPT ![p] = Opened(w, row, revs, price)],
         UNCHANGED <<revs, reviews, ids, active, pub, fresh, indexed, held>>
  PROVE  VouchInv'
<1>1. PICK o : o = Opened(w, row, revs, price)
  OBVIOUS
<1>2. o \in Work /\ WorkOk(o, revs, reviews)
  BY <1>1, OpenedOk
<1>3. work' = [work EXCEPT ![p] = o]
  BY <1>1
<1> QED
  BY <1>2, <1>3, OneWorks DEF VouchInv, TypeOK

LEMMA OpenPublishStep ==
  ASSUME VouchInv, NEW p \in Procs, OpenPublish(p)
  PROVE  VouchInv'
<1>1. PICK w : w = [work[p] EXCEPT !.sets = TRUE]
  OBVIOUS
<1>2. work[p] \in Work /\ WorkOk(work[p], revs, reviews) /\ work[p].at = "checked"
  BY WorkType DEF OpenPublish
<1>3. PICK row : row = [active |-> active, pub |-> work[p].to]
  OBVIOUS
<1>4. row \in InstrumentRow /\ row.pub = work[p].to
  BY <1>2, <1>3 DEF InstrumentRow, Work, VouchInv, TypeOK
<1>5. PICK price : price = fresh
  OBVIOUS
<1>6. w \in Work /\ w.to = work[p].to /\ w.review = work[p].review /\ w.adds = work[p].adds
  BY <1>1, <1>2 DEF Work
<1>7. work' = [work EXCEPT ![p] = Opened(w, row, revs, price)]
        /\ UNCHANGED <<revs, reviews, ids, active, pub, fresh, indexed, held>>
  BY <1>1, <1>3, <1>5 DEF OpenPublish
<1>8. Vouched(row.pub, revs, reviews \cup w.review)
  BY <1>2, <1>4, <1>6 DEF WorkOk
<1>9. ~w.adds
  BY <1>2, <1>6 DEF WorkOk
<1> QED
  BY <1>4, <1>6, <1>7, <1>8, <1>9, OpenStep

LEMMA RetractStep ==
  ASSUME VouchInv, NEW p \in Procs, Retract(p)
  PROVE  VouchInv'
<1>1. PICK w : w = [Idle EXCEPT !.sets = TRUE]
  OBVIOUS
<1>2. PICK row, price : row = [active |-> active, pub |-> 0] /\ price = fresh
  OBVIOUS
<1>3. w \in Work /\ w.to = 0 /\ ~w.adds
  BY <1>1, IdleType DEF Work
<1>4. row \in InstrumentRow /\ row.pub = 0
  BY <1>2, PublicationAssumption DEF InstrumentRow, VouchInv, TypeOK
<1>5. work' = [work EXCEPT ![p] = Opened(w, row, revs, price)]
        /\ UNCHANGED <<revs, reviews, ids, active, pub, fresh, indexed, held>>
  BY <1>1, <1>2 DEF Retract
<1> QED
  BY <1>3, <1>4, <1>5, OpenStep

\* A row read now and kept for a refresh later (Load, SetStatus).
LEMMA KeptRow ==
  ASSUME VouchInv, NEW row \in InstrumentRow, row.pub = pub, NEW at \in {"loaded", "updated"},
         NEW o, o = [Idle EXCEPT !.at = at, !.row = row]
  PROVE  o \in Work /\ WorkOk(o, revs, reviews)
<1>1. o \in Work /\ o.at = at /\ o.row = row /\ ~o.adds /\ ~o.sets
  BY IdleType DEF Work
<1>2. row.pub # 0 => Vouched(row.pub, revs, reviews)
  BY DEF VouchInv
<1> QED
  BY <1>1, <1>2 DEF WorkOk

LEMMA LoadStep ==
  ASSUME VouchInv, NEW p \in Procs, Load(p)
  PROVE  VouchInv'
<1>1. PICK row : row = InstrumentNow
  OBVIOUS
<1>2. row \in InstrumentRow /\ row.pub = pub
  BY <1>1 DEF InstrumentNow, InstrumentRow, VouchInv, TypeOK
<1>3. PICK o : o = [Idle EXCEPT !.at = "loaded", !.row = row]
  OBVIOUS
<1>4. o \in Work /\ WorkOk(o, revs, reviews)
  BY <1>2, <1>3, KeptRow
<1>5. work' = [work EXCEPT ![p] = o]
        /\ UNCHANGED <<revs, reviews, ids, active, pub, fresh, indexed, held>>
  BY <1>1, <1>3 DEF Load
<1> QED
  BY <1>4, <1>5, OneWorks DEF VouchInv, TypeOK

LEMMA SetStatusStep ==
  ASSUME VouchInv, NEW p \in Procs, NEW status \in BOOLEAN, SetStatus(p, status)
  PROVE  VouchInv'
<1>1. PICK row : row = [active |-> status, pub |-> pub]
  OBVIOUS
<1>2. row \in InstrumentRow /\ row.pub = pub
  BY <1>1 DEF InstrumentRow, VouchInv, TypeOK
<1>3. PICK o : o = [Idle EXCEPT !.at = "updated", !.row = row]
  OBVIOUS
<1>4. o \in Work /\ WorkOk(o, revs, reviews)
  BY <1>2, <1>3, KeptRow
<1>5. work' = [work EXCEPT ![p] = o] /\ active' = status
        /\ UNCHANGED <<revs, reviews, ids, pub, fresh, indexed, held>>
  BY <1>1, <1>3 DEF SetStatus
<1> QED
  BY <1>4, <1>5, OneWorks DEF VouchInv, TypeOK

\* A refresh from the row p kept, with or without a new price (OpenRecord, OpenRefresh).
LEMMA KeptStep ==
  ASSUME VouchInv, NEW p \in Procs, work[p].at # "open", NEW w \in Work,
         w.adds = work[p].adds, w.sets = work[p].sets, NEW price,
         work' = [work EXCEPT ![p] = Opened(w, work[p].row, revs, price)],
         UNCHANGED <<revs, reviews, ids, active, pub, fresh, indexed, held>>
  PROVE  VouchInv'
<1>1. work[p] \in Work /\ WorkOk(work[p], revs, reviews)
  BY WorkType
<1>2. PICK row : row = work[p].row
  OBVIOUS
<1>3. row \in InstrumentRow /\ (row.pub # 0 => Vouched(row.pub, revs, reviews))
        /\ ~w.adds /\ ~w.sets
  BY <1>1, <1>2 DEF Work, WorkOk
<1>4. row.pub # 0 => Vouched(row.pub, revs, reviews \cup w.review)
  BY <1>3, MoreReviews
<1> QED
  BY <1>2, <1>3, <1>4, OpenStep

LEMMA OpenRecordStep ==
  ASSUME VouchInv, NEW p \in Procs, NEW price \in BOOLEAN, OpenRecord(p, price)
  PROVE  VouchInv'
<1>1. PICK w, all : w = [work[p] EXCEPT !.priced = price] /\ all = (fresh \/ price)
  OBVIOUS
<1>2. work[p] \in Work
  BY WorkType
<1>3. w \in Work /\ w.adds = work[p].adds /\ w.sets = work[p].sets
  BY <1>1, <1>2 DEF Work
<1>4. work' = [work EXCEPT ![p] = Opened(w, work[p].row, revs, all)] /\ work[p].at # "open"
        /\ UNCHANGED <<revs, reviews, ids, active, pub, fresh, indexed, held>>
  BY <1>1 DEF OpenRecord
<1> QED
  BY <1>3, <1>4, KeptStep

LEMMA OpenRefreshStep ==
  ASSUME VouchInv, NEW p \in Procs, OpenRefresh(p)
  PROVE  VouchInv'
<1>1. PICK w, price : w = work[p] /\ price = fresh
  OBVIOUS
<1>2. w \in Work
  BY <1>1, WorkType
<1>3. work' = [work EXCEPT ![p] = Opened(w, work[p].row, revs, price)] /\ work[p].at # "open"
        /\ UNCHANGED <<revs, reviews, ids, active, pub, fresh, indexed, held>>
  BY <1>1 DEF OpenRefresh
<1> QED
  BY <1>1, <1>2, <1>3, KeptStep

LEMMA TickStep ==
  ASSUME VouchInv, Tick
  PROVE  VouchInv'
<1>1. PICK row, price, w : row = InstrumentNow /\ price = fresh /\ w = Idle
  OBVIOUS
<1>2. row \in InstrumentRow /\ (row.pub # 0 => Vouched(row.pub, revs, reviews))
  BY <1>1, RowNow
<1>3. row.pub # 0 => Vouched(row.pub, revs, reviews \cup w.review)
  BY <1>2, MoreReviews
<1>4. work' = [work EXCEPT ![Worker] = Opened(w, row, revs, price)]
        /\ UNCHANGED <<revs, reviews, ids, active, pub, fresh, indexed, held>>
  BY <1>1 DEF Tick
<1>5. w \in Work /\ ~w.adds /\ ~w.sets /\ Worker \in Procs
  BY <1>1, IdleType DEF Procs
<1> QED
  BY <1>2, <1>3, <1>4, <1>5, OpenStep

\* A commit: revisions and reviews grow, and what becomes public was vouched for.
LEMMA FinishStep ==
  ASSUME VouchInv, NEW p \in Procs, Finish(p)
  PROVE  VouchInv'
<1>1. PICK w : w = work[p]
  OBVIOUS
<1>2. w \in Work /\ WorkOk(w, revs, reviews) /\ w.at = "open"
  BY <1>1, WorkType DEF Finish
<1>3. /\ w.adds => w.to = Len(revs) + 1
      /\ revs' = IF w.adds THEN Append(revs, "human") ELSE revs
      /\ reviews' = reviews \cup w.review
      /\ pub' = IF w.sets THEN w.to ELSE pub
      /\ fresh' = (fresh \/ w.priced)
      /\ IF w.stamps THEN Stamp(w.doc) ELSE UNCHANGED <<indexed, held>>
      /\ work' = [work EXCEPT ![p] = Idle]
      /\ UNCHANGED <<ids, active>>
  BY <1>1 DEF Finish
<1>4. w.to \in 0 .. MaxRevisions /\ w.doc \in 0 .. MaxRevisions /\ w.review \subseteq Review
        /\ w.priced \in BOOLEAN /\ w.sets \in BOOLEAN /\ w.adds \in BOOLEAN
  BY <1>2 DEF Work
<1>5. revs \in Seq({"human", "ai"}) /\ Len(revs) <= MaxRevisions
  BY DEF VouchInv, TypeOK
<1>6. /\ revs' \in Seq({"human", "ai"}) /\ Len(revs') <= MaxRevisions
      /\ Len(revs) <= Len(revs') /\ \A i \in 1 .. Len(revs) : revs'[i] = revs[i]
      /\ w.adds => w.to \in 1 .. Len(revs') /\ revs'[w.to] = "human"
  <2>1. CASE w.adds
    BY <1>3, <1>4, <1>5, <2>1, PublicationAssumption
  <2>2. CASE ~w.adds
    BY <1>3, <1>5, <2>2
  <2> QED
    BY <2>1, <2>2
<1>7. \A n : Vouched(n, revs, reviews) => Vouched(n, revs', reviews')
  <2>1. ASSUME NEW n, Vouched(n, revs, reviews) PROVE Vouched(n, revs', reviews')
    BY <1>3, <1>6, <2>1 DEF Vouched
  <2> QED
    BY <2>1
<1>8. \A n : Vouched(n, revs, reviews \cup w.review) => Vouched(n, revs', reviews')
  <2>1. ASSUME NEW n, Vouched(n, revs, reviews \cup w.review) PROVE Vouched(n, revs', reviews')
    BY <1>3, <1>6, <2>1 DEF Vouched
  <2> QED
    BY <2>1
<1>9. w.adds => Vouched(w.to, revs', reviews')
  BY <1>6 DEF Vouched
<1>10. w.sets /\ w.to # 0 => Vouched(w.to, revs', reviews')
  BY <1>2, <1>8, <1>9 DEF WorkOk
<1>11. w.doc # 0 => Vouched(w.doc, revs', reviews')
  BY <1>2, <1>8, <1>9 DEF WorkOk
<1>12. pub' # 0 => Vouched(pub', revs', reviews')
  BY <1>3, <1>4, <1>7, <1>10 DEF VouchInv
<1>13. held' # 0 => Vouched(held', revs', reviews')
  <2>1. held' = w.doc \/ held' = held
    BY <1>3 DEF Stamp
  <2>2. held # 0 => Vouched(held, revs', reviews')
    BY <1>7 DEF VouchInv
  <2> QED
    BY <1>11, <2>1, <2>2
<1>14. \A q \in Procs : work'[q] = IF q = p THEN Idle ELSE work[q]
  BY <1>3 DEF VouchInv, TypeOK
<1>15. ASSUME NEW q \in Procs PROVE WorkOk(work'[q], revs', reviews')
  <2>1. CASE q = p
    <3>1. PICK texts, log : texts = revs' /\ log = reviews'
      OBVIOUS
    <3>2. WorkOk(Idle, texts, log)
      BY IdleOk
    <3> QED
      BY <1>14, <2>1, <3>1, <3>2
  <2>2. CASE q # p
    <3>1. PICK v : v = work[q]
      OBVIOUS
    <3>2. WorkOk(v, revs, reviews)
      BY <3>1, WorkType
    <3>3. \A n : Vouched(n, revs, reviews \cup v.review) => Vouched(n, revs', reviews' \cup v.review)
      <4>1. ASSUME NEW n, Vouched(n, revs, reviews \cup v.review)
            PROVE  Vouched(n, revs', reviews' \cup v.review)
        BY <1>3, <1>6, <4>1 DEF Vouched
      <4> QED
        BY <4>1
    <3>4. WorkOk(v, revs', reviews')
      BY <1>7, <3>2, <3>3 DEF WorkOk
    <3> QED
      BY <1>14, <2>2, <3>1, <3>4
  <2> QED
    BY <2>1, <2>2
<1>16. TypeOK'
  <2>1. work' \in [Procs -> Work]
    BY <1>3, IdleType DEF VouchInv, TypeOK
  <2>2. held' \in 0 .. MaxRevisions /\ indexed' \in BOOLEAN
    BY <1>3, <1>4 DEF VouchInv, TypeOK, Stamp
  <2>3. pub' \in 0 .. MaxRevisions /\ reviews' \subseteq Review /\ fresh' \in BOOLEAN
    BY <1>3, <1>4 DEF VouchInv, TypeOK
  <2> QED
    BY <1>3, <1>6, <2>1, <2>2, <2>3 DEF VouchInv, TypeOK
<1> QED
  BY <1>12, <1>13, <1>15, <1>16 DEF VouchInv

LEMMA AbortStep ==
  ASSUME VouchInv, NEW p \in Procs, Abort(p)
  PROVE  VouchInv'
<1>1. PICK o : o = Idle
  OBVIOUS
<1>2. o \in Work /\ WorkOk(o, revs, reviews)
  <2>1. PICK texts, log : texts = revs /\ log = reviews
    OBVIOUS
  <2> QED
    BY <1>1, <2>1, IdleOk, IdleType
<1>3. work' = [work EXCEPT ![p] = o]
        /\ UNCHANGED <<revs, reviews, ids, active, pub, fresh, indexed, held>>
  BY <1>1 DEF Abort
<1> QED
  BY <1>2, <1>3, OneWorks DEF VouchInv, TypeOK

LEMMA DraftStep ==
  ASSUME VouchInv, NEW mode \in {"human", "ai"}, Draft(mode)
  PROVE  VouchInv'
<1>1. revs' = Append(revs, mode) /\ Len(revs) < MaxRevisions
        /\ UNCHANGED <<reviews, ids, active, pub, fresh, indexed, held, work>>
  BY DEF Draft
<1>2. revs \in Seq({"human", "ai"}) /\ Len(revs) <= MaxRevisions
  BY DEF VouchInv, TypeOK
<1>3. revs' \in Seq({"human", "ai"}) /\ Len(revs') <= MaxRevisions
        /\ Len(revs) <= Len(revs') /\ \A i \in 1 .. Len(revs) : revs'[i] = revs[i]
  BY <1>1, <1>2, PublicationAssumption
<1>4. ASSUME NEW n, NEW log, Vouched(n, revs, log) PROVE Vouched(n, revs', log)
  BY <1>3, <1>4 DEF Vouched
<1>5. \A q \in Procs : WorkOk(work[q], revs', reviews)
  <2>1. ASSUME NEW q \in Procs PROVE WorkOk(work[q], revs', reviews)
    <3>1. PICK v : v = work[q]
      OBVIOUS
    <3>2. WorkOk(v, revs, reviews)
      BY <3>1, WorkType
    <3>3. \A n : Vouched(n, revs, reviews) => Vouched(n, revs', reviews)
      BY <1>3 DEF Vouched
    <3>4. \A n : Vouched(n, revs, reviews \cup v.review) => Vouched(n, revs', reviews \cup v.review)
      BY <1>3 DEF Vouched
    <3> QED
      BY <3>1, <3>2, <3>3, <3>4 DEF WorkOk
  <2> QED
    BY <2>1
<1>6. (pub # 0 => Vouched(pub, revs', reviews)) /\ (held # 0 => Vouched(held, revs', reviews))
  BY <1>3 DEF VouchInv, Vouched
<1> QED
  BY <1>1, <1>3, <1>5, <1>6 DEF VouchInv, TypeOK

------------------------------------------------------------------------------

\* Every step keeps what is public, and what is about to be, vouched for.
LEMMA VouchStep == VouchInv /\ [Next]_vars => VouchInv'
<1> SUFFICES ASSUME VouchInv, [Next]_vars PROVE VouchInv'
  OBVIOUS
<1>1. ASSUME NEW p \in Sessions, SessionStep(p) PROVE VouchInv'
  <2>1. p \in Procs
    BY DEF Procs
  <2> QED
    BY <1>1, <2>1, OpenWriteStep, CheckPublishStep, ApproveStep, CheckApprovedStep,
       RejectStep, OpenPublishStep, RetractStep, LoadStep, OpenRecordStep, SetStatusStep, OpenRefreshStep, Zenon
       DEF SessionStep
<1>2. CASE PriceAges
  BY <1>2 DEF PriceAges, VouchInv, TypeOK
<1>3. CASE UNCHANGED vars
  BY <1>3 DEF vars, VouchInv, TypeOK
<1> QED
  BY <1>1, <1>2, <1>3, TickStep, FinishStep, AbortStep, DraftStep, Zenon DEF Next

\* Nothing is public.
LEMMA InitVouched == Init => VouchInv
<1> SUFFICES ASSUME Init PROVE VouchInv
  OBVIOUS
<1>1. TypeOK
  <2>1. work \in [Procs -> Work]
    BY IdleType DEF Init
  <2>2. revs \in Seq({"human", "ai"}) /\ Len(revs) <= MaxRevisions
    BY PublicationAssumption DEF Init
  <2>3. reviews \subseteq Review /\ ids \in 0 .. MaxReviews
          /\ pub \in 0 .. MaxRevisions /\ held \in 0 .. MaxRevisions
    BY PublicationAssumption DEF Init
  <2>4. active \in BOOLEAN /\ fresh \in BOOLEAN /\ indexed \in BOOLEAN
    BY Zenon DEF Init
  <2> QED
    BY <2>1, <2>2, <2>3, <2>4 DEF TypeOK
<1>2. ASSUME NEW q \in Procs PROVE WorkOk(work[q], revs, reviews)
  <2>1. PICK texts, log : texts = revs /\ log = reviews
    OBVIOUS
  <2>2. WorkOk(Idle, texts, log) /\ work[q] = Idle
    BY IdleOk DEF Init
  <2> QED
    BY <2>1, <2>2
<1> QED
  BY <1>1, <1>2 DEF Init, VouchInv

LEMMA AlwaysVouched == Spec => []VouchInv
  BY InitVouched, VouchStep, PTL DEF Spec

\* Every variable keeps its type (context.js, indexing.js).
THEOREM TypeCorrect == Spec => []TypeOK
<1>1. VouchInv => TypeOK
  BY DEF VouchInv
<1> QED
  BY <1>1, AlwaysVouched, PTL

\* Readers never see AI text that no person approved, for any number of editors, drafts and
\* reviews, though the check of publish is outside its transaction (context.js, publish).
THEOREM ReadersProtected == Spec => []ReadersSeeReviewed
<1>1. VouchInv => ReadersSeeReviewed
  BY DEF VouchInv, Vouched, ReadersSeeReviewed, ByAPerson
<1> QED
  BY <1>1, AlwaysVouched, PTL

\* Nor does Search, though refreshes read rows that may be stale by the time their documents are
\* stamped (indexing.js, refresh).
THEOREM SearchProtected == Spec => []SearchHoldsReviewed
<1>1. VouchInv => SearchHoldsReviewed
  BY DEF VouchInv, Vouched, SearchHoldsReviewed, ByAPerson
<1> QED
  BY <1>1, AlwaysVouched, PTL

==============================================================================
