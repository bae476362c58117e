----------------------------- MODULE IngestProofs -----------------------------
(***************************************************************************)
(* The cursor of the sync covers what is on record, documents live as      *)
(* DocumentLife says, and no rule that was there is left untold, for any    *)
(* items, rules, pages and failures.                                       *)
(***************************************************************************)
EXTENDS Ingest, FiniteSetTheorems, TLAPS

\* What tables w have of item i is what Sources says of it.
Stands(w, i) ==
  IF feed[i].removed THEN w.docs[i].rev = 0 \/ w.docs[i].hidden
  ELSE w.docs[i].rev = feed[i].rev

\* Tables never run ahead of Sources, and hide only what they have.
Behaved(w) ==
  \A i \in Items : w.docs[i].rev <= feed[i].rev /\ (w.docs[i].rev = 0 => ~w.docs[i].hidden)

SameTold(i, v, w) == \A r \in Rules : <<r, i>> \in v.deliveries <=> <<r, i>> \in w.deliveries

\* From tables v to tables w the document of item i makes at most one step of its life.
Lived(i, v, w) ==
  \/ v.docs[i].rev = 0 /\ w.docs[i].rev > 0 /\ ~w.docs[i].hidden
  \/ /\ v.docs[i].rev > 0 /\ w.docs[i].rev > v.docs[i].rev
     /\ w.docs[i].hidden = v.docs[i].hidden /\ SameTold(i, v, w)
  \/ /\ v.docs[i].rev > 0 /\ w.docs[i].rev = v.docs[i].rev
     /\ w.docs[i].hidden /\ SameTold(i, v, w)
  \/ /\ w.docs[i].rev = v.docs[i].rev /\ w.docs[i].hidden = v.docs[i].hidden
     /\ SameTold(i, v, w)

\* Item i was filed since tables v, and rule q, which was there and is about it, was not told.
Untold(q, i, v, w, since) ==
  /\ v.docs[i].rev = 0 /\ w.docs[i].rev > 0
  /\ q \in since /\ <<q, w.docs[i].of, i>> \in Matches
  /\ <<q, i>> \notin w.deliveries

\* A change of a page is the item's last, unless it changed after the page.
Fresh(c, next) ==
  /\ c.rev <= feed[c.item].rev /\ c.rev > 0
  /\ feed[c.item].seq <= next => c.rev = feed[c.item].rev /\ c.removed = feed[c.item].removed

\* An open page: each item changes once, and what is neither done nor to do is as it was.
PageOk(v, w, todo, next, since, left) ==
  /\ next <= seq /\ Behaved(w)
  /\ since \subseteq {r \in Rules : rules[r] = "active"}
  /\ \A c \in todo : Fresh(c, next)
  /\ \A c, e \in todo : c.item = e.item => c = e
  /\ \A i \in Items : feed[i].seq \in (1 .. next) \ left =>
       i \in w.missed \/ Stands(w, i) \/ \E c \in todo : c.item = i
  /\ \A i \in Items : Lived(i, v, w)
  /\ \A c \in todo : w.docs[c.item] = v.docs[c.item] /\ SameTold(c.item, v, w)
  /\ \A q \in Rules, i \in Items : ~Untold(q, i, v, w, since)

PageInv == run.phase = "paging" => PageOk(db, run.work, run.todo, run.next, run.since, run.left)

FeedInv == \A i \in Items : feed[i].seq <= seq /\ (feed[i].seq > 0 => feed[i].rev > 0)

\* Where the script has put the cursor ahead of Sources, the changes to come are not read.
AheadUnread == \A n \in 1 .. cursor : n > seq => n \in unread

SyncInv == TypeOK /\ FeedInv /\ AheadUnread /\ Behaved(db) /\ CursorCovers /\ PageInv

------------------------------------------------------------------------------
(* What an item does to the tables *)

LEMMA RemovedFacts ==
  ASSUME NEW w \in Db, NEW i \in Items
  PROVE  /\ Removed(w, i) \in Db
         /\ Removed(w, i).missed = w.missed \ {i} /\ Removed(w, i).deliveries = w.deliveries
         /\ \A j \in Items : j # i => Removed(w, i).docs[j] = w.docs[j]
         /\ Removed(w, i).docs[i].rev = w.docs[i].rev /\ Removed(w, i).docs[i].of = w.docs[i].of
         /\ Removed(w, i).docs[i].hidden = (w.docs[i].hidden \/ w.docs[i].rev > 0)
BY DEF Removed, Db, Doc

LEMMA MissedFacts ==
  ASSUME NEW w \in Db, NEW i \in Items
  PROVE  /\ Missed(w, i) \in Db
         /\ Missed(w, i).missed = w.missed \cup {i}
         /\ Missed(w, i).deliveries = w.deliveries /\ Missed(w, i).docs = w.docs
BY DEF Missed, Db

LEMMA UpsertedFacts ==
  ASSUME NEW w \in Db, NEW c \in Change, NEW i \in Items, i = c.item, NEW k \in Instruments
  PROVE  /\ Upserted(w, c, k) \in Db
         /\ Upserted(w, c, k).missed = w.missed \ {i}
         /\ Upserted(w, c, k).deliveries =
              IF w.docs[i].rev = 0 THEN w.deliveries \cup Triggered(i, k) ELSE w.deliveries
         /\ \A j \in Items : j # i => Upserted(w, c, k).docs[j] = w.docs[j]
         /\ Upserted(w, c, k).docs[i].rev = (IF c.rev > w.docs[i].rev THEN c.rev ELSE w.docs[i].rev)
         /\ Upserted(w, c, k).docs[i].hidden = w.docs[i].hidden
         /\ Upserted(w, c, k).docs[i].of = k
<1>1. Triggered(i, k) \in SUBSET (Rules \X Items)
  <2> SUFFICES ASSUME NEW d \in Triggered(i, k) PROVE d \in Rules \X Items
    OBVIOUS
  <2>1. PICK r \in Rules : d = <<r, i>>
    BY Zenon DEF Triggered
  <2> QED
    BY <2>1
<1>t. PICK told \in SUBSET (Rules \X Items) :
        told = IF w.docs[i].rev = 0 THEN w.deliveries \cup Triggered(i, k) ELSE w.deliveries
  BY <1>1 DEF Db
<1>r. PICK rev \in Nat : rev = IF c.rev > w.docs[i].rev THEN c.rev ELSE w.docs[i].rev
  BY DEF Db, Doc, Change
<1>x. PICK v : v = [w EXCEPT !.docs[i].rev = rev, !.docs[i].of = k, !.deliveries = told, !.missed = @ \ {i}]
  OBVIOUS
<1>2. Upserted(w, c, k) = v
  BY <1>t, <1>r, <1>x DEF Upserted
<1>d. PICK docs \in [Items -> Doc] : docs = [w.docs EXCEPT ![i].rev = rev, ![i].of = k]
  <2>1. w.docs \in [Items -> Doc] /\ w.docs[i] \in Doc
    BY DEF Db
  <2>2. [w.docs[i] EXCEPT !.rev = rev, !.of = k] \in Doc
    BY <2>1 DEF Doc
  <2>3. [w.docs EXCEPT ![i].rev = rev, ![i].of = k] = [w.docs EXCEPT ![i] = [w.docs[i] EXCEPT !.rev = rev, !.of = k]]
    BY <2>1 DEF Doc
  <2> QED
    BY <2>1, <2>2, <2>3
<1>m. PICK missed \in SUBSET Items : missed = w.missed \ {i}
  BY DEF Db
<1>3. v \in Db
  <2>1. v = [w EXCEPT !.docs = docs, !.deliveries = told, !.missed = missed]
    BY <1>x, <1>d, <1>m
  <2> QED
    BY <2>1 DEF Db
<1>4. /\ v.missed = w.missed \ {i} /\ v.deliveries = told
      /\ \A j \in Items : j # i => v.docs[j] = w.docs[j]
      /\ v.docs[i].rev = rev /\ v.docs[i].hidden = w.docs[i].hidden /\ v.docs[i].of = k
  BY <1>x DEF Db, Doc
<1> QED
  BY <1>2, <1>3, <1>4, <1>t, <1>r

------------------------------------------------------------------------------
(* The invariant *)

LEMMA NoDocsFacts ==
  /\ NoDocs \in Db /\ NoRun \in Run /\ NoRun.phase = "idle"
  /\ \A i \in Items : NoDocs.docs[i].rev = 0 /\ ~NoDocs.docs[i].hidden
BY DEF NoDocs, NoRun, Run, Db, Doc, Change

LEMMA InitInv == Init => SyncInv
<1> SUFFICES ASSUME Init PROVE SyncInv
  OBVIOUS
<1>1. /\ feed \in [Items -> FeedRow]
      /\ \A i \in Items : feed[i].seq = 0 /\ feed[i].rev = 0
  BY DEF Init, FeedRow
<1>2. TypeOK
  BY <1>1, NoDocsFacts, IngestAssumption DEF Init, TypeOK
<1>3. FeedInv /\ AheadUnread /\ CursorCovers
  BY <1>1 DEF Init, FeedInv, AheadUnread, CursorCovers
<1>4. Behaved(db)
  BY <1>1, NoDocsFacts DEF Init, Behaved
<1>5. PageInv
  BY NoDocsFacts DEF Init, PageInv
<1> QED
  BY <1>2, <1>3, <1>4, <1>5 DEF SyncInv

\* An item that changes at Sources is behind the cursor, and behind any open page.
LEMMA ChangedKeeps ==
  ASSUME SyncInv, NEW i \in Items, NEW rev \in Nat, NEW removed \in BOOLEAN,
         Changed(i, rev, removed), rev >= feed[i].rev, rev > 0
  PROVE  SyncInv'
<1>x. PICK row : row = [seq |-> seq + 1, rev |-> rev, removed |-> removed]
  OBVIOUS
<1>2. /\ row \in FeedRow /\ row.seq = seq + 1 /\ row.rev = rev /\ row.removed = removed
      /\ seq' = seq + 1 /\ seq \in Nat /\ seq' \in 0 .. MaxSeq
      /\ feed' = [feed EXCEPT ![i] = row] /\ UNCHANGED <<holder, rules, db, cursor, run, unread, incidents>>
  BY <1>x, IngestAssumption DEF Changed, SyncInv, TypeOK, FeedRow
<1>3. /\ feed' \in [Items -> FeedRow] /\ feed'[i] = row
      /\ \A j \in Items : j # i => feed'[j] = feed[j]
  BY <1>2 DEF SyncInv, TypeOK
<1>4. TypeOK'
  BY <1>2, <1>3 DEF SyncInv, TypeOK
<1>5. FeedInv' /\ AheadUnread'
  <2>1. \A j \in Items : feed[j].seq \in Nat /\ feed[j].rev \in Nat
    BY DEF SyncInv, TypeOK, FeedRow
  <2>2. FeedInv'
    BY <1>2, <1>3, <2>1 DEF SyncInv, FeedInv
  <2>3. AheadUnread'
    BY <1>2, IngestAssumption DEF SyncInv, TypeOK, AheadUnread
  <2> QED
    BY <2>2, <2>3
<1>6. ASSUME NEW w \in Db, Behaved(w) PROVE Behaved(w)'
  <2> SUFFICES ASSUME NEW j \in Items
               PROVE  w.docs[j].rev <= feed'[j].rev /\ (w.docs[j].rev = 0 => ~w.docs[j].hidden)
    BY DEF Behaved
  <2>1. w.docs[j].rev \in Nat /\ w.docs[j].rev <= feed[j].rev /\ feed[j].rev \in Nat
    BY <1>6 DEF Behaved, Db, Doc, SyncInv, TypeOK, FeedRow
  <2>2. w.docs[j].rev = 0 => ~w.docs[j].hidden
    BY <1>6 DEF Behaved
  <2> QED
    BY <1>2, <1>3, <2>1, <2>2
<1>7. Behaved(db)'
  BY <1>2, <1>6 DEF SyncInv, TypeOK, Behaved
<1>8. CursorCovers'
  <2> SUFFICES ASSUME NEW j \in Items, feed'[j].seq \in (1 .. cursor) \ unread, j \notin db.missed
               PROVE  Reflects(j)'
    BY <1>2 DEF CursorCovers
  <2>1. j # i
    BY <1>2, <1>3, IngestAssumption DEF SyncInv, TypeOK, AheadUnread
  <2> QED
    BY <2>1, <1>2, <1>3 DEF SyncInv, CursorCovers, Reflects
<1>9. PageInv'
  <2> SUFFICES ASSUME run.phase = "paging"
               PROVE  PageOk(db, run.work, run.todo, run.next, run.since, run.left)'
    BY <1>2 DEF PageInv
  <2>1. PICK w \in Db, todo \in SUBSET Change, next \in Nat, since \in SUBSET Rules,
               left \in SUBSET (1 .. MaxSeq) :
          w = run.work /\ todo = run.todo /\ next = run.next /\ since = run.since
            /\ left = run.left
    BY DEF SyncInv, TypeOK, Run
  <2>2. PageOk(db, w, todo, next, since, left)
    BY <2>1 DEF SyncInv, PageInv
  <2>3. next <= seq' /\ Behaved(w)' /\ since \subseteq {r \in Rules : rules'[r] = "active"}
    BY <2>2, <1>2, <1>6 DEF PageOk
  <2>4. \A c \in todo : Fresh(c, next)'
    <3> SUFFICES ASSUME NEW c \in todo PROVE Fresh(c, next)'
      OBVIOUS
    <3>1. Fresh(c, next) /\ c.item \in Items /\ c.rev \in Nat
      BY <2>2 DEF PageOk, Change
    <3>2. CASE c.item = i
      <4>1. feed'[c.item].seq = seq + 1 /\ next <= seq /\ c.rev <= feed[i].rev /\ feed[i].rev \in Nat
        BY <3>1, <3>2, <2>2, <1>2, <1>3 DEF PageOk, Fresh, SyncInv, TypeOK, FeedRow
      <4>2. ~(feed'[c.item].seq <= next)
        BY <4>1, <1>2
      <4>3. c.rev <= feed'[c.item].rev
        BY <4>1, <3>1, <3>2, <1>2, <1>3
      <4> QED
        BY <4>2, <4>3, <3>1 DEF Fresh
    <3>3. CASE c.item # i
      BY <3>1, <3>3, <1>3 DEF Fresh
    <3> QED
      BY <3>2, <3>3
  <2>5. ASSUME NEW j \in Items, feed'[j].seq \in (1 .. next) \ left
        PROVE  j \in w.missed \/ Stands(w, j)' \/ \E c \in todo : c.item = j
    <3>1. j # i
      BY <2>2, <2>5, <1>2, <1>3 DEF PageOk
    <3> QED
      BY <3>1, <2>2, <2>5, <1>3 DEF PageOk, Stands
  <2>6. PageOk(db, w, todo, next, since, left)'
    BY <2>2, <2>3, <2>4, <2>5, <1>2 DEF PageOk, Lived, SameTold, Untold
  <2> QED
    BY <2>1, <2>6, <1>2
<1> QED
  BY <1>4, <1>5, <1>7, <1>8, <1>9 DEF SyncInv

LEMMA SourcesKeep ==
  ASSUME SyncInv, NEW i \in Items, Publish(i) \/ Withdraw(i)
  PROVE  SyncInv'
<1>1. feed[i].rev \in Nat /\ feed[i].seq \in Nat /\ (feed[i].seq > 0 => feed[i].rev > 0)
  BY DEF SyncInv, TypeOK, FeedInv, FeedRow
<1>2. CASE Publish(i)
  <2>1. PICK rev \in Nat : rev = feed[i].rev + 1
    BY <1>1
  <2>2. Changed(i, rev, FALSE) /\ rev >= feed[i].rev /\ rev > 0
    BY <1>1, <1>2, <2>1 DEF Publish, Changed
  <2> QED
    BY <2>2, ChangedKeeps
<1>3. CASE Withdraw(i)
  <2>1. PICK rev \in Nat : rev = feed[i].rev
    BY <1>1
  <2>2. Changed(i, rev, TRUE) /\ rev >= feed[i].rev /\ rev > 0
    BY <1>1, <1>3, <2>1 DEF Withdraw, Changed
  <2> QED
    BY <2>2, ChangedKeeps
<1> QED
  BY <1>2, <1>3

\* Instruments and rules come and go, also under an open page; the script may move the cursor.
LEMMA PeopleKeep ==
  ASSUME SyncInv,
         \/ \E c \in Ciks, k \in Instruments \cup {None} : Rekey(c, k)
         \/ \E r \in Rules : CreateRule(r) \/ RemoveRule(r)
         \/ \E to \in 0 .. MaxSeq : Rewind(to)
  PROVE  SyncInv'
<1>1. CASE \E c \in Ciks, k \in Instruments \cup {None} : Rekey(c, k)
  <2>1. holder' \in [Ciks -> Instruments \cup {None}]
        /\ UNCHANGED <<feed, seq, rules, db, cursor, run, unread, incidents>>
    BY <1>1 DEF Rekey, SyncInv, TypeOK
  <2>2. TypeOK'
    BY <2>1 DEF SyncInv, TypeOK
  <2> QED
    BY <2>1, <2>2 DEF SyncInv, FeedInv, AheadUnread, Behaved, CursorCovers, Reflects,
                      PageInv, PageOk,
                      Fresh, Stands, Lived, SameTold, Untold
<1>2. CASE \E r \in Rules : CreateRule(r)
  <2> PICK r \in Rules : CreateRule(r)
    BY <1>2
  <2>1. /\ rules' \in [Rules -> {"absent", "active", "deleted"}]
        /\ \A q \in Rules : rules[q] = "active" => rules'[q] = "active"
        /\ UNCHANGED <<feed, seq, holder, db, cursor, run, unread, incidents>>
    BY DEF CreateRule, SyncInv, TypeOK
  <2>2. TypeOK'
    BY <2>1 DEF SyncInv, TypeOK
  <2>3. PageInv'
    BY <2>1 DEF SyncInv, PageInv, PageOk, Behaved, Fresh, Stands, Lived, SameTold, Untold
  <2> QED
    BY <2>1, <2>2, <2>3 DEF SyncInv, FeedInv, AheadUnread, Behaved, CursorCovers, Reflects
<1>3. CASE \E r \in Rules : RemoveRule(r)
  <2> PICK r \in Rules : RemoveRule(r)
    BY <1>3
  <2>1. /\ rules' \in [Rules -> {"absent", "active", "deleted"}]
        /\ \A q \in Rules : q # r => rules'[q] = rules[q]
        /\ run' = [run EXCEPT !.since = @ \ {r}]
        /\ UNCHANGED <<feed, seq, holder, db, cursor, unread, incidents>>
    BY DEF RemoveRule, SyncInv, TypeOK
  <2>2. /\ run' \in Run /\ run'.phase = run.phase /\ run'.todo = run.todo
        /\ run'.next = run.next /\ run'.work = run.work /\ run'.since = run.since \ {r}
        /\ run'.left = run.left
    BY <2>1 DEF SyncInv, TypeOK, Run
  <2>3. TypeOK'
    BY <2>1, <2>2 DEF SyncInv, TypeOK
  <2>4. PageInv'
    <3> SUFFICES ASSUME run.phase = "paging"
                 PROVE  PageOk(db, run.work, run.todo, run.next, run.since, run.left)'
      BY <2>2 DEF PageInv
    <3>1. PICK w \in Db, todo \in SUBSET Change, next \in Nat, since \in SUBSET Rules,
               left \in SUBSET (1 .. MaxSeq) :
            w = run.work /\ todo = run.todo /\ next = run.next /\ since = run.since
            /\ left = run.left
      BY DEF SyncInv, TypeOK, Run
    <3>2. PageOk(db, w, todo, next, since, left)
      BY <3>1 DEF SyncInv, PageInv
    <3>3. PageOk(db, w, todo, next, since \ {r}, left)'
      BY <3>2, <2>1 DEF PageOk, Behaved, Fresh, Stands, Lived, SameTold, Untold
    <3> QED
      BY <3>1, <3>3, <2>2
  <2> QED
    BY <2>1, <2>3, <2>4 DEF SyncInv, FeedInv, AheadUnread, Behaved, CursorCovers, Reflects
<1>4. CASE \E to \in 0 .. MaxSeq : Rewind(to)
  <2> PICK to \in 0 .. MaxSeq : Rewind(to)
    BY <1>4
  <2>1. /\ cursor' = to /\ incidents' \in 0 .. MaxIncidents
        /\ unread' = {n \in 1 .. to : n \in unread \/ n > cursor}
        /\ UNCHANGED <<feed, seq, holder, rules, db, run>>
    BY IngestAssumption DEF Rewind, SyncInv, TypeOK
  <2>2. to \in Nat /\ cursor \in Nat /\ seq \in Nat /\ \A i \in Items : feed[i].seq \in Nat
    BY IngestAssumption DEF SyncInv, TypeOK, FeedRow
  <2>3. TypeOK'
    BY <2>1, IngestAssumption DEF SyncInv, TypeOK
  <2>4. CursorCovers' /\ AheadUnread'
    <3>1. AheadUnread'
      BY <2>1, <2>2 DEF SyncInv, AheadUnread
    <3>2. ASSUME NEW i \in Items, feed[i].seq \in (1 .. to) \ unread', i \notin db.missed
          PROVE  Reflects(i)
      <4>1. feed[i].seq \in (1 .. cursor) \ unread
        BY <2>1, <2>2, <3>2
      <4> QED
        BY <4>1, <3>2 DEF SyncInv, CursorCovers
    <3> QED
      BY <2>1, <3>1, <3>2 DEF CursorCovers, Reflects
  <2>5. PageInv'
    BY <2>1 DEF SyncInv, PageInv, PageOk, Behaved, Fresh, Stands, Lived, SameTold, Untold
  <2> QED
    BY <2>1, <2>3, <2>4, <2>5 DEF SyncInv, FeedInv, Behaved
<1> QED
  BY <1>1, <1>2, <1>3, <1>4

\* A run that begins, ends or fails leaves what is on record.
LEMMA RunTurns ==
  ASSUME SyncInv, Start \/ EndRun \/ FailRun
  PROVE  SyncInv'
<1>0. PICK none \in Run : none = NoRun /\ none.phase = "idle"
  BY NoDocsFacts
<1>1. run' \in Run /\ run'.phase # "paging"
  <2>1. CASE Start
    <3>1. run' = [none EXCEPT !.phase = "reading"]
      BY <1>0, <2>1 DEF Start
    <3> QED
      BY <3>1 DEF Run
  <2>2. CASE EndRun \/ FailRun
    BY <1>0, <2>2 DEF EndRun, FailRun
  <2> QED
    BY <2>1, <2>2
<1>2. incidents' \in 0 .. MaxIncidents /\ UNCHANGED <<feed, seq, holder, rules, db, cursor, unread>>
  <2>1. incidents \in 0 .. MaxIncidents
    BY DEF SyncInv, TypeOK
  <2>2. CASE Start \/ EndRun
    BY <2>1, <2>2 DEF Start, EndRun
  <2>3. CASE FailRun
    BY <2>1, <2>3, IngestAssumption DEF FailRun
  <2> QED
    BY <2>2, <2>3
<1>3. TypeOK'
  BY <1>1, <1>2 DEF SyncInv, TypeOK
<1> QED
  BY <1>1, <1>2, <1>3 DEF SyncInv, FeedInv, AheadUnread, Behaved, CursorCovers, Reflects, PageInv

\* What is committed is what the open page did.
LEMMA CommitKeeps ==
  ASSUME SyncInv, CommitPage
  PROVE  SyncInv'
<1>1. PICK w \in Db, next \in Nat, left \in SUBSET (1 .. MaxSeq) :
        w = run.work /\ next = run.next /\ left = run.left
  BY DEF SyncInv, TypeOK, Run
<1>2. PageOk(db, w, {}, next, run.since, left)
  BY <1>1 DEF SyncInv, PageInv, CommitPage
<1>3. db' = w /\ cursor' = next /\ unread' = left /\ UNCHANGED <<feed, seq, holder, rules, incidents>>
  BY <1>1 DEF CommitPage
<1>4. run' \in Run /\ run'.phase = "reading"
  <2>1. PICK none \in Run : none = NoRun
    BY NoDocsFacts
  <2>2. PICK pages \in Nat : pages = run.pages + 1
    BY DEF SyncInv, TypeOK, Run
  <2>3. run' = [none EXCEPT !.phase = "reading", !.pages = pages]
    BY <2>1, <2>2 DEF CommitPage
  <2> QED
    BY <2>3 DEF Run
<1>5. next <= seq /\ next \in 0 .. MaxSeq
  BY <1>2, IngestAssumption DEF PageOk, SyncInv, TypeOK
<1>6. TypeOK'
  BY <1>3, <1>4, <1>5 DEF SyncInv, TypeOK
<1>7. CursorCovers'
  BY <1>2, <1>3 DEF PageOk, CursorCovers, Reflects, Stands
<1>8. Behaved(db)' /\ AheadUnread'
  BY <1>2, <1>3, <1>5, IngestAssumption DEF PageOk, Behaved, AheadUnread, SyncInv, TypeOK
<1> QED
  BY <1>3, <1>4, <1>5, <1>6, <1>7, <1>8 DEF SyncInv, FeedInv, PageInv

\* Sources' answer is the last change of each item it holds, and of every item up to its end.
LEMMA AnswerFacts ==
  ASSUME SyncInv, NEW last \in Answer, \A c \in Answer : c.seq <= last.seq
  PROVE  /\ \A c \in Answer :
              /\ c \in Change /\ c.item \in Items
              /\ c.seq = feed[c.item].seq /\ c.rev = feed[c.item].rev
              /\ c.removed = feed[c.item].removed /\ c.seq > cursor
         /\ \A c, e \in Answer : c.item = e.item => c = e
         /\ \A i \in Items :
              feed[i].seq > cursor /\ feed[i].seq <= last.seq => \E c \in Answer : c.item = i
<1>f. PICK First : First = {j \in Behind : Cardinality({k \in Behind : feed[k].seq < feed[j].seq}) < PageSize}
  OBVIOUS
<1>r. PICK Row : Row = [i \in Items |->
        [item |-> i, seq |-> feed[i].seq, rev |-> feed[i].rev, removed |-> feed[i].removed]]
  OBVIOUS
<1>1. \A i \in Items :
        /\ Row[i] \in Change /\ Row[i].item = i /\ Row[i].seq = feed[i].seq
        /\ Row[i].rev = feed[i].rev /\ Row[i].removed = feed[i].removed
  <2>1. \A i \in Items : feed[i].seq \in Nat /\ feed[i].rev \in Nat /\ feed[i].removed \in BOOLEAN
    BY DEF SyncInv, TypeOK, FeedRow
  <2> QED
    BY <2>1, <1>r DEF Change
<1>2. Behind \subseteq Items /\ First \subseteq Behind /\ \A i \in Behind : feed[i].seq > cursor
  BY <1>f DEF Behind
<1>3. Answer = {Row[i] : i \in First}
  BY <1>2, <1>f, <1>r DEF Answer
<1>4. ASSUME NEW c \in Answer PROVE c.item \in First /\ c = Row[c.item]
  <2>1. PICK i \in First : c = Row[i]
    BY <1>3
  <2>2. Row[i].item = i
    BY <1>1, <1>2
  <2> QED
    BY <2>1, <2>2
<1>5. ASSUME NEW i \in Items, feed[i].seq > cursor, feed[i].seq <= last.seq
      PROVE  \E c \in Answer : c.item = i
  <2> PICK j \in First : j = last.item
    BY <1>4
  <2>1. last.seq = feed[j].seq /\ i \in Behind /\ j \in Behind
    BY <1>1, <1>2, <1>4, <1>5 DEF Behind
  <2> PICK Before : Before = [m \in Behind |-> {k \in Behind : feed[k].seq < feed[m].seq}]
    OBVIOUS
  <2>2. Before[i] \subseteq Before[j]
    <3>1. \A k \in Items : feed[k].seq \in Nat
      BY DEF SyncInv, TypeOK, FeedRow
    <3> QED
      BY <2>1, <3>1, <1>2, <1>5
  <2>3. IsFiniteSet(Before[j])
    <3>1. Before[j] \subseteq Items
      BY <1>2, <2>1
    <3> QED
      BY <3>1, FS_Subset, IngestAssumption
  <2>4. Cardinality(Before[i]) <= Cardinality(Before[j]) /\ IsFiniteSet(Before[i])
    BY <2>2, <2>3, FS_Subset
  <2>5. Cardinality(Before[j]) < PageSize
    <3>1. Before[j] = {k \in Behind : feed[k].seq < feed[j].seq}
      BY <2>1
    <3>2. Cardinality({k \in Behind : feed[k].seq < feed[j].seq}) < PageSize
      BY <1>f
    <3> QED
      BY <3>1, <3>2
  <2>6. Cardinality(Before[i]) \in Nat /\ Cardinality(Before[j]) \in Nat
    BY <2>3, <2>4, FS_CardinalityType
  <2>7. Cardinality(Before[i]) < PageSize
    BY <2>4, <2>5, <2>6, IngestAssumption
  <2>8. i \in First
    <3>1. Before[i] = {k \in Behind : feed[k].seq < feed[i].seq}
      BY <2>1
    <3> QED
      BY <3>1, <2>1, <2>7, <1>f
  <2> QED
    BY <2>8, <1>1, <1>3
<1>6. ASSUME NEW c \in Answer, NEW e \in Answer, c.item = e.item PROVE c = e
  BY <1>4, <1>6
<1>7. ASSUME NEW c \in Answer
      PROVE  /\ c \in Change /\ c.item \in Items
             /\ c.seq = feed[c.item].seq /\ c.rev = feed[c.item].rev
             /\ c.removed = feed[c.item].removed /\ c.seq > cursor
  <2>1. PICK i \in First : i = c.item /\ c = Row[i]
    BY <1>4
  <2>2. i \in Items /\ feed[i].seq > cursor
    BY <1>2
  <2> QED
    BY <2>1, <2>2, <1>1
<1> QED
  BY <1>5, <1>6, <1>7

\* A page begins with the tables as they are: up to the cursor they stand, and the rest is to do.
LEMMA ReadPageKeeps ==
  ASSUME SyncInv, ReadPage
  PROVE  SyncInv'
<1>1. PICK last \in Answer :
        /\ \A c \in Answer : c.seq <= last.seq
        /\ run' = [run EXCEPT !.phase = "paging", !.todo = Answer, !.next = last.seq, !.work = db,
                              !.since = {r \in Rules : rules[r] = "active"}, !.left = unread]
  BY DEF ReadPage
<1>2. UNCHANGED <<feed, seq, holder, rules, db, cursor, unread, incidents>>
  BY DEF ReadPage
<1>3. /\ \A c \in Answer :
           /\ c \in Change /\ c.item \in Items
           /\ c.seq = feed[c.item].seq /\ c.rev = feed[c.item].rev
           /\ c.removed = feed[c.item].removed /\ c.seq > cursor
      /\ \A c, e \in Answer : c.item = e.item => c = e
      /\ \A i \in Items :
           feed[i].seq > cursor /\ feed[i].seq <= last.seq => \E c \in Answer : c.item = i
  BY <1>1, AnswerFacts
<1>t. PICK todo \in SUBSET Change : todo = Answer
  BY <1>3
<1>n. PICK next \in Nat : next = last.seq
  BY <1>3 DEF Change
<1>s. PICK since \in SUBSET Rules : since = {r \in Rules : rules[r] = "active"}
  OBVIOUS
<1>w. PICK w \in Db : w = db
  BY DEF SyncInv, TypeOK
<1>l. PICK left \in SUBSET (1 .. MaxSeq) : left = unread
  BY DEF SyncInv, TypeOK
<1>4. run' = [run EXCEPT !.phase = "paging", !.todo = todo, !.next = next, !.work = w,
                         !.since = since, !.left = left]
  BY <1>1, <1>t, <1>n, <1>s, <1>w, <1>l
<1>5. /\ run' \in Run /\ run'.phase = "paging" /\ run'.todo = todo /\ run'.next = next
      /\ run'.work = w /\ run'.since = since /\ run'.left = left
  BY <1>4 DEF SyncInv, TypeOK, Run
<1>6. TypeOK'
  BY <1>2, <1>5 DEF SyncInv, TypeOK
<1>7. \A i \in Items : feed[i].seq \in Nat /\ feed[i].rev \in Nat /\ cursor \in Nat
  BY DEF SyncInv, TypeOK, FeedRow
<1>8. PageOk(w, w, todo, next, since, left)
  <2>1. next <= seq
    BY <1>3, <1>n DEF SyncInv, FeedInv
  <2>2. ASSUME NEW c \in todo PROVE Fresh(c, next)
    <3>1. c.item \in Items /\ c.rev = feed[c.item].rev /\ c.removed = feed[c.item].removed
      BY <1>3, <1>t
    <3>2. c.rev > 0 /\ c.rev <= feed[c.item].rev
      BY <1>3, <1>7, <1>t, <3>1 DEF SyncInv, FeedInv
    <3> QED
      BY <3>1, <3>2 DEF Fresh
  <2>3. ASSUME NEW i \in Items, feed[i].seq \in (1 .. next) \ left
        PROVE  i \in w.missed \/ Stands(w, i) \/ \E c \in todo : c.item = i
    <3>1. CASE feed[i].seq <= cursor
      <4>1. feed[i].seq \in (1 .. cursor) \ unread
        BY <3>1, <1>7, <1>l, <2>3
      <4> QED
        BY <4>1, <1>w DEF SyncInv, CursorCovers, Reflects, Stands
    <3>2. CASE feed[i].seq > cursor
      BY <3>2, <1>3, <1>7, <1>n, <1>t, <2>3
    <3> QED
      BY <3>1, <3>2, <1>7
  <2>4. \A i \in Items : Lived(i, w, w) /\ SameTold(i, w, w)
    BY DEF Lived, SameTold
  <2>5. \A c \in todo : c.item \in Items
    BY <1>3, <1>t
  <2>6. \A q \in Rules, i \in Items : ~Untold(q, i, w, w, since)
    BY DEF Untold
  <2>7. Behaved(w)
    BY <1>w DEF SyncInv
  <2>8. \A c, e \in todo : c.item = e.item => c = e
    BY <1>3, <1>t
  <2> QED
    BY <2>1, <2>2, <2>3, <2>4, <2>5, <2>6, <2>7, <2>8, <1>s DEF PageOk
<1>9. PageInv'
  <2>1. PageOk(w, w, todo, next, since, left)'
    BY <1>2, <1>8 DEF PageOk, Behaved, Fresh, Stands, Lived, SameTold, Untold
  <2> QED
    BY <2>1, <1>2, <1>5, <1>w DEF PageInv
<1> QED
  BY <1>2, <1>6, <1>9 DEF SyncInv, FeedInv, AheadUnread, Behaved, CursorCovers, Reflects

\* What one item may do to the tables of its page.
ItemDoes(w, v, c) ==
  LET i == c.item IN
  /\ \A j \in Items : j # i => v.docs[j] = w.docs[j] /\ (j \in v.missed <=> j \in w.missed)
  /\ \A j \in Items : j # i => SameTold(j, w, v)
  /\ \/ i \in v.missed /\ v.docs[i] = w.docs[i] /\ SameTold(i, w, v)
     \/ /\ c.removed /\ v.docs[i].rev = w.docs[i].rev /\ SameTold(i, w, v)
        /\ w.docs[i].rev = 0 => v.docs[i] = w.docs[i]
        /\ w.docs[i].rev # 0 => v.docs[i].hidden
     \/ /\ ~c.removed /\ v.docs[i].hidden = w.docs[i].hidden
        /\ v.docs[i].rev = (IF c.rev > w.docs[i].rev THEN c.rev ELSE w.docs[i].rev)
        /\ w.docs[i].rev # 0 => SameTold(i, w, v)
        /\ w.docs[i].rev = 0 => \A q \in Rules :
             rules[q] = "active" /\ <<q, v.docs[i].of, i>> \in Matches => <<q, i>> \in v.deliveries

LEMMA AppliedDoes ==
  ASSUME TypeOK, NEW w \in Db, NEW c \in Change
  PROVE  /\ Applied(w, c) \in Db /\ ItemDoes(w, Applied(w, c), c)
         /\ Missed(w, c.item) \in Db /\ ItemDoes(w, Missed(w, c.item), c)
<1>i. PICK i \in Items : i = c.item
  BY DEF Change
<1>1. Missed(w, i) \in Db /\ ItemDoes(w, Missed(w, i), c)
  BY <1>i, MissedFacts DEF ItemDoes, SameTold
<1>2. Removed(w, i) \in Db /\ (c.removed => ItemDoes(w, Removed(w, i), c))
  <2> PICK v : v = Removed(w, i)
    OBVIOUS
  <2>1. /\ v \in Db /\ v.missed = w.missed \ {i} /\ v.deliveries = w.deliveries
        /\ \A j \in Items : j # i => v.docs[j] = w.docs[j]
        /\ v.docs[i].rev = w.docs[i].rev /\ v.docs[i].of = w.docs[i].of
        /\ v.docs[i].hidden = (w.docs[i].hidden \/ w.docs[i].rev > 0)
    BY RemovedFacts
  <2>2. w.docs[i] \in Doc /\ v.docs[i] \in Doc
    BY <2>1 DEF Db
  <2>3. w.docs[i].rev \in Nat /\ w.docs[i].hidden \in BOOLEAN
    BY <2>2 DEF Doc
  <2>4. w.docs[i].rev = 0 => v.docs[i] = w.docs[i]
    <3> SUFFICES ASSUME w.docs[i].rev = 0 PROVE v.docs[i] = w.docs[i]
      OBVIOUS
    <3>1. ~(w.docs[i].rev > 0)
      OBVIOUS
    <3>2. v.docs[i].hidden = w.docs[i].hidden
      BY <3>1, <2>1, <2>3, Zenon
    <3> QED
      BY <3>2, <2>1, <2>2 DEF Doc
  <2>5. w.docs[i].rev # 0 => v.docs[i].hidden
    <3> SUFFICES ASSUME w.docs[i].rev # 0 PROVE v.docs[i].hidden
      OBVIOUS
    <3>1. w.docs[i].rev > 0
      BY <2>3
    <3> QED
      BY <3>1, <2>1, Zenon
  <2> QED
    BY <1>i, <2>1, <2>4, <2>5 DEF ItemDoes, SameTold
<1>3. ASSUME NEW k \in Instruments
      PROVE  Upserted(w, c, k) \in Db /\ (~c.removed => ItemDoes(w, Upserted(w, c, k), c))
  <2> PICK v : v = Upserted(w, c, k)
    OBVIOUS
  <2>1. /\ v \in Db /\ v.missed = w.missed \ {i}
        /\ v.deliveries = IF w.docs[i].rev = 0 THEN w.deliveries \cup Triggered(i, k) ELSE w.deliveries
        /\ \A j \in Items : j # i => v.docs[j] = w.docs[j]
        /\ v.docs[i].rev = (IF c.rev > w.docs[i].rev THEN c.rev ELSE w.docs[i].rev)
        /\ v.docs[i].hidden = w.docs[i].hidden /\ v.docs[i].of = k
    BY <1>i, UpsertedFacts
  <2>2. \A r \in Rules, j \in Items : <<r, j>> \in Triggered(i, k) <=>
          j = i /\ <<r, k, i>> \in Matches /\ rules[r] = "active"
    BY DEF Triggered
  <2>4. \A j \in Items : j # i => SameTold(j, w, v)
    BY <2>1, <2>2 DEF SameTold
  <2>5. w.docs[i].rev # 0 => SameTold(i, w, v)
    BY <2>1 DEF SameTold
  <2>6. w.docs[i].rev = 0 =>
          \A q \in Rules :
            rules[q] = "active" /\ <<q, v.docs[i].of, i>> \in Matches => <<q, i>> \in v.deliveries
    BY <2>1, <2>2
  <2> QED
    BY <1>i, <2>1, <2>4, <2>5, <2>6 DEF ItemDoes
<1>h. holder[CikOf[i]] \in Instruments \cup {None}
  BY DEF TypeOK, Ciks
<1>4. Applied(w, c) = Missed(w, i) \/ (c.removed /\ Applied(w, c) = Removed(w, i))
        \/ (~c.removed /\ \E k \in Instruments : Applied(w, c) = Upserted(w, c, k))
  BY <1>i, <1>h DEF Applied, Fits
<1> QED
  BY <1>i, <1>1, <1>2, <1>3, <1>4

\* Item i was settled by its change.
Settled(i, u, v, next, since) ==
  /\ v.docs[i].rev <= feed[i].rev /\ (v.docs[i].rev = 0 => ~v.docs[i].hidden)
  /\ Lived(i, u, v)
  /\ feed[i].seq \in 1 .. next => i \in v.missed \/ Stands(v, i)
  /\ \A q \in Rules : ~Untold(q, i, u, v, since)

LEMMA ChangeSettles ==
  ASSUME TypeOK, NEW u \in Db, NEW w \in Db, NEW v \in Db, NEW todo \in SUBSET Change, NEW c \in todo,
         NEW next \in Nat, NEW since \in SUBSET Rules, NEW left, NEW i \in Items, i = c.item,
         PageOk(u, w, todo, next, since, left), ItemDoes(w, v, c)
  PROVE  Settled(i, u, v, next, since)
<1>1. /\ c.rev \in Nat /\ c.rev > 0 /\ c.rev <= feed[i].rev
      /\ feed[i].seq <= next => c.rev = feed[i].rev /\ c.removed = feed[i].removed
  BY DEF PageOk, Fresh, Change
<1>2. w.docs[i] \in Doc /\ v.docs[i] \in Doc /\ feed[i].rev \in Nat /\ feed[i].seq \in Nat
  BY DEF Db, TypeOK, FeedRow
<1>3. w.docs[i].rev \in Nat /\ v.docs[i].rev \in Nat
  BY <1>2 DEF Doc
<1>4. w.docs[i].rev <= feed[i].rev /\ (w.docs[i].rev = 0 => ~w.docs[i].hidden)
  BY DEF PageOk, Behaved
<1>5. feed[i].seq \in 1 .. next => feed[i].seq <= next
  BY <1>2
<1>6. w.docs[i] = u.docs[i] /\ SameTold(i, u, w)
  BY DEF PageOk
<1>7. CASE i \in v.missed /\ v.docs[i] = w.docs[i] /\ SameTold(i, w, v)
  BY <1>4, <1>6, <1>7 DEF Settled, Lived, SameTold, Untold
<1>8. CASE /\ c.removed /\ v.docs[i].rev = w.docs[i].rev /\ SameTold(i, w, v)
           /\ w.docs[i].rev = 0 => v.docs[i] = w.docs[i]
           /\ w.docs[i].rev # 0 => v.docs[i].hidden
  <2>1. v.docs[i].rev <= feed[i].rev /\ (v.docs[i].rev = 0 => ~v.docs[i].hidden)
    BY <1>4, <1>8
  <2>2. Lived(i, u, v)
    <3>1. CASE w.docs[i].rev = 0
      BY <3>1, <1>6, <1>8 DEF Lived, SameTold
    <3>2. CASE w.docs[i].rev # 0
      <4>1. w.docs[i].rev > 0
        BY <3>2, <1>3
      <4> QED
        BY <3>2, <4>1, <1>6, <1>8 DEF Lived, SameTold
    <3> QED
      BY <3>1, <3>2
  <2>3. feed[i].seq \in 1 .. next => Stands(v, i)
    <3> SUFFICES ASSUME feed[i].seq \in 1 .. next PROVE Stands(v, i)
      OBVIOUS
    <3>1. feed[i].removed
      BY <1>1, <1>5, <1>8, Zenon
    <3>2. v.docs[i].rev = 0 \/ v.docs[i].hidden
      BY <1>8, Zenon
    <3> QED
      BY <3>1, <3>2, Zenon DEF Stands
  <2>4. \A q \in Rules : ~Untold(q, i, u, v, since)
    BY <1>6, <1>8 DEF Untold
  <2> QED
    BY <2>1, <2>2, <2>3, <2>4 DEF Settled
<1>9. CASE /\ ~c.removed /\ v.docs[i].hidden = w.docs[i].hidden
           /\ v.docs[i].rev = (IF c.rev > w.docs[i].rev THEN c.rev ELSE w.docs[i].rev)
           /\ w.docs[i].rev # 0 => SameTold(i, w, v)
           /\ w.docs[i].rev = 0 => \A q \in Rules :
                rules[q] = "active" /\ <<q, v.docs[i].of, i>> \in Matches => <<q, i>> \in v.deliveries
  <2>0. /\ v.docs[i].rev <= feed[i].rev /\ v.docs[i].rev > 0
        /\ v.docs[i].rev = w.docs[i].rev \/ v.docs[i].rev > w.docs[i].rev
        /\ c.rev = feed[i].rev => v.docs[i].rev = feed[i].rev
    BY <1>1, <1>2, <1>3, <1>4, <1>9
  <2>1. v.docs[i].rev <= feed[i].rev /\ (v.docs[i].rev = 0 => ~v.docs[i].hidden)
    BY <2>0
  <2>2. Lived(i, u, v)
    <3>1. CASE w.docs[i].rev = 0
      <4>1. ~v.docs[i].hidden
        BY <3>1, <1>4, <1>9, Zenon
      <4> QED
        BY <4>1, <3>1, <2>0, <1>6 DEF Lived
    <3>2. CASE w.docs[i].rev # 0 /\ v.docs[i].rev = w.docs[i].rev
      BY <3>2, <1>6, <1>9 DEF Lived, SameTold
    <3>3. CASE w.docs[i].rev # 0 /\ v.docs[i].rev > w.docs[i].rev
      <4>1. w.docs[i].rev > 0
        BY <3>3, <1>3
      <4> QED
        BY <4>1, <3>3, <1>6, <1>9 DEF Lived, SameTold
    <3> QED
      BY <3>1, <3>2, <3>3, <2>0
  <2>3. feed[i].seq \in 1 .. next => Stands(v, i)
    <3> SUFFICES ASSUME feed[i].seq \in 1 .. next PROVE Stands(v, i)
      OBVIOUS
    <3>1. ~feed[i].removed
      BY <1>1, <1>5, <1>9, Zenon
    <3>2. v.docs[i].rev = feed[i].rev
      BY <1>1, <1>5, <2>0
    <3> QED
      BY <3>1, <3>2, Zenon DEF Stands
  <2>4. \A q \in Rules : ~Untold(q, i, u, v, since)
    <3> SUFFICES ASSUME NEW q \in Rules, Untold(q, i, u, v, since) PROVE FALSE
      OBVIOUS
    <3>1. w.docs[i].rev = 0 /\ rules[q] = "active"
      BY <1>6 DEF Untold, PageOk
    <3> QED
      BY <3>1, <1>9 DEF Untold
  <2> QED
    BY <2>1, <2>2, <2>3, <2>4 DEF Settled
<1> QED
  BY <1>7, <1>8, <1>9 DEF ItemDoes

\* The page goes on: its item is settled, the others are as they were.
LEMMA PageGoesOn ==
  ASSUME TypeOK, NEW u \in Db, NEW w \in Db, NEW v \in Db, NEW todo \in SUBSET Change, NEW c \in todo,
         NEW next \in Nat, NEW since \in SUBSET Rules, NEW left,
         PageOk(u, w, todo, next, since, left), ItemDoes(w, v, c)
  PROVE  PageOk(u, v, todo \ {c}, next, since, left)
<1>i. PICK i \in Items : i = c.item
  BY DEF Change
<1>s. Settled(i, u, v, next, since)
  BY <1>i, ChangeSettles
<1>5. /\ \A j \in Items : j # i => v.docs[j] = w.docs[j] /\ (j \in v.missed <=> j \in w.missed)
      /\ \A j \in Items : j # i => SameTold(j, w, v)
  BY <1>i DEF ItemDoes
<1>0. \A e \in todo : e.item \in Items /\ (e # c => e.item # i)
  BY <1>i DEF PageOk, Change
<1>1. next <= seq /\ since \subseteq {r \in Rules : rules[r] = "active"}
  BY DEF PageOk
<1>2. Behaved(v)
  BY <1>s, <1>5 DEF PageOk, Behaved, Settled
<1>3. (\A e \in todo \ {c} : Fresh(e, next)) /\ \A d, e \in todo \ {c} : d.item = e.item => d = e
  BY DEF PageOk
<1>4. ASSUME NEW j \in Items, feed[j].seq \in (1 .. next) \ left
      PROVE  j \in v.missed \/ Stands(v, j) \/ \E e \in todo \ {c} : e.item = j
  <2>1. CASE j = i
    BY <2>1, <1>4, <1>s DEF Settled
  <2>2. CASE j # i
    <3>1. j \in w.missed \/ Stands(w, j) \/ \E e \in todo : e.item = j
      BY <1>4 DEF PageOk
    <3> QED
      BY <2>2, <3>1, <1>5, <1>i DEF Stands
  <2> QED
    BY <2>1, <2>2
<1>6. ASSUME NEW j \in Items PROVE Lived(j, u, v)
  <2>1. CASE j = i
    BY <2>1, <1>s DEF Settled
  <2>2. CASE j # i
    <3>1. Lived(j, u, w)
      BY DEF PageOk
    <3> QED
      BY <2>2, <3>1, <1>5 DEF Lived, SameTold
  <2> QED
    BY <2>1, <2>2
<1>7. ASSUME NEW e \in todo \ {c} PROVE v.docs[e.item] = u.docs[e.item] /\ SameTold(e.item, u, v)
  <2>1. w.docs[e.item] = u.docs[e.item] /\ SameTold(e.item, u, w)
    BY DEF PageOk
  <2> QED
    BY <2>1, <1>0, <1>5 DEF SameTold
<1>8. ASSUME NEW q \in Rules, NEW j \in Items PROVE ~Untold(q, j, u, v, since)
  <2>1. CASE j = i
    BY <2>1, <1>s DEF Settled
  <2>2. CASE j # i
    <3>1. ~Untold(q, j, u, w, since)
      BY DEF PageOk
    <3> QED
      BY <2>2, <3>1, <1>5 DEF Untold, SameTold
  <2> QED
    BY <2>1, <2>2
<1> QED
  BY <1>1, <1>2, <1>3, <1>4, <1>6, <1>7, <1>8 DEF PageOk

LEMMA ItemKeeps ==
  ASSUME SyncInv, NEW c \in run.todo, ApplyItem(c) \/ FailItem(c)
  PROVE  SyncInv'
<1>1. PICK w \in Db, todo \in SUBSET Change, next \in Nat, since \in SUBSET Rules,
               left \in SUBSET (1 .. MaxSeq) :
        w = run.work /\ todo = run.todo /\ next = run.next /\ since = run.since
            /\ left = run.left
  BY DEF SyncInv, TypeOK, Run
<1>2. PICK u \in Db : u = db
  BY DEF SyncInv, TypeOK
<1>3. c \in todo /\ PageOk(u, w, todo, next, since, left) /\ TypeOK
  BY <1>1, <1>2 DEF SyncInv, PageInv, ApplyItem, FailItem
<1>4. PICK v \in Db : /\ ItemDoes(w, v, c)
                     /\ run' = [run EXCEPT !.todo = @ \ {c}, !.work = v]
  <2>0. c \in Change
    BY <1>3
  <2>1. CASE ApplyItem(c)
    <3>1. run' = [run EXCEPT !.todo = @ \ {c}, !.work = Applied(w, c)]
      BY <1>1, <2>1 DEF ApplyItem
    <3> QED
      BY <3>1, <2>0, <1>3, AppliedDoes
  <2>2. CASE FailItem(c)
    <3>1. run' = [run EXCEPT !.todo = @ \ {c}, !.work = Missed(w, c.item)]
      BY <1>1, <2>2 DEF FailItem
    <3> QED
      BY <3>1, <2>0, <1>3, AppliedDoes
  <2> QED
    BY <2>1, <2>2
<1>5. UNCHANGED <<feed, seq, holder, rules, db, cursor, unread, incidents>>
  BY DEF ApplyItem, FailItem
<1>6. /\ run' \in Run /\ run'.phase = run.phase /\ run'.todo = todo \ {c} /\ run'.next = next
      /\ run'.work = v /\ run'.since = since /\ run'.left = left
  <2>1. run \in Run
    BY DEF SyncInv, TypeOK
  <2> QED
    BY <2>1, <1>1, <1>4 DEF Run
<1>7. TypeOK'
  BY <1>5, <1>6 DEF SyncInv, TypeOK
<1>8. PageOk(u, v, todo \ {c}, next, since, left)
  BY <1>3, <1>4, PageGoesOn
<1>9. PageInv'
  <2>1. PageOk(u, v, todo \ {c}, next, since, left)'
    BY <1>5, <1>8 DEF PageOk, Behaved, Fresh, Stands, Lived, SameTold, Untold
  <2> QED
    BY <2>1, <1>2, <1>5, <1>6 DEF PageInv
<1> QED
  BY <1>5, <1>7, <1>9 DEF SyncInv, FeedInv, AheadUnread, Behaved, CursorCovers, Reflects

LEMMA NextInv == SyncInv /\ [Next]_vars => SyncInv'
<1> SUFFICES ASSUME SyncInv, [Next]_vars PROVE SyncInv'
  OBVIOUS
<1>1. CASE UNCHANGED vars
  BY <1>1 DEF vars, SyncInv, TypeOK, FeedInv, AheadUnread, Behaved, CursorCovers, Reflects,
              PageInv, PageOk,
              Fresh, Stands, Lived, SameTold, Untold
<1>2. CASE \E i \in Items : Publish(i) \/ Withdraw(i)
  BY <1>2, SourcesKeep
<1>3. CASE \/ \E c \in Ciks, k \in Instruments \cup {None} : Rekey(c, k)
           \/ \E r \in Rules : CreateRule(r) \/ RemoveRule(r)
           \/ \E to \in 0 .. MaxSeq : Rewind(to)
  BY <1>3, PeopleKeep
<1>4. CASE Start \/ EndRun \/ FailRun
  BY <1>4, RunTurns
<1>5. CASE ReadPage \/ CommitPage
  BY <1>5, ReadPageKeeps, CommitKeeps
<1>6. CASE \E c \in run.todo : ApplyItem(c) \/ FailItem(c)
  BY <1>6, ItemKeeps
<1> QED
  BY <1>1, <1>2, <1>3, <1>4, <1>5, <1>6 DEF Next, RunStep

LEMMA AlwaysInv == Spec => []SyncInv
BY InitInv, NextInv, PTL DEF Spec

\* Only a commit moves the tables, to those of its page.
LEMMA OnlyCommits ==
  ASSUME SyncInv, [Next]_vars
  PROVE  db' = db \/ (CommitPage /\ PageOk(db, db', {}, run.next, run.since, run.left))
<1>1. CASE CommitPage
  <2>1. PageOk(db, run.work, {}, run.next, run.since, run.left) /\ db' = run.work
    BY <1>1 DEF SyncInv, PageInv, CommitPage
  <2> QED
    BY <1>1, <2>1 DEF PageOk, Behaved, Stands, Lived, SameTold, Untold
<1>2. CASE ~CommitPage
  BY <1>2 DEF Next, RunStep, vars, Publish, Withdraw, Changed, Rekey, CreateRule, RemoveRule,
              Rewind, Start, ReadPage, EndRun, ApplyItem, FailItem, FailRun
<1> QED
  BY <1>1, <1>2

------------------------------------------------------------------------------
(* Theorems *)

\* What is on record, the cursor and the open page are of their types (ingest.js, documents.js).
THEOREM TypeCorrect == Spec => []TypeOK
<1>1. SyncInv => TypeOK
  BY DEF SyncInv
<1> QED
  BY <1>1, AlwaysInv, PTL

\* The cursor never passes a change that is not on record, unless the item was skipped, failed by
\* itself or met a document of another instrument, or the script moved the cursor over the change
\* (ingest.js, runOnce; documents.js, upsert; rewind-sync-cursor.js).
THEOREM CursorNeverPasses == Spec => []CursorCovers
<1>1. SyncInv => CursorCovers
  BY DEF SyncInv
<1> QED
  BY <1>1, AlwaysInv, PTL

\* Every rule that was there and still is, about the instrument the document was filed under, is
\* told of it when it is first seen (documents.js, upsert).
THEOREM RulesTold == Spec => EveryRuleTold
<1>1. SyncInv /\ [Next]_vars =>
        [\A r \in run.since, i \in Items :
           /\ db.docs[i].rev = 0 /\ db'.docs[i].rev > 0
           /\ <<r, db'.docs[i].of, i>> \in Matches
           => <<r, i>> \in db'.deliveries]_vars
  <2> SUFFICES ASSUME SyncInv, [Next]_vars, NEW r \in run.since, NEW i \in Items,
                      db.docs[i].rev = 0, db'.docs[i].rev > 0,
                      <<r, db'.docs[i].of, i>> \in Matches
               PROVE  <<r, i>> \in db'.deliveries
    OBVIOUS
  <2>1. CASE db' = db
    BY <2>1
  <2>2. CASE PageOk(db, db', {}, run.next, run.since, run.left)
    BY <2>2, IngestAssumption DEF PageOk, Untold
  <2> QED
    BY <2>1, <2>2, OnlyCommits
<1> QED
  BY <1>1, AlwaysInv, PTL DEF Spec, EveryRuleTold

\* A document lives as DocumentLife says, through pages, crashes, replays and rewinds
\* (documents.js, upsert and remove).
THEOREM ImplementsLife == Spec => FollowsLife
<1>1. Init => Life!Init
  <2> SUFFICES ASSUME Init PROVE Life!Init
    OBVIOUS
  <2>1. \A i \in Items : db.docs[i] = [rev |-> 0, hidden |-> FALSE, of |-> None]
    BY DEF Init, NoDocs
  <2>2. db.deliveries = {}
    BY DEF Init, NoDocs
  <2>3. \A i \in Items : db.docs[i].rev = 0 /\ db.docs[i].hidden = FALSE
    BY <2>1
  <2>4. [i \in Items |-> db.docs[i].rev] = [i \in Items |-> 0]
    BY <2>3
  <2>5. [i \in Items |-> db.docs[i].hidden] = [i \in Items |-> FALSE]
    BY <2>3
  <2>6. [i \in Items |-> {r \in Rules : <<r, i>> \in db.deliveries}] = [i \in Items |-> {}]
    BY <2>2
  <2> QED
    BY <2>4, <2>5, <2>6, Zenon DEF Life!Init
<1>2. SyncInv /\ [Next]_vars => [Life!Next]_(Life!lifeVars)
  <2> SUFFICES ASSUME SyncInv, [Next]_vars PROVE [Life!Next]_(Life!lifeVars)
    OBVIOUS
  <2>1. CASE db' = db
    BY <2>1 DEF Life!lifeVars
  <2>2. CASE PageOk(db, db', {}, run.next, run.since, run.left)
    <3> SUFFICES ASSUME NEW i \in Items
                 PROVE  Life!FirstSeen(i) \/ Life!Revised(i) \/ Life!Hidden(i) \/ Life!Kept(i)
      BY DEF Life!Next
    <3>1. Lived(i, db, db')
      BY <2>2 DEF PageOk
    <3>2. db'.docs[i].rev \in Nat
      <4>1. SyncInv'
        BY NextInv
      <4> QED
        BY <4>1 DEF SyncInv, TypeOK, Db, Doc
    <3> QED
      BY <3>1, <3>2 DEF Lived, SameTold, Life!FirstSeen, Life!Revised, Life!Hidden, Life!Kept
  <2> QED
    BY <2>1, <2>2, OnlyCommits
<1> QED
  BY <1>1, <1>2, AlwaysInv, PTL DEF Spec, FollowsLife, Life!Spec

==============================================================================
