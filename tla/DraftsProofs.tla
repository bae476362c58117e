----------------------------- MODULE DraftsProofs -----------------------------
(***************************************************************************)
(* What a revision cites was there when it was written, and its date is     *)
(* that of its sources, for any writers, requests, sources and times.       *)
(***************************************************************************)
EXTENDS Drafts, TLAPS

\* The citation is on record, and was not hidden when the request arrived.
Firm(c, barred) == dated[c] # 0 /\ c \notin barred

\* What asOf has of the citations C it looked at.
Stamped(C, t) ==
  /\ t # 0 <=> C # {}
  /\ C # {} => \E c \in C : t \in was[c]
  /\ \A c \in C : \E u \in was[c] : u <= t

\* What a request has checked lasts, for documents are hidden for good and never lose their time.
WorkOk(w) ==
  /\ w.at \in {"given", "cited", "dating"} => w.barred \subseteq hidden
  /\ w.at = "cited" => \A c \in w.cites \ w.left : Firm(c, w.barred)
  /\ w.at = "dating" => (\A c \in w.cites : Firm(c, w.barred)) /\ Stamped(w.cites \ w.left, w.as_of)
  /\ w.at # "dating" => w.as_of = 0
  /\ w.at \in {"cited", "dating"} => w.left \subseteq w.cites

RevisionOk(r) ==
  /\ r.barred \subseteq hidden
  /\ \A c \in r.cites : Firm(c, r.barred)
  /\ Stamped(r.cites, r.as_of)

\* The history has the time a source states now, and only times.
TimesKept == \A c \in Citable : 0 \notin was[c] /\ (dated[c] # 0 => dated[c] \in was[c])

DraftInv ==
  /\ TypeOK
  /\ TimesKept
  /\ \A p \in Writers : WorkOk(work[p])
  /\ \A n \in 1 .. Len(revs) : RevisionOk(revs[n])

------------------------------------------------------------------------------

LEMMA IdleFacts == Idle \in Work /\ Idle.at = "idle" /\ Idle.as_of = 0 /\ WorkOk(Idle)
BY DraftsAssumption DEF Idle, Work, Numbered, Times, WorkOk

LEMMA InitInv == Init => DraftInv
<1> SUFFICES ASSUME Init PROVE DraftInv
  OBVIOUS
<1>1. Idle \in Work /\ WorkOk(Idle)
  BY IdleFacts
<1>2. TypeOK
  BY <1>1, DraftsAssumption DEF Init, TypeOK, Times
<1>3. revs = << >> /\ Len(revs) = 0
  BY DEF Init
<1>4. TimesKept /\ \A p \in Writers : WorkOk(work[p])
  BY <1>1 DEF Init, TimesKept
<1>5. \A n \in 1 .. Len(revs) : RevisionOk(revs[n])
  BY <1>3
<1> QED
  BY <1>2, <1>4, <1>5 DEF DraftInv

\* A writer moves and nothing else does.
LEMMA WriterMoves ==
  ASSUME DraftInv, NEW p \in Writers, NEW o \in Work, WorkOk(o), work' = [work EXCEPT ![p] = o],
         UNCHANGED <<dated, was, hidden, revs>>
  PROVE  DraftInv'
<1>1. work' \in [Writers -> Work] /\ \A q \in Writers : work'[q] = IF q = p THEN o ELSE work[q]
  BY DEF DraftInv, TypeOK
<1>2. TypeOK'
  BY <1>1 DEF DraftInv, TypeOK
<1>3. \A q \in Writers : WorkOk(work[q])'
  BY <1>1 DEF DraftInv, WorkOk, Firm, Stamped
<1>4. TimesKept' /\ \A n \in 1 .. Len(revs') : RevisionOk(revs[n])'
  BY DEF DraftInv, TimesKept, RevisionOk, Firm, Stamped
<1> QED
  BY <1>2, <1>3, <1>4 DEF DraftInv

\* Opening the page checks nothing.
LEMMA LookKeeps ==
  ASSUME DraftInv, NEW p \in Writers, ReadHead(p)
  PROVE  DraftInv'
<1> PICK head : head = {Len(revs)}
  OBVIOUS
<1>1. head \in Numbered
  BY DraftsAssumption DEF Numbered, DraftInv, TypeOK
<1>i. PICK i \in Work : i = Idle
  BY IdleFacts
<1>0. i.as_of = 0
  BY <1>i, IdleFacts
<1>x. PICK o : o = [i EXCEPT !.at = "form", !.expected = head]
  OBVIOUS
<1>2. o \in Work /\ o.at = "form" /\ o.as_of = 0
  BY <1>x, <1>0, <1>1 DEF Work
<1>3. WorkOk(o)
  BY <1>2 DEF WorkOk
<1>4. work' = [work EXCEPT ![p] = o] /\ UNCHANGED <<dated, was, hidden, revs>>
  BY <1>i, <1>x DEF ReadHead
<1> QED
  BY <1>2, <1>3, <1>4, WriterMoves

\* A request arrives with nothing checked.
LEMMA ArriveKeeps ==
  ASSUME DraftInv, NEW p \in Writers, NEW cites \in SUBSET Citable,
         \/ \E names \in Names : SubmitText(p, cites, names)
         \/ p = Model /\ \E sources \in SUBSET Citable : Deliver(sources, cites)
  PROVE  DraftInv'
<1> PICK w : w = work[p]
  OBVIOUS
<1> PICK barred : barred = cites \cap hidden
  OBVIOUS
<1>1. w \in Work /\ WorkOk(w) /\ barred \in SUBSET Documents /\ barred \subseteq hidden
  BY DEF DraftInv, TypeOK
<1>2. CASE \E names \in Names : SubmitText(p, cites, names)
  <2> PICK names \in Names : SubmitText(p, cites, names)
    BY <1>2
  <2>0. names \in Numbered /\ w.as_of = 0
    BY <1>1 DEF Names, Numbered, SubmitText, WorkOk
  <2>x. PICK o : o = [w EXCEPT !.at = "cited", !.expected = names, !.cites = cites, !.left = cites,
                               !.barred = barred]
    OBVIOUS
  <2>1. o \in Work /\ o.at = "cited" /\ o.cites = cites /\ o.left = cites /\ o.barred = barred /\ o.as_of = w.as_of
    BY <2>x, <2>0, <1>1 DEF Work
  <2>2. WorkOk(o)
    BY <1>1, <2>0, <2>1 DEF WorkOk
  <2>3. work' = [work EXCEPT ![p] = o] /\ UNCHANGED <<dated, was, hidden, revs>>
    BY <2>x DEF SubmitText, DraftInv, TypeOK
  <2> QED
    BY <2>1, <2>2, <2>3, WriterMoves
<1>3. CASE p = Model /\ \E sources \in SUBSET Citable : Deliver(sources, cites)
  <2> PICK sources \in SUBSET Citable : Deliver(sources, cites)
    BY <1>3
  <2>i. PICK i \in Work : i = Idle
    BY IdleFacts
  <2>a. i.as_of = 0
    BY <2>i, IdleFacts
  <2>x. PICK o : o = [i EXCEPT !.at = "given", !.cites = cites, !.left = sources, !.barred = barred]
    OBVIOUS
  <2>1. o \in Work /\ o.at = "given" /\ o.barred = barred /\ o.as_of = 0
    BY <2>x, <2>a, <1>1 DEF Work
  <2>2. WorkOk(o)
    BY <1>1, <2>1 DEF WorkOk
  <2>3. work' = [work EXCEPT ![p] = o] /\ UNCHANGED <<dated, was, hidden, revs>>
    BY <1>3, <2>i, <2>x DEF Deliver
  <2> QED
    BY <2>1, <2>2, <2>3, WriterMoves
<1> QED
  BY <1>2, <1>3

\* A citation that was looked up is on record and not hidden, still less was it when the request came.
LEMMA ResolveKeeps ==
  ASSUME DraftInv, NEW p \in Writers, NEW c \in Citable, Resolve(p, c)
  PROVE  DraftInv'
<1> PICK w : w = work[p]
  OBVIOUS
<1>1. w \in Work /\ w.at \in {"given", "cited"} /\ WorkOk(w) /\ c \in w.left
  BY DEF DraftInv, TypeOK, Resolve
<1>x. PICK o : o = [w EXCEPT !.left = @ \ {c}]
  OBVIOUS
<1>2. /\ o \in Work /\ o.at = w.at /\ o.cites = w.cites /\ o.left = w.left \ {c}
      /\ o.barred = w.barred /\ o.as_of = w.as_of
  BY <1>x, <1>1 DEF Work
<1>3. Firm(c, w.barred)
  BY <1>1 DEF Resolve, Sound, Firm, WorkOk
<1>4. \A d \in o.cites \ o.left : d = c \/ d \in w.cites \ w.left
  BY <1>2
<1>5. WorkOk(o)
  BY <1>1, <1>2, <1>3, <1>4 DEF WorkOk
<1>6. work' = [work EXCEPT ![p] = o] /\ UNCHANGED <<dated, was, hidden, revs>>
  BY <1>x, <1>1 DEF Resolve, DraftInv, TypeOK
<1> QED
  BY <1>2, <1>5, <1>6, WriterMoves

\* The model's citations are looked up only now; those of a checked request are all firm.
LEMMA ResolvedKeeps ==
  ASSUME DraftInv, NEW p \in Writers, Resolved(p)
  PROVE  DraftInv'
<1> PICK w : w = work[p]
  OBVIOUS
<1>1. w \in Work /\ w.at \in {"given", "cited"} /\ WorkOk(w) /\ w.left = {}
  BY DEF DraftInv, TypeOK, Resolved
<1>0. PICK next : next = IF w.at = "given" THEN "cited" ELSE "dating"
  OBVIOUS
<1>x. PICK o : o = [w EXCEPT !.left = w.cites, !.at = next]
  OBVIOUS
<1>2. /\ o \in Work /\ o.at = next /\ o.cites = w.cites /\ o.left = w.cites
      /\ o.barred = w.barred /\ o.as_of = w.as_of
  BY <1>x, <1>0, <1>1 DEF Work
<1>3. o.cites \ o.left = {} /\ o.as_of = 0
  BY <1>1, <1>2 DEF WorkOk
<1>4. WorkOk(o)
  <2>1. CASE w.at = "given"
    BY <2>1, <1>0, <1>1, <1>2, <1>3 DEF WorkOk
  <2>2. CASE w.at = "cited"
    <3>1. o.at = "dating"
      BY <2>2, <1>0, <1>2
    <3>2. \A d \in o.cites : Firm(d, o.barred)
      BY <2>2, <1>1, <1>2 DEF WorkOk
    <3>3. Stamped(o.cites \ o.left, o.as_of)
      BY <1>3 DEF Stamped
    <3> QED
      BY <3>1, <3>2, <3>3, <2>2, <1>1, <1>2 DEF WorkOk
  <2> QED
    BY <1>1, <2>1, <2>2
<1>5. work' = [work EXCEPT ![p] = o] /\ UNCHANGED <<dated, was, hidden, revs>>
  BY <1>x, <1>0, <1>1 DEF Resolved, DraftInv, TypeOK
<1> QED
  BY <1>2, <1>4, <1>5, WriterMoves

\* The newest so far becomes the newest of one citation more.
LEMMA DateKeeps ==
  ASSUME DraftInv, NEW p \in Writers, NEW c \in Citable, Date(p, c)
  PROVE  DraftInv'
<1> PICK w : w = work[p]
  OBVIOUS
<1>1. w \in Work /\ w.at = "dating" /\ WorkOk(w) /\ c \in w.left
  BY DEF DraftInv, TypeOK, Date
<1>2. w.as_of \in Times /\ w.as_of \in Nat /\ dated[c] \in Times /\ dated[c] \in Nat
  BY <1>1, DraftsAssumption DEF DraftInv, TypeOK, Work, Times
<1>3. dated[c] # 0 /\ dated[c] \in was[c] /\ c \in w.cites
  BY <1>1 DEF WorkOk, Firm, DraftInv, TimesKept
<1>0. PICK t : t = IF dated[c] > w.as_of THEN dated[c] ELSE w.as_of
  OBVIOUS
<1>4. t \in Times /\ t \in Nat /\ t # 0 /\ dated[c] <= t /\ w.as_of <= t /\ t \in {dated[c], w.as_of}
  BY <1>0, <1>2, <1>3
<1>x. PICK o : o = [w EXCEPT !.left = @ \ {c}, !.as_of = t]
  OBVIOUS
<1>5. /\ o \in Work /\ o.at = "dating" /\ o.cites = w.cites /\ o.left = w.left \ {c}
      /\ o.barred = w.barred /\ o.as_of = t
  BY <1>x, <1>1, <1>4 DEF Work
<1> PICK C : C = w.cites \ w.left
  OBVIOUS
<1>6. Stamped(C, w.as_of) /\ o.cites \ o.left = C \cup {c}
  BY <1>1, <1>3, <1>5 DEF WorkOk
<1>7. Stamped(C \cup {c}, t)
  <2>1. \E d \in C \cup {c} : t \in was[d]
    <3>1. CASE t = dated[c]
      BY <3>1, <1>3
    <3>2. CASE t = w.as_of
      BY <3>2, <1>4, <1>6 DEF Stamped
    <3> QED
      BY <1>4, <3>1, <3>2
  <2>2. \A d \in C \cup {c} : \E u \in was[d] : u <= t
    <3> SUFFICES ASSUME NEW d \in C \cup {c} PROVE \E u \in was[d] : u <= t
      OBVIOUS
    <3>1. CASE d = c
      BY <3>1, <1>3, <1>4
    <3>2. CASE d \in C
      <4>1. PICK u \in was[d] : u <= w.as_of
        BY <3>2, <1>6 DEF Stamped
      <4>2. d \in Citable
        BY <3>2, <1>1 DEF Work
      <4>3. u \in Nat
        BY <4>1, <4>2, DraftsAssumption DEF DraftInv, TypeOK, Times
      <4>4. u <= t
        BY <4>1, <4>3, <1>2, <1>4
      <4> QED
        BY <4>4
    <3> QED
      BY <3>1, <3>2
  <2> QED
    BY <2>1, <2>2, <1>4 DEF Stamped
<1>8. WorkOk(o)
  BY <1>1, <1>5, <1>6, <1>7 DEF WorkOk
<1>9. work' = [work EXCEPT ![p] = o] /\ UNCHANGED <<dated, was, hidden, revs>>
  BY <1>x, <1>0, <1>1 DEF Date, DraftInv, TypeOK
<1> QED
  BY <1>5, <1>8, <1>9, WriterMoves

\* Giving up leaves nothing checked.
LEMMA GiveUpKeeps ==
  ASSUME DraftInv, NEW p \in Writers, GiveUp(p)
  PROVE  DraftInv'
<1> PICK w : w = work[p]
  OBVIOUS
<1>0. w \in Work
  BY DEF DraftInv, TypeOK
<1>1. CASE work' = [work EXCEPT ![p] = Idle]
  <2>1. PICK i \in Work : i = Idle
    BY IdleFacts
  <2>2. WorkOk(i) /\ work' = [work EXCEPT ![p] = i] /\ UNCHANGED <<dated, was, hidden, revs>>
    BY <1>1, <2>1, IdleFacts DEF GiveUp
  <2> QED
    BY <2>2, WriterMoves
<1>2. CASE work' # [work EXCEPT ![p] = Idle]
  <2>c. 0 \in Times
    BY DraftsAssumption DEF Times
  <2>d. {} \in SUBSET Citable /\ {} \in SUBSET Documents
    OBVIOUS
  <2>e. PICK none \in SUBSET Citable : none = {}
    BY <2>d
  <2>f. PICK open \in SUBSET Documents : open = {}
    BY <2>d
  <2>g. PICK undated \in Times : undated = 0
    BY <2>c
  <2>a. none = {} /\ open = {} /\ undated = 0
    BY <2>e, <2>f, <2>g
  <2>x. PICK o : o = [w EXCEPT !.at = "form", !.cites = none, !.left = none, !.as_of = undated, !.barred = open]
    OBVIOUS
  <2>0. o \in Work
    BY <2>x, <1>0 DEF Work
  <2>b. o.at = "form" /\ o.as_of = undated
    BY <2>x, <1>0 DEF Work
  <2>1. o \in Work /\ o.at = "form" /\ o.as_of = 0
    BY <2>0, <2>a, <2>b
  <2>2. WorkOk(o)
    BY <2>1 DEF WorkOk
  <2>3. work' = [work EXCEPT ![p] = o] /\ UNCHANGED <<dated, was, hidden, revs>>
    BY <1>2, <2>a, <2>x DEF GiveUp, DraftInv, TypeOK
  <2> QED
    BY <2>1, <2>2, <2>3, WriterMoves
<1> QED
  BY <1>1, <1>2

\* What is saved was checked.
LEMMA SaveKeeps ==
  ASSUME DraftInv, NEW p \in Writers, Save(p)
  PROVE  DraftInv'
<1> PICK w : w = work[p]
  OBVIOUS
<1>1. w \in Work /\ w.at = "dating" /\ WorkOk(w) /\ w.left = {}
  BY DEF DraftInv, TypeOK, Save
<1>m. PICK mode \in {"human", "ai"} : mode = IF p = Model THEN "ai" ELSE "human"
  OBVIOUS
<1>x. PICK r : r = [mode |-> mode, cites |-> w.cites, as_of |-> w.as_of,
                    barred |-> w.barred]
  OBVIOUS
<1>2. /\ r \in Revision /\ r.cites = w.cites /\ r.as_of = w.as_of
      /\ r.barred = w.barred
  BY <1>x, <1>m, <1>1 DEF Work, Revision
<1>3. w.cites \ w.left = w.cites
  BY <1>1
<1>4. RevisionOk(r)
  BY <1>1, <1>2, <1>3 DEF WorkOk, RevisionOk
<1>5. /\ revs' = Append(revs, r) /\ UNCHANGED <<dated, was, hidden>>
      /\ Len(revs) < MaxRevisions
  BY <1>x, <1>m, <1>2 DEF Save
<1>6. /\ revs' \in Seq(Revision) /\ Len(revs') = Len(revs) + 1 /\ Len(revs) \in Nat
      /\ \A n \in 1 .. Len(revs) : revs'[n] = revs[n]
      /\ revs'[Len(revs) + 1] = r
  BY <1>2, <1>5 DEF DraftInv, TypeOK
<1>7. \A n \in 1 .. Len(revs') : n \in 1 .. Len(revs) \/ n = Len(revs) + 1
  BY <1>6
<1>8. work' \in [Writers -> Work] /\ \A q \in Writers : work'[q] = work[q] \/ work'[q] = Idle
  <2>1. PICK i \in Work : i = Idle
    BY IdleFacts
  <2>2. work' = [work EXCEPT ![p] = i]
    BY <2>1 DEF Save
  <2> QED
    BY <2>1, <2>2 DEF DraftInv, TypeOK
<1>9. TypeOK'
  BY <1>5, <1>6, <1>8, DraftsAssumption DEF DraftInv, TypeOK
<1>10. \A q \in Writers : WorkOk(work[q])'
  BY <1>5, <1>8, IdleFacts DEF DraftInv, WorkOk, Firm, Stamped
<1>11. \A n \in 1 .. Len(revs') : RevisionOk(revs[n])'
  <2> SUFFICES ASSUME NEW n \in 1 .. Len(revs') PROVE RevisionOk(revs[n])'
    OBVIOUS
  <2>1. RevisionOk(revs'[n])
    BY <1>4, <1>6, <1>7 DEF DraftInv
  <2> QED
    BY <2>1, <1>5 DEF RevisionOk, Firm, Stamped
<1>12. TimesKept'
  BY <1>5 DEF DraftInv, TimesKept
<1> QED
  BY <1>9, <1>10, <1>11, <1>12 DEF DraftInv

\* The history of the sources grows: what was checked against it stays so.
LEMMA SourcesGrow ==
  ASSUME DraftInv, TypeOK', TimesKept', hidden \subseteq hidden', UNCHANGED <<revs, work>>,
         \A c \in Citable : (dated[c] # 0 => dated'[c] # 0) /\ was[c] \subseteq was'[c]
  PROVE  DraftInv'
<1>1. ASSUME NEW C \in SUBSET Citable, NEW t, Stamped(C, t) PROVE Stamped(C, t)'
  BY <1>1 DEF Stamped
<1>2. ASSUME NEW c \in Citable, NEW barred, Firm(c, barred) PROVE Firm(c, barred)'
  BY <1>2 DEF Firm
<1>3. ASSUME NEW w \in Work, WorkOk(w) PROVE WorkOk(w)'
  <2>1. w.cites \in SUBSET Citable /\ w.cites \ w.left \in SUBSET Citable
    BY DEF Work
  <2>2. PICK C : C = w.cites \ w.left
    OBVIOUS
  <2>3. w.at = "dating" => Stamped(C, w.as_of)'
    BY <1>1, <1>3, <2>1, <2>2 DEF WorkOk
  <2>4. \A c \in w.cites : Firm(c, w.barred) => Firm(c, w.barred)'
    BY <1>2, <2>1
  <2> QED
    BY <1>3, <2>2, <2>3, <2>4 DEF WorkOk
<1>4. ASSUME NEW r \in Revision, RevisionOk(r) PROVE RevisionOk(r)'
  <2>1. r.cites \in SUBSET Citable
    BY DEF Revision
  <2> QED
    BY <1>1, <1>2, <1>4, <2>1 DEF RevisionOk
<1>5. \A p \in Writers : WorkOk(work[p])'
  <2> SUFFICES ASSUME NEW p \in Writers PROVE WorkOk(work[p])'
    OBVIOUS
  <2>1. PICK w \in Work : w = work[p]
    BY DEF DraftInv, TypeOK
  <2>2. WorkOk(w)' /\ w = work'[p]
    BY <1>3, <2>1 DEF DraftInv
  <2> QED
    BY <2>2
<1>6. \A n \in 1 .. Len(revs') : RevisionOk(revs[n])'
  <2> SUFFICES ASSUME NEW n \in 1 .. Len(revs) PROVE RevisionOk(revs[n])'
    OBVIOUS
  <2>1. PICK r \in Revision : r = revs[n]
    BY DEF DraftInv, TypeOK
  <2>2. RevisionOk(r)' /\ r = revs'[n]
    BY <1>4, <2>1 DEF DraftInv
  <2> QED
    BY <2>2
<1> QED
  BY <1>5, <1>6 DEF DraftInv

LEMMA SourcesKeep ==
  ASSUME DraftInv,
         \/ \E c \in Citable, t \in 1 .. MaxTime : StateTime(c, t)
         \/ \E d \in Documents : Hide(d)
  PROVE  DraftInv'
<1>1. CASE \E c \in Citable, t \in 1 .. MaxTime : StateTime(c, t)
  <2> PICK c \in Citable, t \in 1 .. MaxTime : StateTime(c, t)
    BY <1>1
  <2>1. t \in Times /\ t # 0
    BY DraftsAssumption DEF Times
  <2>2. /\ dated' \in [Citable -> Times] /\ was' \in [Citable -> SUBSET Times]
        /\ \A e \in Citable : dated'[e] = (IF e = c THEN t ELSE dated[e])
                             /\ was'[e] = (IF e = c THEN was[e] \cup {t} ELSE was[e])
        /\ UNCHANGED <<hidden, revs, work>>
    BY <2>1 DEF StateTime, DraftInv, TypeOK
  <2>3. TimesKept'
    BY <2>1, <2>2 DEF DraftInv, TimesKept
  <2>4. TypeOK'
    BY <2>1, <2>2 DEF DraftInv, TypeOK, Citable
  <2> QED
    BY <2>1, <2>2, <2>3, <2>4, SourcesGrow
<1>2. CASE \E d \in Documents : Hide(d)
  <2> PICK d \in Documents : Hide(d)
    BY <1>2
  <2>1. hidden' = hidden \cup {d} /\ dated[d] # 0 /\ UNCHANGED <<dated, was, revs, work>>
    BY DEF Hide
  <2>2. TypeOK' /\ TimesKept'
    BY <2>1 DEF DraftInv, TypeOK, TimesKept
  <2> QED
    BY <2>1, <2>2, SourcesGrow
<1> QED
  BY <1>1, <1>2

LEMMA NextInv == DraftInv /\ [Next]_vars => DraftInv'
<1> SUFFICES ASSUME DraftInv, [Next]_vars PROVE DraftInv'
  OBVIOUS
<1>1. CASE UNCHANGED vars
  BY <1>1 DEF vars, DraftInv, TypeOK, TimesKept, WorkOk, RevisionOk, Firm, Stamped
<1>2. ASSUME NEW p \in Writers, WriterStep(p) PROVE DraftInv'
  <2>1. CASE ReadHead(p)
    BY <2>1, LookKeeps
  <2>2. CASE \E cites \in SUBSET Citable, names \in Names : SubmitText(p, cites, names)
    BY <2>2, ArriveKeeps
  <2>3. CASE \E c \in Citable : Resolve(p, c) \/ Date(p, c)
    BY <2>3, ResolveKeeps, DateKeeps
  <2>4. CASE Resolved(p)
    BY <2>4, ResolvedKeeps
  <2>5. CASE Save(p)
    BY <2>5, SaveKeeps
  <2>6. CASE GiveUp(p)
    BY <2>6, GiveUpKeeps
  <2> QED
    BY <1>2, <2>1, <2>2, <2>3, <2>4, <2>5, <2>6 DEF WriterStep
<1>3. CASE \E sources \in SUBSET Citable : \E cites \in SUBSET sources : Deliver(sources, cites)
  <2>1. Model \in Writers /\ \A sources \in SUBSET Citable : SUBSET sources \subseteq SUBSET Citable
    BY DEF Writers
  <2> QED
    BY <1>3, <2>1, ArriveKeeps
<1> QED
  BY <1>1, <1>2, <1>3, SourcesKeep DEF Next

LEMMA AlwaysInv == Spec => []DraftInv
BY InitInv, NextInv, PTL DEF Spec

------------------------------------------------------------------------------
(* Theorems *)

\* Revisions, and what each writer is doing, are of their types (context.js).
THEOREM TypeCorrect == Spec => []TypeOK
<1>1. DraftInv => TypeOK
  BY DEF DraftInv
<1> QED
  BY <1>1, AlwaysInv, PTL

\* What readers are told is missing was hidden after it was cited (context.js, resolveCites, view).
THEOREM CitesStand == Spec => []MissingSinceWritten
<1>1. DraftInv => MissingSinceWritten
  <2> SUFFICES ASSUME DraftInv, NEW n \in 1 .. Len(revs)
               PROVE  Missing(n) \subseteq hidden \ revs[n].barred
    BY DEF MissingSinceWritten
  <2>1. revs[n] \in Revision /\ RevisionOk(revs[n])
    BY DEF DraftInv, TypeOK
  <2> QED
    BY <2>1 DEF RevisionOk, Firm, Missing, Current, Revision
<1> QED
  BY <1>1, AlwaysInv, PTL

\* The date of a revision is that of its sources, never of its writing (context.js, asOf).
THEOREM DatedBySources == Spec => []AsOfItsSources
<1>1. DraftInv => AsOfItsSources
  BY DEF DraftInv, AsOfItsSources, RevisionOk, Stamped
<1> QED
  BY <1>1, AlwaysInv, PTL

==============================================================================
