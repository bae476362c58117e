-------------------------------- MODULE Drafts --------------------------------
(***************************************************************************)
(* How one instrument's context is written (server/domain/context.js): an  *)
(* editor opens the form and saves it or writes through the API,           *)
(* OpenVibe.AI is given sources and delivers a draft, while ingest files,  *)
(* revises and hides the documents they cite.                              *)
(* Module Publication follows a revision from there, through its reviews,  *)
(* to the readers.                                                         *)
(*                                                                         *)
(* A revision keeps what it cites and how new that is; its text is its     *)
(* number.  Revision 0 is none, time 0 is none.                            *)
(***************************************************************************)
EXTENDS Naturals, Sequences

CONSTANTS
  Editors,      \* who may write: at the form, or through the API
  Model,        \* OpenVibe.AI
  Documents,    \* the instrument's source documents, and ids of none
  Observations, \* ... and its observations
  MaxRevisions, \* bound on the revisions written
  MaxTime       \* bound on the times documents state

ASSUME DraftsAssumption ==
  /\ Model \notin Editors
  /\ Documents \cap Observations = {}
  /\ MaxRevisions \in Nat /\ MaxTime \in Nat

Writers == Editors \cup {Model}

Citable == Documents \cup Observations

Times == 0 .. MaxTime

VARIABLES
  dated,   \* per citable, the time it states now; 0 when it is not on record
  was,     \* per citable, every time it stated: for the properties only
  hidden,  \* documents removed at their source
  revs,    \* trade_context_revisions
  work     \* what each writer is doing

vars == <<dated, was, hidden, revs, work>>

\* The number of a revision, where there is one.
Numbered == SUBSET (0 .. MaxRevisions)

\* barred: kept for the properties; the table has no such column.
Revision == [mode: {"human", "ai"}, cites: SUBSET Citable, as_of: Times, barred: SUBSET Documents]

\* form: the page has read the head.  given, cited, dating: the request checks the sources of the
\* model, the citations, and reads their times, one after the other (left).  expected: the revision
\* the request names; barred: what it cites and was hidden when the request arrived.
Work == [at: {"idle", "form", "given", "cited", "dating"}, expected: Numbered,
         cites: SUBSET Citable, left: SUBSET Citable, as_of: Times, barred: SUBSET Documents]

Idle == [at |-> "idle", expected |-> {}, cites |-> {}, left |-> {}, as_of |-> 0, barred |-> {}]

TypeOK ==
  /\ dated \in [Citable -> Times]
  /\ was \in [Citable -> SUBSET Times]
  /\ hidden \subseteq {d \in Documents : dated[d] # 0}
  /\ revs \in Seq(Revision) /\ Len(revs) <= MaxRevisions
  /\ work \in [Writers -> Work]

Init ==
  /\ dated = [c \in Citable |-> 0]
  /\ was = [c \in Citable |-> {}]
  /\ hidden = {}
  /\ revs = << >>
  /\ work = [p \in Writers |-> Idle]

Current == {c \in Citable : dated[c] # 0 /\ c \notin hidden}

------------------------------------------------------------------------------
(* The editor's page *)

\* The page reads the head, which its form names.  It has listed the revisions before: a revision
\* saved between the two is named and not shown.
ReadHead(p) ==
  /\ p \in Editors
  /\ work[p].at = "idle"
  /\ work' = [work EXCEPT ![p] = [Idle EXCEPT !.at = "form", !.expected = {Len(revs)}]]
  /\ UNCHANGED <<dated, was, hidden, revs>>

------------------------------------------------------------------------------
(* The request: propose *)

\* A text with its citations, which may be any ids.  The form names the head of its page, a
\* request to the API any revision or none.
SubmitText(p, cites, names) ==
  /\ p \in Editors
  /\ \/ work[p].at = "form" /\ names = work[p].expected
     \/ work[p].at = "idle"
  /\ work' = [work EXCEPT ![p] = [@ EXCEPT !.at = "cited", !.expected = names, !.cites = cites,
                                           !.left = cites, !.barred = cites \cap hidden]]
  /\ UNCHANGED <<dated, was, hidden, revs>>

\* The model's output cites some of the sources the request says it was given; all are checked.
Deliver(sources, cites) ==
  /\ work[Model].at = "idle"
  /\ cites \subseteq sources
  /\ work' = [work EXCEPT ![Model] = [Idle EXCEPT !.at = "given", !.cites = cites,
                !.left = sources, !.barred = cites \cap hidden]]
  /\ UNCHANGED <<dated, was, hidden, revs>>

\* Fault: a document that is on record will do.
OnRecord(c) == dated[c] # 0

\* A citation is an observation, or a document that was not removed.
Sound(c) == dated[c] # 0 /\ c \notin hidden

\* resolveCites, one look-up at a time; a bad citation refuses the request (GiveUp).
Resolve(p, c) ==
  /\ work[p].at \in {"given", "cited"}
  /\ c \in work[p].left
  /\ Sound(c)
  /\ work' = [work EXCEPT ![p].left = @ \ {c}]
  /\ UNCHANGED <<dated, was, hidden, revs>>

\* The model's sources exist: its citations are checked again, as anyone's; then they are dated.
Resolved(p) ==
  /\ work[p].at \in {"given", "cited"}
  /\ work[p].left = {}
  /\ work' = [work EXCEPT ![p].left = work[p].cites,
                          ![p].at = IF @ = "given" THEN "cited" ELSE "dating"]
  /\ UNCHANGED <<dated, was, hidden, revs>>

\* Fault: the newest of anything on record.
DateOfAll(p, c) ==
  /\ work[p].at = "dating"
  /\ c \in work[p].left
  /\ \E d \in Citable :
       /\ \A e \in Citable : dated[e] <= dated[d]
       /\ work' = [work EXCEPT ![p].left = @ \ {c}, ![p].as_of = dated[d]]
  /\ UNCHANGED <<dated, was, hidden, revs>>

\* asOf, one look-up at a time: the newest time among the citations.
Date(p, c) ==
  /\ work[p].at = "dating"
  /\ c \in work[p].left
  /\ work' = [work EXCEPT ![p].left = @ \ {c},
                          ![p].as_of = IF dated[c] > @ THEN dated[c] ELSE @]
  /\ UNCHANGED <<dated, was, hidden, revs>>

\* The revision the request names is the newest one; who names none takes the newest.
UpToDate(w) == \A e \in w.expected : e = Len(revs)

\* The transaction: create.  (What a person wants published it publishes: module Publication.)
Save(p) ==
  LET w == work[p] IN
  /\ w.at = "dating" /\ w.left = {}
  /\ Len(revs) < MaxRevisions
  /\ UpToDate(w)
  /\ revs' = Append(revs, [mode |-> IF p = Model THEN "ai" ELSE "human", cites |-> w.cites,
                           as_of |-> w.as_of, barred |-> w.barred])
  /\ work' = [work EXCEPT ![p] = Idle]
  /\ UNCHANGED <<dated, was, hidden>>

\* The request is refused (a bad citation, text that reads as advice, a newer revision), or never
\* made; an editor whose text was refused may send another that names the same revision.
GiveUp(p) ==
  /\ work[p].at # "idle"
  /\ \/ work' = [work EXCEPT ![p] = Idle]
     \/ /\ work[p].expected # {} /\ work[p].at # "form"
        /\ work' = [work EXCEPT ![p] = [@ EXCEPT !.at = "form", !.cites = {}, !.left = {},
                                                 !.as_of = 0, !.barred = {}]]
  /\ UNCHANGED <<dated, was, hidden, revs>>

------------------------------------------------------------------------------
(* The sources *)

\* Ingest files a document or a newer revision of it, hidden or not, a feed an observation: only
\* documents change.
StateTime(c, t) ==
  /\ dated[c] # t
  /\ c \in Observations => dated[c] = 0
  /\ dated' = [dated EXCEPT ![c] = t]
  /\ was' = [was EXCEPT ![c] = @ \cup {t}]
  /\ UNCHANGED <<hidden, revs, work>>

\* Fault: a document is hidden before it was filed.
HideUnfiled(d) ==
  /\ d \notin hidden
  /\ hidden' = hidden \cup {d}
  /\ UNCHANGED <<dated, was, revs, work>>

\* documents.remove: hidden for good.
Hide(d) ==
  /\ dated[d] # 0 /\ d \notin hidden
  /\ hidden' = hidden \cup {d}
  /\ UNCHANGED <<dated, was, revs, work>>

\* The revision a request names: one, or none.
Names == {{}} \cup {{n} : n \in 0 .. MaxRevisions}

WriterStep(p) ==
  \/ ReadHead(p)
  \/ \E cites \in SUBSET Citable, names \in Names : SubmitText(p, cites, names)
  \/ \E c \in Citable : Resolve(p, c) \/ Date(p, c)
  \/ Resolved(p)
  \/ Save(p)
  \/ GiveUp(p)

Next ==
  \/ \E p \in Writers : WriterStep(p)
  \/ \E sources \in SUBSET Citable : \E cites \in SUBSET sources : Deliver(sources, cites)
  \/ \E c \in Citable, t \in 1 .. MaxTime : StateTime(c, t)
  \/ \E d \in Documents : Hide(d)

Spec == Init /\ [][Next]_vars

\* view: the citations of revision n that its readers are told are missing.
Missing(n) == revs[n].cites \ Current

------------------------------------------------------------------------------
(* Properties *)

\* What is missing from a revision went missing after it was sent: a document that was hidden by
\* then, or an id of nothing, is not cited, whatever ids the request has (context.js, resolveCites
\* and view).
MissingSinceWritten ==
  \A n \in 1 .. Len(revs) : Missing(n) \subseteq hidden \ revs[n].barred

\* What a revision says it is as of is a time one of its own citations stated, none when it cites
\* nothing, and never older than everything one of them ever stated (context.js: "the newest
\* observation or document time among the citations (never the time of writing)").
AsOfItsSources ==
  \A n \in 1 .. Len(revs) :
    LET r == revs[n] IN
    /\ r.as_of # 0 <=> r.cites # {}
    /\ r.cites # {} => \E c \in r.cites : r.as_of \in was[c]
    /\ \A c \in r.cites : \E t \in was[c] : t <= r.as_of

==============================================================================
