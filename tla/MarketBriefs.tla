----------------------------- MODULE MarketBriefs -----------------------------
(***************************************************************************)
(* The market brief of each UTC day (domain/market-briefs.js): ticks of the *)
(* worker that may overlap, one of them 5 s after every start, ask          *)
(* OpenVibe.AI and store what it wrote; editors review it; the home page,   *)
(* the brief's own page, the sitemap and the review queue read it.          *)
(*                                                                         *)
(* A text is the number of the AI call that wrote it, the rows it was       *)
(* written from are the day whose last 24 hours they are.  Points, links    *)
(* and gaps are left out; a text that cites nothing or reads as advice is   *)
(* one refusal among others.                                                *)
(***************************************************************************)
EXTENDS Naturals, FiniteSets

CONSTANTS
  MaxDay,      \* bound on the days that pass
  Ticks,       \* ticks that may be under way at once: the timer does not wait for the last one
  Editors,     \* requests that review a brief
  MaxCalls,    \* bound on the calls of OpenVibe.AI for one day
  MaxReviews,  \* bound on the reviews recorded
  Listed       \* the sitemap's limit: marketBriefs.reviewed(100)

ASSUME MarketBriefsAssumption ==
  /\ MaxDay \in Nat \ {0} /\ MaxCalls \in Nat \ {0} /\ MaxReviews \in Nat
  /\ Listed \in Nat \ {0}
  /\ IsFiniteSet(Ticks)

VARIABLES
  today,    \* the UTC day
  brief,    \* trade_market_briefs by brief_date: its text and the day of its rows
  reviews,  \* trade_market_brief_reviews, with the text the reviewer decided on
  tick,     \* what each tick is doing, for which day
  calls,    \* history: the calls of OpenVibe.AI for each day ...
  lost,     \* ... and how many of them failed, were refused, or died with the process
  editor    \* what each review request found, and history: how many reviews there were then

vars == <<today, brief, reviews, tick, calls, lost, editor>>

Days == 1 .. MaxDay

\* 0 is no brief, and no day.
NoBrief == [text |-> 0, rows |-> 0]

Briefs == [text: 0 .. MaxCalls, rows: 0 .. MaxDay]

Decisions == {"approved", "rejected"}

Review == [id: 1 .. MaxReviews, day: Days, decision: Decisions, text: 1 .. MaxCalls,
           seen: 0 .. MaxReviews]

\* due: found no brief and reads the rows; asked: waits for OpenVibe.AI, call number `text`.
Tick == [at: {"idle", "due", "asked"}, day: 0 .. MaxDay, text: 0 .. MaxCalls]

\* A review request that found a brief.
Looked == [day: 0 .. MaxDay, seen: 0 .. MaxReviews]

NotLooked == [day |-> 0, seen |-> 0]

IdleTick == [at |-> "idle", day |-> 0, text |-> 0]

TypeOK ==
  /\ today \in Days
  /\ brief \in [Days -> Briefs]
  /\ reviews \subseteq Review
  /\ tick \in [Ticks -> Tick]
  /\ calls \in [Days -> 0 .. MaxCalls] /\ lost \in [Days -> 0 .. MaxCalls]
  /\ editor \in [Editors -> Looked]

Init ==
  /\ today = 1
  /\ brief = [d \in Days |-> NoBrief]
  /\ reviews = {}
  /\ tick = [t \in Ticks |-> IdleTick]
  /\ calls = [d \in Days |-> 0] /\ lost = [d \in Days |-> 0]
  /\ editor = [e \in Editors |-> NotLooked]

------------------------------------------------------------------------------
(* What the queries answer *)

Made(d) == d # 0 /\ brief[d] # NoBrief

Newest(S) == IF S = {} THEN 0 ELSE CHOOSE d \in S : \A e \in S : e <= d

\* latestReview: the greatest id.
LatestIs(d, decision) ==
  \E r \in reviews : r.day = d /\ r.decision = decision /\ \A s \in reviews : s.day = d => s.id <= r.id

\* shape: what the newest review says.
Reviewed(d) == LatestIs(d, "approved")
Rejected(d) == LatestIs(d, "rejected")

\* reviewed: the briefs with an approval, whatever came after it.
WithApproval == {d \in Days : Made(d) /\ \E r \in reviews : r.day = d /\ r.decision = "approved"}

\* latestReviewed: the newest of them.
Picked == Newest(WithApproval)

\* showHome: in full if its newest review is still an approval.
HomeShows == IF Reviewed(Picked) THEN Picked ELSE 0

\* latestUnreviewed, and the queue: only the newest brief waits in it.
Unreviewed == Newest({d \in Days : Made(d) /\ \A r \in reviews : r.day # d})

Queue == {d \in {Newest({e \in Days : Made(e)})} : Made(d) /\ \A r \in reviews : r.day # d}

\* get: /market/<date>; gateFacts: its page may be indexed.
Page(d) == Made(d) /\ ~Rejected(d)
Indexable(d) == Page(d) /\ Reviewed(d)

\* pagesSitemap lists what was ever approved; its limit counts the approvals, newest brief first.
Sitemap ==
  {d \in WithApproval : Cardinality({r \in reviews : r.decision = "approved" /\ r.day > d}) < Listed}

------------------------------------------------------------------------------
(* The worker *)

\* Fault: today's brief is made whether there is one or not.
StartAnyway(t) ==
  /\ tick[t].at = "idle"
  /\ tick' = [tick EXCEPT ![t] = [at |-> "due", day |-> today, text |-> 0]]
  /\ UNCHANGED <<today, brief, reviews, calls, lost, editor>>

\* make, up to its first await: no brief for the day that `now` is in.
Start(t) ==
  /\ tick[t].at = "idle"
  /\ ~Made(today)
  /\ tick' = [tick EXCEPT ![t] = [at |-> "due", day |-> today, text |-> 0]]
  /\ UNCHANGED <<today, brief, reviews, calls, lost, editor>>

\* inputsFor read rows of the last 24 hours and there are some: OpenVibe.AI is called.
Ask(t) ==
  LET d == tick[t].day IN
  /\ tick[t].at = "due"
  /\ calls[d] < MaxCalls
  /\ calls' = [calls EXCEPT ![d] = @ + 1]
  /\ tick' = [tick EXCEPT ![t] = [at |-> "asked", day |-> d, text |-> calls[d] + 1]]
  /\ UNCHANGED <<today, brief, reviews, lost, editor>>

\* There is nothing to write from.
Skip(t) ==
  /\ tick[t].at = "due"
  /\ tick' = [tick EXCEPT ![t] = IdleTick]
  /\ UNCHANGED <<today, brief, reviews, calls, lost, editor>>

\* Fault: the date of the brief is read when it is stored.
StoreToday(t) ==
  /\ tick[t].at = "asked"
  /\ IF Made(today) THEN UNCHANGED brief
                    ELSE brief' = [brief EXCEPT ![today] = [text |-> tick[t].text, rows |-> tick[t].day]]
  /\ tick' = [tick EXCEPT ![t] = IdleTick]
  /\ UNCHANGED <<today, reviews, calls, lost, editor>>

\* Fault: a second text of the day replaces the first.
StoreOver(t) ==
  /\ tick[t].at = "asked"
  /\ brief' = [brief EXCEPT ![tick[t].day] = [text |-> tick[t].text, rows |-> tick[t].day]]
  /\ tick' = [tick EXCEPT ![t] = IdleTick]
  /\ UNCHANGED <<today, reviews, calls, lost, editor>>

\* The text is kept under the day the tick began on; the unique key refuses a second one.
Store(t) ==
  LET d == tick[t].day IN
  /\ tick[t].at = "asked"
  /\ IF Made(d) THEN UNCHANGED brief
                ELSE brief' = [brief EXCEPT ![d] = [text |-> tick[t].text, rows |-> d]]
  /\ tick' = [tick EXCEPT ![t] = IdleTick]
  /\ UNCHANGED <<today, reviews, calls, lost, editor>>

\* OpenVibe.AI fails, answers a placeholder, nothing, nothing sourced, or advice: nothing is kept.
Refuse(t) ==
  LET d == tick[t].day IN
  /\ tick[t].at = "asked"
  /\ lost' = [lost EXCEPT ![d] = @ + 1]
  /\ tick' = [tick EXCEPT ![t] = IdleTick]
  /\ UNCHANGED <<today, brief, reviews, calls, editor>>

\* The process restarts: every tick under way is gone, with what OpenVibe.AI was writing.
Restart ==
  /\ \E t \in Ticks : tick[t].at # "idle"
  /\ lost' = [d \in Days |-> lost[d] + Cardinality({t \in Ticks : tick[t].at = "asked" /\ tick[t].day = d})]
  /\ tick' = [t \in Ticks |-> IdleTick]
  /\ UNCHANGED <<today, brief, reviews, calls, editor>>

Midnight ==
  /\ today < MaxDay
  /\ today' = today + 1
  /\ UNCHANGED <<brief, reviews, tick, calls, lost, editor>>

------------------------------------------------------------------------------
(* Editors *)

\* Fault: a brief that does not exist may be reviewed.
CheckReviewAny(e, d) ==
  /\ editor[e].day = 0
  /\ \A r \in reviews : r.day # d
  /\ editor' = [editor EXCEPT ![e] = [day |-> d, seen |-> Cardinality(reviews)]]
  /\ UNCHANGED <<today, brief, reviews, tick, calls, lost>>

\* Fault: a brief that was reviewed may be reviewed again.
CheckReviewAgain(e, d) ==
  /\ editor[e].day = 0
  /\ Made(d)
  /\ editor' = [editor EXCEPT ![e] = [day |-> d, seen |-> Cardinality(reviews)]]
  /\ UNCHANGED <<today, brief, reviews, tick, calls, lost>>

\* review finds the brief and no review of it ...
CheckReview(e, d) ==
  /\ editor[e].day = 0
  /\ Made(d) /\ \A r \in reviews : r.day # d
  /\ editor' = [editor EXCEPT ![e] = [day |-> d, seen |-> Cardinality(reviews)]]
  /\ UNCHANGED <<today, brief, reviews, tick, calls, lost>>

\* ... and records the decision; another one may have been recorded meanwhile.
RecordReview(e, decision) ==
  LET d == editor[e].day IN
  /\ d # 0
  /\ Cardinality(reviews) < MaxReviews
  /\ reviews' = reviews \cup
       {[id |-> Cardinality(reviews) + 1, day |-> d, decision |-> decision, text |-> brief[d].text,
         seen |-> editor[e].seen]}
  /\ editor' = [editor EXCEPT ![e] = NotLooked]
  /\ UNCHANGED <<today, brief, tick, calls, lost>>

Next ==
  \/ \E t \in Ticks : Start(t) \/ Ask(t) \/ Skip(t) \/ Store(t) \/ Refuse(t)
  \/ Restart
  \/ Midnight
  \/ \E e \in Editors, d \in Days : CheckReview(e, d)
  \/ \E e \in Editors, decision \in Decisions : RecordReview(e, decision)

Spec == Init /\ [][Next]_vars

------------------------------------------------------------------------------
(* Properties *)

\* A day costs one call of OpenVibe.AI, one for each call that was lost, and one for each other
\* tick that had looked before the brief was stored: a stored brief stops the calls
\* (market-briefs.js, make, "at most once a UTC day").
CallsBounded ==
  \A d \in Days : calls[d] <= lost[d] + Cardinality(Ticks)

\* A brief is about the 24 hours up to a moment of the day its date names, although OpenVibe.AI may
\* answer after midnight, and its date is not taken by an answer that was late (market-briefs.js,
\* make).  (The rows are not bounded from above: a slow look-up may add newer ones.)
DayOfItsRows == \A d \in Days : Made(d) => brief[d].rows = d

\* The text under a decision is the text the editor decided on, whatever the ticks of that day
\* still store (market-briefs.js, review; 0007_market_briefs.sql, brief_date UNIQUE).
ReviewsOfTheText == \A r \in reviews : brief[r.day].text = r.text

\* Two decisions about d, the second by a request that had looked before the first was recorded.
DecidedAtOnce(d) ==
  \E r, s \in reviews : r.day = d /\ s.day = d /\ s.seen < r.id /\ r.id < s.id

\* The readers' queries agree but where two decisions were taken at once.  A page of the sitemap may
\* be indexed; the page it leaves out is older than all it lists; the home shows the newest page
\* that may be indexed; what waits in the editors' queue has a page, unlisted.  A brief approved and
\* rejected at once stays in the sitemap, without a page, and empties the home
\* (market-briefs.js, latestReviewed, get, reviewed, gateFacts, pendingReviews, review).
ReadersAgree ==
  /\ \A d \in Sitemap : Indexable(d) \/ DecidedAtOnce(d)
  /\ \A d \in Days \ Sitemap : Indexable(d) => Sitemap # {} /\ \A s \in Sitemap : s > d
  /\ \A d \in Days : Indexable(d) => HomeShows >= d \/ DecidedAtOnce(Picked)
  /\ HomeShows # 0 => HomeShows \in Sitemap /\ Indexable(HomeShows)
  /\ \A d \in Queue : Page(d) /\ d \notin Sitemap /\ d = Unreviewed

==============================================================================
