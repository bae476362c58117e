---------------------------- MODULE AiBriefsProofs ----------------------------
(***************************************************************************)
(* The briefs that OpenVibe.AI writes: theorems about MarketBriefs, then    *)
(* about Briefs.  A market brief is of its day, is what was reviewed, costs *)
(* a bounded number of calls and is shown alike to its readers; the lists   *)
(* of the worker and the budget of an hour are bounded, nothing is written  *)
(* twice one after the other, and no company with new numbers is forgotten. *)
(***************************************************************************)
EXTENDS MarketBriefs, Briefs, FiniteSetTheorems, WellFoundedInduction, TLAPS

(* Market briefs *)

\* A set of naturals has a least one.
LEMMA Smallest ==
  ASSUME NEW T \in SUBSET Nat, T # {}
  PROVE  \E n \in T : \A m \in T : n <= m
<1> DEFINE R == OpToRel(<, Nat)
<1>1. \A x, y \in Nat : <<x, y>> \in R <=> x < y
  BY DEF OpToRel
<1>2. IsWellFoundedOn(R, Nat)
  BY NatLessThanWellFounded
<1> HIDE DEF R
<1>3. PICK x \in T : \A y \in T : ~ (<<y, x>> \in R)
  BY <1>2, WFMin
<1>4. ASSUME NEW m \in T PROVE x <= m
  <2>1. x \in Nat /\ m \in Nat
    OBVIOUS
  <2>2. ~ (m < x)
    BY <1>1, <1>3, <2>1, Zenon
  <2> QED
    BY <2>1, <2>2
<1> QED
  BY <1>4

\* The ticks that wait for a text of day d, and those that found no brief and have yet to ask.
Asking(d) == {t \in Ticks : tick[t].at = "asked" /\ tick[t].day = d}
Looking(d) == {t \in Ticks : tick[t].at = "due" /\ tick[t].day = d}

\* Every call is lost, awaited or led to the brief.  Once there is one nobody starts to look: who
\* is looking or awaited then, and the one who stored it, are different ticks.
CallsAccounted ==
  \A d \in Days :
    /\ lost[d] + Cardinality(Asking(d)) <= calls[d]
    /\ Made(d) => calls[d] + Cardinality(Looking(d)) <= lost[d] + Cardinality(Ticks)
    /\ ~Made(d) => calls[d] = lost[d] + Cardinality(Asking(d))

\* A tick under way is of a day, and of a text once it has asked.
TicksDated ==
  \A t \in Ticks :
    /\ tick[t].at # "idle" => tick[t].day \in Days
    /\ tick[t].at = "asked" => tick[t].text # 0

\* What an editor found, and what was reviewed, is a brief, and a brief has a text.
BriefsThere ==
  /\ \A d \in Days : Made(d) => brief[d].text # 0
  /\ \A e \in Editors : editor[e].day # 0 => Made(editor[e].day)
  /\ IsFiniteSet(reviews)
  /\ \A r \in reviews : Made(r.day)

\* Reviews are numbered as they come.  Who found no review of a brief looked before its first one,
\* and so did who decided on it second.
ReviewsTold ==
  /\ Cardinality(reviews) <= MaxReviews
  /\ \A r \in reviews : r.id <= Cardinality(reviews)
  /\ \A r, s \in reviews : r.id = s.id => r = s
  /\ \A e \in Editors : editor[e].day # 0 => editor[e].seen <= Cardinality(reviews)
  /\ \A e \in Editors, r \in reviews : r.day = editor[e].day => editor[e].seen < r.id
  /\ \A r, s \in reviews : r.day = s.day /\ r.id < s.id => s.seen < r.id

BriefInv ==
  /\ TypeOK
  /\ TicksDated
  /\ BriefsThere
  /\ ReviewsTold
  /\ DayOfItsRows
  /\ ReviewsOfTheText
  /\ CallsAccounted

------------------------------------------------------------------------------
(* Counting ticks *)

LEMMA Counting ==
  ASSUME NEW S \in SUBSET Ticks, NEW t \in Ticks
  PROVE  /\ IsFiniteSet(S) /\ Cardinality(S) \in Nat /\ Cardinality(Ticks) \in Nat
         /\ Cardinality(S) <= Cardinality(Ticks)
         /\ Cardinality(S \cup {t}) = IF t \in S THEN Cardinality(S) ELSE Cardinality(S) + 1
         /\ Cardinality(S \ {t}) = IF t \in S THEN Cardinality(S) - 1 ELSE Cardinality(S)
<1>1. IsFiniteSet(Ticks)
  BY MarketBriefsAssumption
<1>2. IsFiniteSet(S) /\ Cardinality(S) <= Cardinality(Ticks)
  BY <1>1, FS_Subset
<1> QED
  BY <1>1, <1>2, FS_CardinalityType, FS_AddElement, FS_RemoveElement

LEMMA DisjointCount ==
  ASSUME NEW S \in SUBSET Ticks, NEW T \in SUBSET Ticks, S \cap T = {}
  PROVE  /\ Cardinality(S) \in Nat /\ Cardinality(T) \in Nat /\ Cardinality(Ticks) \in Nat
         /\ Cardinality(S) + Cardinality(T) <= Cardinality(Ticks)
<1>1. IsFiniteSet(Ticks) /\ IsFiniteSet(S) /\ IsFiniteSet(T) /\ IsFiniteSet(S \cup T)
  BY MarketBriefsAssumption, FS_Subset
<1>2. Cardinality(S \cup T) <= Cardinality(Ticks)
  BY <1>1, FS_Subset
<1>3. Cardinality(S \cup T) = Cardinality(S) + Cardinality(T) - Cardinality(S \cap T)
  BY <1>1, FS_Union
<1>4. Cardinality(S \cap T) = 0
  BY FS_EmptySet
<1> QED
  BY <1>1, <1>2, <1>3, <1>4, FS_CardinalityType

\* The counts are numbers, and no tick is in both.
LEMMA Counts ==
  ASSUME NEW d \in Days
  PROVE  /\ Cardinality(Asking(d)) \in Nat /\ Cardinality(Looking(d)) \in Nat
         /\ Cardinality(Ticks) \in Nat
         /\ Cardinality(Asking(d)) + Cardinality(Looking(d)) <= Cardinality(Ticks)
<1> PICK S, T : S = Asking(d) /\ T = Looking(d)
  OBVIOUS
<1>1. S \in SUBSET Ticks /\ T \in SUBSET Ticks /\ S \cap T = {}
  BY DEF Asking, Looking
<1> QED
  BY <1>1, DisjointCount

\* What tick t's move to x makes of the counts of day d.
CountsMove(t, x, d) ==
  /\ Cardinality(Asking(d))' = Cardinality(Asking(d))
       + (IF x.at = "asked" /\ x.day = d THEN 1 ELSE 0) - (IF t \in Asking(d) THEN 1 ELSE 0)
  /\ Cardinality(Looking(d))' = Cardinality(Looking(d))
       + (IF x.at = "due" /\ x.day = d THEN 1 ELSE 0) - (IF t \in Looking(d) THEN 1 ELSE 0)

\* One tick moves: the counts change by one, or not at all.
LEMMA OneMoves ==
  ASSUME TypeOK, NEW t \in Ticks, NEW x, tick' = [tick EXCEPT ![t] = x], NEW d \in Days
  PROVE  CountsMove(t, x, d)
<1>1. \A u \in Ticks : tick'[u] = IF u = t THEN x ELSE tick[u]
  BY DEF TypeOK
<1>2. Cardinality(Asking(d))' = Cardinality(Asking(d))
        + (IF x.at = "asked" /\ x.day = d THEN 1 ELSE 0) - (IF t \in Asking(d) THEN 1 ELSE 0)
  <2> PICK S, T : S = Asking(d) /\ T = Asking(d)'
    OBVIOUS
  <2>1. S \in SUBSET Ticks /\ T = IF x.at = "asked" /\ x.day = d THEN S \cup {t} ELSE S \ {t}
    BY <1>1 DEF Asking
  <2>2. /\ Cardinality(S) \in Nat
        /\ Cardinality(S \cup {t}) = IF t \in S THEN Cardinality(S) ELSE Cardinality(S) + 1
        /\ Cardinality(S \ {t}) = IF t \in S THEN Cardinality(S) - 1 ELSE Cardinality(S)
    BY <2>1, Counting
  <2>3. CASE x.at = "asked" /\ x.day = d
    <3>1. T = S \cup {t}
      BY <2>1, <2>3
    <3> QED
      BY <2>2, <2>3, <3>1
  <2>4. CASE ~(x.at = "asked" /\ x.day = d)
    <3>1. T = S \ {t}
      BY <2>1, <2>4
    <3> QED
      BY <2>2, <2>4, <3>1
  <2> QED
    BY <2>3, <2>4
<1>3. Cardinality(Looking(d))' = Cardinality(Looking(d))
        + (IF x.at = "due" /\ x.day = d THEN 1 ELSE 0) - (IF t \in Looking(d) THEN 1 ELSE 0)
  <2> PICK S, T : S = Looking(d) /\ T = Looking(d)'
    OBVIOUS
  <2>1. S \in SUBSET Ticks /\ T = IF x.at = "due" /\ x.day = d THEN S \cup {t} ELSE S \ {t}
    BY <1>1 DEF Looking
  <2>2. /\ Cardinality(S) \in Nat
        /\ Cardinality(S \cup {t}) = IF t \in S THEN Cardinality(S) ELSE Cardinality(S) + 1
        /\ Cardinality(S \ {t}) = IF t \in S THEN Cardinality(S) - 1 ELSE Cardinality(S)
    BY <2>1, Counting
  <2>3. CASE x.at = "due" /\ x.day = d
    <3>1. T = S \cup {t}
      BY <2>1, <2>3
    <3> QED
      BY <2>2, <2>3, <3>1
  <2>4. CASE ~(x.at = "due" /\ x.day = d)
    <3>1. T = S \ {t}
      BY <2>1, <2>4
    <3> QED
      BY <2>2, <2>4, <3>1
  <2> QED
    BY <2>3, <2>4
<1> QED
  BY <1>2, <1>3 DEF CountsMove

LEMMA InitInv == Init => BriefInv
<1> SUFFICES ASSUME Init PROVE BriefInv
  OBVIOUS
<1>1. TypeOK
  BY MarketBriefsAssumption DEF Init, TypeOK, Days, Briefs, NoBrief, Tick, IdleTick,
     Looked, NotLooked
<1>2. TicksDated
  BY DEF Init, TicksDated, IdleTick
<1>3. BriefsThere /\ ReviewsTold /\ DayOfItsRows /\ ReviewsOfTheText
  <2>1. reviews = {} /\ Cardinality(reviews) = 0 /\ IsFiniteSet(reviews)
    BY FS_EmptySet DEF Init
  <2>2. (\A e \in Editors : editor[e].day = 0) /\ \A d \in Days : brief[d] = NoBrief
    BY DEF Init, NotLooked
  <2>3. BriefsThere
    BY <2>1, <2>2 DEF BriefsThere, Made
  <2>4. ReviewsTold
    <3>1. 0 <= MaxReviews
      BY MarketBriefsAssumption
    <3>2. \A e \in Editors : ~(editor[e].day # 0)
      BY <2>2
    <3> QED
      BY <2>1, <3>1, <3>2 DEF ReviewsTold
  <2>5. DayOfItsRows /\ ReviewsOfTheText
    BY <2>1, <2>2 DEF DayOfItsRows, ReviewsOfTheText, Made, NoBrief
  <2> QED
    BY <2>3, <2>4, <2>5
<1>4. CallsAccounted
  <2> SUFFICES ASSUME NEW d \in Days PROVE lost[d] = 0 /\ calls[d] = 0 /\ ~Made(d) /\ Cardinality(Asking(d)) = 0
    BY DEF CallsAccounted
  <2>1. Asking(d) = {}
    BY DEF Init, Asking, IdleTick
  <2> QED
    BY <2>1, FS_EmptySet DEF Init, Made, NoBrief
<1> QED
  BY <1>1, <1>2, <1>3, <1>4 DEF BriefInv

------------------------------------------------------------------------------
(* Steps *)

LEMMA TickMoves ==
  ASSUME BriefInv, NEW t \in Ticks, NEW x \in Tick, tick' = [tick EXCEPT ![t] = x],
         x.at # "idle" => x.day \in Days, x.at = "asked" => x.text # 0
  PROVE  tick' \in [Ticks -> Tick] /\ TicksDated'
<1>1. tick' \in [Ticks -> Tick] /\ \A u \in Ticks : tick'[u] = IF u = t THEN x ELSE tick[u]
  BY DEF BriefInv, TypeOK
<1> QED
  BY <1>1 DEF BriefInv, TicksDated

\* Whatever ticks and days do, the briefs and what was decided on them stay.
LEMMA BriefsStay ==
  ASSUME BriefInv, UNCHANGED <<brief, reviews, editor>>
  PROVE  /\ BriefsThere' /\ ReviewsTold' /\ DayOfItsRows' /\ ReviewsOfTheText'
         /\ \A d \in Days : Made(d)' <=> Made(d)
BY DEF BriefInv, BriefsThere, ReviewsTold, DayOfItsRows, ReviewsOfTheText, Made

LEMMA StartKeeps ==
  ASSUME BriefInv, NEW t \in Ticks, Start(t)
  PROVE  BriefInv'
<1> PICK x : x = [at |-> "due", day |-> today, text |-> 0]
  OBVIOUS
<1>0. TypeOK /\ today \in Days
  BY DEF BriefInv, TypeOK
<1>1. tick[t].at = "idle" /\ ~Made(today) /\ tick' = [tick EXCEPT ![t] = x]
  BY DEF Start
<1>2. UNCHANGED <<today, brief, reviews, calls, lost, editor>>
  BY DEF Start
<1>3. x \in Tick /\ x.day = today /\ x.at = "due"
  BY <1>0, MarketBriefsAssumption DEF Tick, Days
<1>4. tick' \in [Ticks -> Tick] /\ TicksDated'
  BY <1>0, <1>1, <1>3, TickMoves
<1>5. TypeOK'
  BY <1>0, <1>2, <1>4 DEF TypeOK
<1>6. CallsAccounted'
  <2> SUFFICES ASSUME NEW d \in Days
               PROVE /\ lost'[d] + Cardinality(Asking(d))' <= calls'[d]
                     /\ Made(d)' => calls'[d] + Cardinality(Looking(d))' <= lost'[d] + Cardinality(Ticks)
                     /\ ~Made(d)' => calls'[d] = lost'[d] + Cardinality(Asking(d))'
    BY DEF CallsAccounted
  <2>0. /\ Cardinality(Asking(d))' = Cardinality(Asking(d))
              + (IF x.at = "asked" /\ x.day = d THEN 1 ELSE 0) - (IF t \in Asking(d) THEN 1 ELSE 0)
        /\ Cardinality(Looking(d))' = Cardinality(Looking(d))
              + (IF x.at = "due" /\ x.day = d THEN 1 ELSE 0) - (IF t \in Looking(d) THEN 1 ELSE 0)
    <3>1. CountsMove(t, x, d)
      BY <1>0, <1>1, OneMoves
    <3> QED
      BY <3>1 DEF CountsMove
  <2> PICK asking, looking : asking = Cardinality(Asking(d)) /\ looking = Cardinality(Looking(d))
    OBVIOUS
  <2>c. asking \in Nat /\ looking \in Nat
    BY Counts
  <2>1. t \notin Asking(d) /\ t \notin Looking(d)
    BY <1>1 DEF Asking, Looking
  <2>2. Cardinality(Asking(d))' = Cardinality(Asking(d))
    BY <1>3, <2>0, <2>1, <2>c
  <2>3. d # today => Cardinality(Looking(d))' = Cardinality(Looking(d))
    BY <1>3, <2>0, <2>1, <2>c
  <2>4. Made(d) => d # today
    BY <1>1
  <2> QED
    BY <1>2, <2>2, <2>3, <2>4, BriefsStay DEF BriefInv, CallsAccounted
<1> QED
  BY <1>2, <1>4, <1>5, <1>6, BriefsStay DEF BriefInv

LEMMA AskKeeps ==
  ASSUME BriefInv, NEW t \in Ticks, Ask(t)
  PROVE  BriefInv'
<1> PICK day : day = tick[t].day
  OBVIOUS
<1> PICK n : n = calls[day] + 1
  OBVIOUS
<1>x. PICK x : x = [at |-> "asked", day |-> day, text |-> n]
  OBVIOUS
<1>0. TypeOK /\ MaxCalls \in Nat
  BY MarketBriefsAssumption DEF BriefInv
<1>1. tick[t].at = "due" /\ calls[day] < MaxCalls /\ calls' = [calls EXCEPT ![day] = n]
  BY DEF Ask
<1>2. UNCHANGED <<today, brief, reviews, lost, editor>>
  BY DEF Ask
<1>3. day \in Days /\ n \in 1 .. MaxCalls
  <2>1. day \in Days
    BY <1>1 DEF BriefInv, TicksDated
  <2>2. calls[day] \in 0 .. MaxCalls
    BY <1>0, <2>1 DEF TypeOK
  <2> QED
    BY <1>0, <1>1, <2>1, <2>2
<1>move. tick' = [tick EXCEPT ![t] = x]
  BY <1>x DEF Ask
<1>4. x \in Tick /\ x.day = day /\ x.at = "asked" /\ x.text = n /\ n # 0
  BY <1>x, <1>0, <1>3, MarketBriefsAssumption DEF Tick, Days
<1>5. tick' \in [Ticks -> Tick] /\ TicksDated'
  BY <1>3, <1>4, <1>move, TickMoves
<1>6. calls' \in [Days -> 0 .. MaxCalls] /\ \A d \in Days : calls'[d] = IF d = day THEN n ELSE calls[d]
  BY <1>0, <1>1, <1>3 DEF TypeOK
<1>7. TypeOK'
  BY <1>0, <1>2, <1>5, <1>6 DEF TypeOK
<1>8. CallsAccounted'
  <2> SUFFICES ASSUME NEW d \in Days
               PROVE /\ lost'[d] + Cardinality(Asking(d))' <= calls'[d]
                     /\ Made(d)' => calls'[d] + Cardinality(Looking(d))' <= lost'[d] + Cardinality(Ticks)
                     /\ ~Made(d)' => calls'[d] = lost'[d] + Cardinality(Asking(d))'
    BY DEF CallsAccounted
  <2>0. /\ Cardinality(Asking(d))' = Cardinality(Asking(d))
              + (IF x.at = "asked" /\ x.day = d THEN 1 ELSE 0) - (IF t \in Asking(d) THEN 1 ELSE 0)
        /\ Cardinality(Looking(d))' = Cardinality(Looking(d))
              + (IF x.at = "due" /\ x.day = d THEN 1 ELSE 0) - (IF t \in Looking(d) THEN 1 ELSE 0)
    <3>1. CountsMove(t, x, d)
      BY <1>0, <1>move, OneMoves
    <3> QED
      BY <3>1 DEF CountsMove
  <2> PICK asking, looking : asking = Cardinality(Asking(d)) /\ looking = Cardinality(Looking(d))
    OBVIOUS
  <2>c. asking \in Nat /\ looking \in Nat
    BY Counts
  <2>1. t \notin Asking(d) /\ (t \in Looking(d) <=> d = day)
    BY <1>1 DEF Asking, Looking
  <2>2. Cardinality(Asking(d))' = Cardinality(Asking(d)) + (IF d = day THEN 1 ELSE 0)
    BY <1>4, <2>0, <2>1, <2>c
  <2>3. Cardinality(Looking(d))' = Cardinality(Looking(d)) - (IF d = day THEN 1 ELSE 0)
    BY <1>4, <2>0, <2>1, <2>c
  <2>4. calls[d] \in Nat /\ lost[d] \in Nat /\ lost'[d] = lost[d]
    BY <1>0, <1>2 DEF TypeOK
  <2>5. Made(d)' <=> Made(d)
    BY <1>2, BriefsStay
  <2>6. /\ lost[d] + Cardinality(Asking(d)) <= calls[d]
        /\ Made(d) => calls[d] + Cardinality(Looking(d)) <= lost[d] + Cardinality(Ticks)
        /\ ~Made(d) => calls[d] = lost[d] + Cardinality(Asking(d))
    BY DEF BriefInv, CallsAccounted
  <2>7. calls'[d] = calls[d] + (IF d = day THEN 1 ELSE 0)
    BY <1>6, <2>4
  <2> QED
    BY <2>2, <2>3, <2>4, <2>5, <2>6, <2>7, Counts
<1> QED
  BY <1>2, <1>5, <1>7, <1>8, BriefsStay DEF BriefInv

LEMMA SkipKeeps ==
  ASSUME BriefInv, NEW t \in Ticks, Skip(t)
  PROVE  BriefInv'
<1> PICK x : x = IdleTick
  OBVIOUS
<1>0. TypeOK
  BY DEF BriefInv
<1>1. tick[t].at = "due" /\ tick' = [tick EXCEPT ![t] = x]
  BY DEF Skip
<1>2. UNCHANGED <<today, brief, reviews, calls, lost, editor>>
  BY DEF Skip
<1>3. x \in Tick /\ x.at = "idle"
  BY MarketBriefsAssumption DEF Tick, IdleTick
<1>4. tick' \in [Ticks -> Tick] /\ TicksDated'
  BY <1>1, <1>3, TickMoves
<1>5. TypeOK'
  BY <1>0, <1>2, <1>4 DEF TypeOK
<1>6. CallsAccounted'
  <2> SUFFICES ASSUME NEW d \in Days
               PROVE /\ lost'[d] + Cardinality(Asking(d))' <= calls'[d]
                     /\ Made(d)' => calls'[d] + Cardinality(Looking(d))' <= lost'[d] + Cardinality(Ticks)
                     /\ ~Made(d)' => calls'[d] = lost'[d] + Cardinality(Asking(d))'
    BY DEF CallsAccounted
  <2>0. /\ Cardinality(Asking(d))' = Cardinality(Asking(d))
              + (IF x.at = "asked" /\ x.day = d THEN 1 ELSE 0) - (IF t \in Asking(d) THEN 1 ELSE 0)
        /\ Cardinality(Looking(d))' = Cardinality(Looking(d))
              + (IF x.at = "due" /\ x.day = d THEN 1 ELSE 0) - (IF t \in Looking(d) THEN 1 ELSE 0)
    <3>1. CountsMove(t, x, d)
      BY <1>0, <1>1, OneMoves
    <3> QED
      BY <3>1 DEF CountsMove
  <2> PICK asking, looking : asking = Cardinality(Asking(d)) /\ looking = Cardinality(Looking(d))
    OBVIOUS
  <2>c. asking \in Nat /\ looking \in Nat
    BY Counts
  <2>1. t \notin Asking(d)
    BY <1>1 DEF Asking
  <2>2. Cardinality(Asking(d))' = Cardinality(Asking(d))
    BY <1>3, <2>0, <2>1, <2>c
  <2>3. Cardinality(Looking(d))' <= Cardinality(Looking(d)) /\ Cardinality(Looking(d))' \in Int
    BY <1>3, <2>0, <2>c
  <2>4. calls[d] \in Nat /\ lost[d] \in Nat
    BY <1>0 DEF TypeOK
  <2> QED
    BY <1>2, <2>2, <2>3, <2>4, BriefsStay, Counts DEF BriefInv, CallsAccounted
<1> QED
  BY <1>2, <1>4, <1>5, <1>6, BriefsStay DEF BriefInv

\* A tick that waited for a text goes idle: one asks less, whatever it got.
LEMMA AnswerCounts ==
  ASSUME BriefInv, NEW t \in Ticks, tick[t].at = "asked", tick' = [tick EXCEPT ![t] = IdleTick]
  PROVE  /\ tick' \in [Ticks -> Tick] /\ TicksDated'
         /\ \A d \in Days :
              /\ Cardinality(Asking(d))' = Cardinality(Asking(d)) - (IF tick[t].day = d THEN 1 ELSE 0)
              /\ Cardinality(Looking(d))' = Cardinality(Looking(d))
              /\ Cardinality(Asking(d))' \in Nat
<1>0. TypeOK
  BY DEF BriefInv
<1>1. IdleTick \in Tick /\ IdleTick.at = "idle"
  BY MarketBriefsAssumption DEF Tick, IdleTick
<1>3. tick' \in [Ticks -> Tick] /\ TicksDated'
  BY <1>1, TickMoves
<1>4. ASSUME NEW d \in Days
      PROVE  /\ Cardinality(Asking(d))' = Cardinality(Asking(d)) - (IF tick[t].day = d THEN 1 ELSE 0)
             /\ Cardinality(Looking(d))' = Cardinality(Looking(d))
             /\ Cardinality(Asking(d))' \in Nat
  <2>1. /\ Cardinality(Asking(d))' = Cardinality(Asking(d))
              + (IF IdleTick.at = "asked" /\ IdleTick.day = d THEN 1 ELSE 0)
              - (IF t \in Asking(d) THEN 1 ELSE 0)
        /\ Cardinality(Looking(d))' = Cardinality(Looking(d))
              + (IF IdleTick.at = "due" /\ IdleTick.day = d THEN 1 ELSE 0)
              - (IF t \in Looking(d) THEN 1 ELSE 0)
    <3>1. CountsMove(t, IdleTick, d)
      BY <1>0, OneMoves
    <3> QED
      BY <3>1 DEF CountsMove
  <2>2. t \notin Looking(d) /\ (t \in Asking(d) <=> tick[t].day = d)
    BY DEF Asking, Looking
  <2>3. Cardinality(Asking(d)) \in Nat /\ Cardinality(Looking(d)) \in Nat
    BY Counts
  <2>4. Cardinality(Asking(d)') \in Nat
    <3> PICK S : S = Asking(d)'
      OBVIOUS
    <3>1. S \in SUBSET Ticks
      BY DEF Asking
    <3> QED
      BY <3>1, Counting
  <2> QED
    BY <1>1, <2>1, <2>2, <2>3, <2>4
<1> QED
  BY <1>3, <1>4

LEMMA RefuseKeeps ==
  ASSUME BriefInv, NEW t \in Ticks, Refuse(t)
  PROVE  BriefInv'
<1> PICK day : day = tick[t].day
  OBVIOUS
<1>0. TypeOK /\ MaxCalls \in Nat
  BY MarketBriefsAssumption DEF BriefInv
<1>1. /\ tick[t].at = "asked" /\ tick' = [tick EXCEPT ![t] = IdleTick]
      /\ lost' = [lost EXCEPT ![day] = @ + 1]
      /\ UNCHANGED <<today, brief, reviews, calls, editor>>
  BY DEF Refuse
<1>2. day \in Days
  BY <1>1 DEF BriefInv, TicksDated
<1>3. /\ tick' \in [Ticks -> Tick] /\ TicksDated'
      /\ \A d \in Days :
           /\ Cardinality(Asking(d))' = Cardinality(Asking(d)) - (IF day = d THEN 1 ELSE 0)
           /\ Cardinality(Looking(d))' = Cardinality(Looking(d))
           /\ Cardinality(Asking(d))' \in Nat
  BY <1>1, AnswerCounts
<1>4. \A d \in Days : /\ lost'[d] = lost[d] + (IF d = day THEN 1 ELSE 0)
                     /\ lost[d] \in Nat /\ calls[d] \in 0 .. MaxCalls
  BY <1>0, <1>1, <1>2 DEF TypeOK
<1>5. CallsAccounted'
  <2> SUFFICES ASSUME NEW d \in Days
               PROVE /\ lost'[d] + Cardinality(Asking(d))' <= calls'[d]
                     /\ Made(d)' => calls'[d] + Cardinality(Looking(d))' <= lost'[d] + Cardinality(Ticks)
                     /\ ~Made(d)' => calls'[d] = lost'[d] + Cardinality(Asking(d))'
    BY DEF CallsAccounted
  <2>1. Made(d)' <=> Made(d)
    BY <1>1, BriefsStay
  <2>2. /\ lost[d] + Cardinality(Asking(d)) <= calls[d]
        /\ Made(d) => calls[d] + Cardinality(Looking(d)) <= lost[d] + Cardinality(Ticks)
        /\ ~Made(d) => calls[d] = lost[d] + Cardinality(Asking(d))
    BY DEF BriefInv, CallsAccounted
  <2>3. calls'[d] = calls[d]
    BY <1>1
  <2>4. CASE d = day
    <3>1. lost'[d] = lost[d] + 1 /\ Cardinality(Asking(d))' = Cardinality(Asking(d)) - 1
      BY <1>3, <1>4, <2>4
    <3> QED
      BY <1>3, <1>4, <2>1, <2>2, <2>3, <3>1, Counts
  <2>5. CASE d # day
    <3>1. lost'[d] = lost[d] /\ Cardinality(Asking(d))' = Cardinality(Asking(d))
      BY <1>3, <1>4, <2>5, Counts
    <3> QED
      BY <1>3, <1>4, <2>1, <2>2, <2>3, <3>1, Counts
  <2> QED
    BY <2>4, <2>5
<1>6. lost' \in [Days -> 0 .. MaxCalls]
  <2>1. lost' = [d \in Days |-> lost'[d]]
    BY <1>0, <1>1 DEF TypeOK
  <2>2. \A d \in Days : lost'[d] \in 0 .. MaxCalls
    <3> SUFFICES ASSUME NEW d \in Days PROVE lost'[d] \in 0 .. MaxCalls
      OBVIOUS
    <3>1. lost'[d] + Cardinality(Asking(d))' <= calls[d]
      BY <1>1, <1>5 DEF CallsAccounted
    <3> QED
      BY <1>0, <1>3, <1>4, <3>1
  <2> QED
    BY <2>1, <2>2
<1>7. TypeOK'
  BY <1>0, <1>1, <1>3, <1>6 DEF TypeOK
<1> QED
  BY <1>1, <1>3, <1>5, <1>7, BriefsStay DEF BriefInv

LEMMA StoreKeeps ==
  ASSUME BriefInv, NEW t \in Ticks, Store(t)
  PROVE  BriefInv'
<1> PICK day : day = tick[t].day
  OBVIOUS
<1>n. PICK new : new = [text |-> tick[t].text, rows |-> day]
  OBVIOUS
<1>0. TypeOK
  BY DEF BriefInv
<1>1. /\ tick[t].at = "asked" /\ tick' = [tick EXCEPT ![t] = IdleTick]
      /\ UNCHANGED <<today, reviews, calls, lost, editor>>
      /\ Made(day) => brief' = brief
      /\ ~Made(day) => brief' = [brief EXCEPT ![day] = new]
  BY <1>n DEF Store
<1>2. day \in Days /\ tick[t].text \in 1 .. MaxCalls
  BY <1>0, <1>1, MarketBriefsAssumption DEF BriefInv, TicksDated, TypeOK, Tick
<1>3. /\ tick' \in [Ticks -> Tick] /\ TicksDated'
      /\ \A d \in Days :
           /\ Cardinality(Asking(d))' = Cardinality(Asking(d)) - (IF day = d THEN 1 ELSE 0)
           /\ Cardinality(Looking(d))' = Cardinality(Looking(d))
           /\ Cardinality(Asking(d))' \in Nat
  BY <1>1, AnswerCounts
<1>4. new \in Briefs /\ new.text # 0 /\ new.rows = day /\ new # NoBrief
  BY <1>n, <1>2, MarketBriefsAssumption DEF Briefs, NoBrief, Days
<1>5. /\ brief' \in [Days -> Briefs]
      /\ \A d \in Days : brief'[d] = IF d = day /\ ~Made(day) THEN new ELSE brief[d]
  BY <1>0, <1>1, <1>2, <1>4 DEF TypeOK
<1>6. TypeOK'
  BY <1>0, <1>1, <1>3, <1>5 DEF TypeOK
<1>7. \A d \in Days : Made(d)' <=> (Made(d) \/ d = day)
  BY <1>4, <1>5 DEF Made, Days
<1>8. CallsAccounted'
  <2> SUFFICES ASSUME NEW d \in Days
               PROVE /\ lost'[d] + Cardinality(Asking(d))' <= calls'[d]
                     /\ Made(d)' => calls'[d] + Cardinality(Looking(d))' <= lost'[d] + Cardinality(Ticks)
                     /\ ~Made(d)' => calls'[d] = lost'[d] + Cardinality(Asking(d))'
    BY DEF CallsAccounted
  <2>1. calls'[d] = calls[d] /\ lost'[d] = lost[d] /\ calls[d] \in Nat /\ lost[d] \in Nat
    BY <1>0, <1>1, MarketBriefsAssumption DEF TypeOK
  <2>2. /\ lost[d] + Cardinality(Asking(d)) <= calls[d]
        /\ Made(d) => calls[d] + Cardinality(Looking(d)) <= lost[d] + Cardinality(Ticks)
        /\ ~Made(d) => calls[d] = lost[d] + Cardinality(Asking(d))
    BY DEF BriefInv, CallsAccounted
  <2>3. CASE d = day
    <3>1. Cardinality(Asking(d))' = Cardinality(Asking(d)) - 1 /\ Made(d)'
      BY <1>3, <1>7, <2>3
    <3>2. calls[d] + Cardinality(Looking(d)) <= lost[d] + Cardinality(Ticks)
      BY <2>1, <2>2, Counts
    <3> QED
      BY <1>3, <2>1, <2>2, <3>1, <3>2, Counts
  <2>4. CASE d # day
    <3>1. Cardinality(Asking(d))' = Cardinality(Asking(d)) /\ (Made(d)' <=> Made(d))
      BY <1>3, <1>7, <2>4, Counts
    <3> QED
      BY <1>3, <2>1, <2>2, <3>1
  <2> QED
    BY <2>3, <2>4
<1>9. DayOfItsRows'
  BY <1>4, <1>5, <1>7 DEF BriefInv, DayOfItsRows
<1>10. BriefsThere' /\ ReviewsOfTheText'
  <2>1. \A d \in Days : Made(d)' => brief'[d].text # 0
    BY <1>4, <1>5, <1>7 DEF BriefInv, BriefsThere
  <2>2. \A e \in Editors : editor'[e].day # 0 => Made(editor[e].day)'
    BY <1>0, <1>1, <1>7 DEF BriefInv, BriefsThere, TypeOK, Looked, Days
  <2>3. \A r \in reviews : r.day \in Days /\ Made(r.day)
    BY <1>0 DEF BriefInv, BriefsThere, TypeOK, Review
  <2>4. \A r \in reviews : Made(r.day)' /\ brief'[r.day] = brief[r.day]
    BY <1>5, <1>7, <2>3
  <2> QED
    BY <1>1, <2>1, <2>2, <2>4 DEF BriefInv, BriefsThere, ReviewsOfTheText
<1>11. ReviewsTold'
  BY <1>1 DEF BriefInv, ReviewsTold
<1> QED
  BY <1>3, <1>6, <1>8, <1>9, <1>10, <1>11 DEF BriefInv

\* A restart loses what was awaited.
LEMMA RestartKeeps ==
  ASSUME BriefInv, Restart
  PROVE  BriefInv'
<1>0. TypeOK /\ MaxCalls \in Nat
  BY MarketBriefsAssumption DEF BriefInv
<1>1. /\ tick' = [t \in Ticks |-> IdleTick]
      /\ lost' = [d \in Days |-> lost[d] + Cardinality(Asking(d))]
      /\ UNCHANGED <<today, brief, reviews, calls, editor>>
  BY DEF Restart, Asking
<1>2. tick' \in [Ticks -> Tick] /\ TicksDated'
  <2>1. IdleTick \in Tick /\ IdleTick.at = "idle"
    BY MarketBriefsAssumption DEF Tick, IdleTick
  <2> QED
    BY <1>1, <2>1 DEF TicksDated
<1>3. \A d \in Days : Cardinality(Asking(d))' = 0 /\ Cardinality(Looking(d))' = 0
  <2> SUFFICES ASSUME NEW d \in Days PROVE Asking(d)' = {} /\ Looking(d)' = {}
    BY FS_EmptySet
  <2> QED
    BY <1>1 DEF Asking, Looking, IdleTick
<1>4. CallsAccounted'
  <2> SUFFICES ASSUME NEW d \in Days
               PROVE /\ lost'[d] + Cardinality(Asking(d))' <= calls'[d]
                     /\ Made(d)' => calls'[d] + Cardinality(Looking(d))' <= lost'[d] + Cardinality(Ticks)
                     /\ ~Made(d)' => calls'[d] = lost'[d] + Cardinality(Asking(d))'
    BY DEF CallsAccounted
  <2>1. calls'[d] = calls[d] /\ calls[d] \in Nat /\ lost[d] \in Nat
    BY <1>0, <1>1 DEF TypeOK
  <2>2. lost'[d] = lost[d] + Cardinality(Asking(d))
    BY <1>1
  <2>3. Made(d)' <=> Made(d)
    BY <1>1, BriefsStay
  <2>4. /\ lost[d] + Cardinality(Asking(d)) <= calls[d]
        /\ Made(d) => calls[d] + Cardinality(Looking(d)) <= lost[d] + Cardinality(Ticks)
        /\ ~Made(d) => calls[d] = lost[d] + Cardinality(Asking(d))
    BY DEF BriefInv, CallsAccounted
  <2> QED
    BY <1>3, <2>1, <2>2, <2>3, <2>4, Counts
<1>5. lost' \in [Days -> 0 .. MaxCalls]
  <2> SUFFICES ASSUME NEW d \in Days PROVE lost[d] + Cardinality(Asking(d)) \in 0 .. MaxCalls
    BY <1>1
  <2>1. lost[d] + Cardinality(Asking(d)) <= calls[d]
    BY DEF BriefInv, CallsAccounted
  <2>2. calls[d] \in 0 .. MaxCalls /\ lost[d] \in Nat
    BY <1>0 DEF TypeOK
  <2> QED
    BY <1>0, <2>1, <2>2, Counts
<1>6. TypeOK'
  BY <1>0, <1>1, <1>2, <1>5 DEF TypeOK
<1> QED
  BY <1>1, <1>2, <1>4, <1>6, BriefsStay DEF BriefInv

\* What keeps the ticks, their calls and the briefs keeps the account.
LEMMA TicksStay ==
  ASSUME BriefInv, UNCHANGED <<tick, calls, lost, brief>>
  PROVE  TicksDated' /\ CallsAccounted' /\ \A d \in Days : Made(d)' <=> Made(d)
<1>1. \A d \in Days : Made(d)' <=> Made(d)
  BY DEF Made
<1>2. TicksDated'
  BY DEF BriefInv, TicksDated
<1>3. CallsAccounted'
  <2> SUFFICES ASSUME NEW d \in Days
               PROVE /\ lost'[d] + Cardinality(Asking(d))' <= calls'[d]
                     /\ Made(d)' => calls'[d] + Cardinality(Looking(d))' <= lost'[d] + Cardinality(Ticks)
                     /\ ~Made(d)' => calls'[d] = lost'[d] + Cardinality(Asking(d))'
    BY DEF CallsAccounted
  <2>1. /\ lost[d] + Cardinality(Asking(d)) <= calls[d]
        /\ Made(d) => calls[d] + Cardinality(Looking(d)) <= lost[d] + Cardinality(Ticks)
        /\ ~Made(d) => calls[d] = lost[d] + Cardinality(Asking(d))
    BY DEF BriefInv, CallsAccounted
  <2>2. Cardinality(Asking(d))' = Cardinality(Asking(d)) /\ Cardinality(Looking(d))' = Cardinality(Looking(d))
    BY DEF Asking, Looking
  <2> QED
    BY <1>1, <2>1, <2>2
<1> QED
  BY <1>1, <1>2, <1>3

LEMMA MidnightKeeps ==
  ASSUME BriefInv, Midnight
  PROVE  BriefInv'
<1>1. TypeOK'
  BY MarketBriefsAssumption DEF BriefInv, TypeOK, Midnight, Days
<1>2. UNCHANGED <<brief, reviews, tick, calls, lost, editor>>
  BY DEF Midnight
<1> QED
  BY <1>1, <1>2, TicksStay, BriefsStay DEF BriefInv

LEMMA CheckReviewKeeps ==
  ASSUME BriefInv, NEW e \in Editors, NEW d \in Days, CheckReview(e, d)
  PROVE  BriefInv'
<1> PICK seen : seen = Cardinality(reviews)
  OBVIOUS
<1> PICK look : look = [day |-> d, seen |-> seen]
  OBVIOUS
<1>0. TypeOK /\ BriefsThere /\ ReviewsTold
  BY DEF BriefInv
<1>1. /\ editor' = [editor EXCEPT ![e] = look] /\ Made(d) /\ \A r \in reviews : r.day # d
      /\ UNCHANGED <<today, brief, reviews, tick, calls, lost>>
  BY DEF CheckReview
<1>2. seen \in 0 .. MaxReviews
  <2>1. Cardinality(reviews) \in Nat /\ Cardinality(reviews) <= MaxReviews
    BY <1>0, FS_CardinalityType DEF ReviewsTold, BriefsThere
  <2> QED
    BY <2>1, MarketBriefsAssumption
<1>3. look \in Looked /\ look.day = d /\ look.seen = seen
  BY <1>2 DEF Looked, Days
<1>4. /\ editor' \in [Editors -> Looked]
      /\ \A f \in Editors : editor'[f] = IF f = e THEN look ELSE editor[f]
  BY <1>0, <1>1, <1>3 DEF TypeOK
<1>5. TypeOK'
  BY <1>0, <1>1, <1>4 DEF TypeOK
<1>6. BriefsThere'
  BY <1>0, <1>1, <1>3, <1>4 DEF BriefsThere, Made
<1>7. ReviewsTold'
  <2>1. \A f \in Editors : editor'[f].day # 0 => editor'[f].seen <= Cardinality(reviews)
    BY <1>0, <1>2, <1>3, <1>4 DEF ReviewsTold
  <2>2. \A f \in Editors, r \in reviews : r.day = editor'[f].day => editor'[f].seen < r.id
    BY <1>0, <1>1, <1>3, <1>4 DEF ReviewsTold
  <2> QED
    BY <1>0, <1>1, <2>1, <2>2 DEF ReviewsTold
<1>8. DayOfItsRows' /\ ReviewsOfTheText'
  BY <1>1 DEF BriefInv, DayOfItsRows, ReviewsOfTheText, Made
<1> QED
  BY <1>1, <1>5, <1>6, <1>7, <1>8, TicksStay DEF BriefInv

\* The text decided on is the one the brief has.
LEMMA RecordReviewKeeps ==
  ASSUME BriefInv, NEW e \in Editors, NEW decision \in Decisions, RecordReview(e, decision)
  PROVE  BriefInv'
<1> PICK d : d = editor[e].day
  OBVIOUS
<1> PICK seen : seen = editor[e].seen
  OBVIOUS
<1> PICK none : none = NotLooked
  OBVIOUS
<1> PICK n : n = Cardinality(reviews)
  OBVIOUS
<1> PICK id : id = n + 1
  OBVIOUS
<1>n. PICK new : new = [id |-> id, day |-> d, decision |-> decision, text |-> brief[d].text,
                        seen |-> seen]
  OBVIOUS
<1>0. TypeOK /\ BriefsThere /\ ReviewsTold
  BY DEF BriefInv
<1>1. /\ d # 0 /\ n < MaxReviews
      /\ reviews' = reviews \cup {new} /\ editor' = [editor EXCEPT ![e] = none]
      /\ UNCHANGED <<today, brief, tick, calls, lost>>
  BY <1>n DEF RecordReview
<1>2. d \in Days /\ Made(d) /\ brief[d] \in Briefs /\ brief[d].text # 0 /\ seen \in 0 .. MaxReviews
  BY <1>0, <1>1, MarketBriefsAssumption DEF BriefsThere, TypeOK, Looked, Days
<1>3. n \in Nat /\ id \in 1 .. MaxReviews
  <2>1. n \in Nat
    BY <1>0, FS_CardinalityType DEF BriefsThere
  <2> QED
    BY <1>1, <2>1, MarketBriefsAssumption
<1>4. /\ new \in Review /\ new.day = d /\ new.text = brief[d].text
      /\ new.id = id /\ new.seen = seen
  BY <1>n, <1>2, <1>3, MarketBriefsAssumption DEF Review, Briefs
<1>5. /\ none \in Looked /\ none.day = 0
      /\ editor' \in [Editors -> Looked]
      /\ \A f \in Editors : editor'[f] = IF f = e THEN none ELSE editor[f]
  <2>1. none \in Looked /\ none.day = 0
    BY MarketBriefsAssumption DEF Looked, NotLooked
  <2> QED
    BY <2>1, <1>0, <1>1 DEF TypeOK
<1>6. TypeOK'
  BY <1>0, <1>1, <1>4, <1>5 DEF TypeOK
<1>c. \A r \in reviews : r \in Review /\ r.id \in Nat /\ r.id <= n /\ r.id # id /\ r.day # 0
  BY <1>0, <1>3, MarketBriefsAssumption DEF ReviewsTold, TypeOK, Review, Days
<1>d. IsFiniteSet(reviews') /\ Cardinality(reviews') = id
  BY <1>0, <1>1, <1>3, <1>4, <1>c, FS_AddElement DEF BriefsThere
<1>7. BriefsThere'
  BY <1>0, <1>1, <1>2, <1>4, <1>5, <1>d DEF BriefsThere, Made
<1>8. ReviewsTold'
  <2>1. \A r \in reviews' : r.id <= id
    BY <1>1, <1>3, <1>4, <1>c
  <2>2. \A r, s \in reviews' : r.id = s.id => r = s
    BY <1>0, <1>1, <1>4, <1>c DEF ReviewsTold
  <2>3. \A f \in Editors : editor'[f].day # 0 => editor'[f].seen \in Nat /\ editor'[f].seen <= n
    BY <1>0, <1>5 DEF ReviewsTold, TypeOK, Looked
  <2>4. \A f \in Editors : editor'[f].day # 0 => editor'[f].seen < id /\ editor'[f].seen <= id
    BY <2>3, <1>3
  <2>5. \A f \in Editors, r \in reviews' : r.day = editor'[f].day => editor'[f].seen < r.id
    <3> SUFFICES ASSUME NEW f \in Editors, NEW r \in reviews', r.day = editor'[f].day
                 PROVE  editor'[f].seen < r.id
      OBVIOUS
    <3>1. r.day # 0
      BY <1>1, <1>4, <1>c
    <3>2. CASE r = new
      BY <2>4, <3>1, <3>2, <1>4
    <3>3. CASE r \in reviews
      <4>1. f # e
        BY <3>1, <1>5
      <4> QED
        BY <3>3, <4>1, <1>0, <1>5 DEF ReviewsTold
    <3> QED
      BY <3>2, <3>3, <1>1
  <2>6. \A r, s \in reviews' : r.day = s.day /\ r.id < s.id => s.seen < r.id
    <3> SUFFICES ASSUME NEW r \in reviews', NEW s \in reviews', r.day = s.day, r.id < s.id
                 PROVE  s.seen < r.id
      OBVIOUS
    <3>1. CASE r \in reviews /\ s \in reviews
      BY <3>1, <1>0 DEF ReviewsTold
    <3>2. CASE r \in reviews /\ s = new
      BY <3>2, <1>0, <1>4 DEF ReviewsTold
    <3>3. r # new
      <4>1. \A t \in reviews' : t.id \in Nat /\ t.id <= id
        BY <1>1, <1>3, <1>4, <1>c
      <4> QED
        BY <4>1, <1>3, <1>4
    <3> QED
      BY <3>1, <3>2, <3>3, <1>1
  <2> QED
    BY <1>3, <1>d, <2>1, <2>2, <2>4, <2>5, <2>6 DEF ReviewsTold
<1>9. DayOfItsRows' /\ ReviewsOfTheText'
  BY <1>1, <1>4 DEF BriefInv, DayOfItsRows, ReviewsOfTheText, Made
<1> QED
  BY <1>1, <1>6, <1>7, <1>8, <1>9, TicksStay DEF BriefInv

LEMMA AlwaysInv == Spec => []BriefInv
<1>1. Init => BriefInv
  BY InitInv
<1>2. BriefInv /\ [Next]_vars => BriefInv'
  <2> SUFFICES ASSUME BriefInv, [Next]_vars PROVE BriefInv'
    OBVIOUS
  <2>1. CASE UNCHANGED vars
    <3>1. TypeOK'
      BY <2>1 DEF vars, BriefInv, TypeOK
    <3> QED
      BY <2>1, <3>1, TicksStay, BriefsStay DEF vars, BriefInv
  <2>2. ASSUME NEW t \in Ticks, Start(t) \/ Ask(t) \/ Skip(t) \/ Store(t) \/ Refuse(t)
        PROVE  BriefInv'
    BY <2>2, StartKeeps, AskKeeps, SkipKeeps, StoreKeeps, RefuseKeeps
  <2>3. CASE Restart \/ Midnight
    BY <2>3, RestartKeeps, MidnightKeeps
  <2>4. ASSUME NEW e \in Editors, NEW d \in Days, CheckReview(e, d) PROVE BriefInv'
    BY <2>4, CheckReviewKeeps
  <2>5. ASSUME NEW e \in Editors, NEW decision \in Decisions, RecordReview(e, decision)
        PROVE  BriefInv'
    BY <2>5, RecordReviewKeeps
  <2> QED
    BY <2>1, <2>2, <2>3, <2>4, <2>5 DEF Next
<1> QED
  BY <1>1, <1>2, PTL DEF Spec

------------------------------------------------------------------------------

\* Every variable keeps its type (market-briefs.js).
THEOREM TypeCorrect == Spec => []TypeOK
<1>1. BriefInv => TypeOK
  BY DEF BriefInv
<1> QED
  BY <1>1, AlwaysInv, PTL

\* A brief is about the day its date names (market-briefs.js, make).
THEOREM DatedRight == Spec => []DayOfItsRows
<1>1. BriefInv => DayOfItsRows
  BY DEF BriefInv
<1> QED
  BY <1>1, AlwaysInv, PTL

\* A decision stays one about the text it was made on (market-briefs.js, review).
THEOREM TextReviewed == Spec => []ReviewsOfTheText
<1>1. BriefInv => ReviewsOfTheText
  BY DEF BriefInv
<1> QED
  BY <1>1, AlwaysInv, PTL

\* The calls of a day exceed those that were lost by at most one per tick (make).
THEOREM CallsLimited == Spec => []CallsBounded
<1>1. BriefInv => CallsBounded
  <2> SUFFICES ASSUME BriefInv, NEW d \in Days PROVE calls[d] <= lost[d] + Cardinality(Ticks)
    BY DEF CallsBounded
  <2>1. calls[d] \in Nat /\ lost[d] \in Nat
    BY MarketBriefsAssumption DEF BriefInv, TypeOK
  <2>2. /\ Made(d) => calls[d] + Cardinality(Looking(d)) <= lost[d] + Cardinality(Ticks)
        /\ ~Made(d) => calls[d] = lost[d] + Cardinality(Asking(d))
    BY DEF BriefInv, CallsAccounted
  <2> QED
    BY <2>1, <2>2, Counts
<1> QED
  BY <1>1, AlwaysInv, PTL

------------------------------------------------------------------------------
(* What the readers see *)

\* Newest of a set of days is its greatest, and no day of an empty one.
LEMMA NewestIsGreatest ==
  ASSUME NEW S \in SUBSET Days
  PROVE  /\ S = {} => Newest(S) = 0
         /\ S # {} => Newest(S) \in S /\ \A e \in S : e <= Newest(S)
<1>1. CASE S # {}
  <2> DEFINE T == {MaxDay - d : d \in S}
  <2>1. \A d \in S : d \in Nat /\ d <= MaxDay /\ MaxDay \in Nat
    BY MarketBriefsAssumption DEF Days
  <2>2. T \in SUBSET Nat /\ T # {}
    BY <1>1, <2>1
  <2>3. PICK m \in T : \A k \in T : m <= k
    BY <2>2, Smallest
  <2>4. PICK d \in S : m = MaxDay - d
    OBVIOUS
  <2>5. \A e \in S : e <= d
    <3>1. ASSUME NEW e \in S PROVE e <= d
      <4>1. MaxDay - d <= MaxDay - e
        BY <2>3, <2>4
      <4> QED
        BY <2>1, <4>1
    <3> QED
      BY <3>1
  <2> QED
    BY <1>1, <2>5 DEF Newest
<1> QED
  BY <1>1 DEF Newest

\* One of the reviews of a day is the newest.
LEMMA NewestReview ==
  ASSUME TypeOK, NEW d, \E r \in reviews : r.day = d
  PROVE  \E r \in reviews : r.day = d /\ \A s \in reviews : s.day = d => s.id <= r.id
<1> DEFINE T == {MaxReviews - r.id : r \in {s \in reviews : s.day = d}}
<1>1. \A r \in reviews : r.id \in Nat /\ r.id <= MaxReviews /\ MaxReviews \in Nat
  BY MarketBriefsAssumption DEF TypeOK, Review
<1>2. T \in SUBSET Nat /\ T # {}
  BY <1>1
<1>3. PICK m \in T : \A k \in T : m <= k
  BY <1>2, Smallest
<1>4. PICK r \in reviews : r.day = d /\ m = MaxReviews - r.id
  OBVIOUS
<1>5. ASSUME NEW s \in reviews, s.day = d PROVE s.id <= r.id
  <2>1. MaxReviews - r.id <= MaxReviews - s.id
    BY <1>3, <1>4, <1>5
  <2> QED
    BY <1>1, <2>1
<1> QED
  BY <1>4, <1>5

\* A brief whose newest review approves it has a page that may be indexed.
LEMMA ApprovalLast ==
  ASSUME BriefInv, NEW d \in Days, Made(d), NEW r \in reviews, r.day = d, r.decision = "approved",
         \A s \in reviews : s.day = d => s.id <= r.id
  PROVE  Indexable(d)
<1>1. Reviewed(d)
  BY DEF Reviewed, LatestIs
<1>2. ASSUME Rejected(d) PROVE FALSE
  <2>1. PICK w \in reviews : w.day = d /\ w.decision = "rejected" /\ \A s \in reviews : s.day = d => s.id <= w.id
    BY <1>2 DEF Rejected, LatestIs
  <2>2. w.id \in Nat /\ r.id \in Nat /\ w.id <= r.id /\ r.id <= w.id
    BY <2>1 DEF BriefInv, TypeOK, Review
  <2>3. w = r
    BY <2>2 DEF BriefInv, ReviewsTold
  <2> QED
    BY <2>1, <2>3
<1> QED
  BY <1>1, <1>2 DEF Indexable, Page

\* A brief with an approval may be indexed, but for decisions taken at once.
LEMMA ApprovedOrAtOnce ==
  ASSUME BriefInv, NEW d \in WithApproval
  PROVE  Indexable(d) \/ DecidedAtOnce(d)
<1>1. PICK q \in reviews : q.day = d /\ q.decision = "approved"
  BY DEF WithApproval
<1>2. PICK r \in reviews : r.day = d /\ \A s \in reviews : s.day = d => s.id <= r.id
  BY <1>1, NewestReview DEF BriefInv
<1>3. CASE r.decision = "approved"
  BY <1>2, <1>3, ApprovalLast DEF WithApproval
<1>4. CASE r.decision # "approved"
  <2>1. q.id \in Nat /\ r.id \in Nat /\ q.id <= r.id
    BY <1>1, <1>2 DEF BriefInv, TypeOK, Review
  <2>2. q.id # r.id
    BY <1>1, <1>4 DEF BriefInv, ReviewsTold
  <2>3. q.id < r.id
    BY <2>1, <2>2
  <2>4. r.seen < q.id
    BY <1>1, <1>2, <2>3 DEF BriefInv, ReviewsTold
  <2> QED
    BY <1>1, <1>2, <2>3, <2>4 DEF DecidedAtOnce
<1> QED
  BY <1>3, <1>4

\* The approvals of newer briefs than d, which the limit of the sitemap counts.
After(d) == {r \in reviews : r.decision = "approved" /\ r.day > d}

LEMMA AfterCounts ==
  ASSUME BriefInv, NEW d
  PROVE  IsFiniteSet(After(d)) /\ Cardinality(After(d)) \in Nat
<1>1. IsFiniteSet(reviews) /\ After(d) \subseteq reviews
  BY DEF BriefInv, BriefsThere, After
<1> QED
  BY <1>1, FS_Subset, FS_CardinalityType

\* The newest brief with an approval is in the sitemap.
LEMMA PickedListed ==
  ASSUME BriefInv, WithApproval # {}
  PROVE  Picked \in Sitemap /\ Picked \in WithApproval /\ \A d \in WithApproval : d <= Picked
<1>1. WithApproval \in SUBSET Days
  BY DEF WithApproval
<1>2. Picked \in WithApproval /\ \A d \in WithApproval : d <= Picked
  BY <1>1, NewestIsGreatest DEF Picked
<1>3. \A r \in reviews : r.decision = "approved" => r.day \in WithApproval
  BY DEF BriefInv, BriefsThere, TypeOK, Review, WithApproval
<1>4. After(Picked) = {}
  <2> SUFFICES ASSUME NEW r \in After(Picked) PROVE FALSE
    OBVIOUS
  <2>1. r.day \in WithApproval /\ r.day > Picked
    BY <1>3 DEF After
  <2>2. r.day <= Picked
    BY <1>2, <2>1
  <2>3. r.day \in Days /\ Picked \in Days
    BY <1>1, <1>2, <2>1
  <2>4. ASSUME NEW a \in Days, NEW b \in Days, a > b, a <= b PROVE FALSE
    BY <2>4 DEF Days
  <2> QED
    BY <2>1, <2>2, <2>3, <2>4
<1>5. Cardinality(After(Picked)) < Listed
  BY <1>4, FS_EmptySet, MarketBriefsAssumption
<1> QED
  BY <1>2, <1>5 DEF Sitemap, After

\* Whatever the ticks and the editors do, readers disagree about a brief only where two of its
\* decisions were taken at once (latestReviewed, get, reviewed, gateFacts, pendingReviews, review).
THEOREM ReadersSafe == Spec => []ReadersAgree
<1>1. BriefInv => ReadersAgree
  <2> SUFFICES ASSUME BriefInv PROVE ReadersAgree
    OBVIOUS
  <2>0. /\ WithApproval \in SUBSET Days /\ Sitemap \in SUBSET WithApproval
        /\ \A d \in Days : d \in Nat
        /\ \A d \in Days : Indexable(d) => d \in WithApproval
    BY DEF WithApproval, Sitemap, Days, Indexable, Page, Reviewed, LatestIs
  <2>1. ASSUME NEW d \in Sitemap PROVE Indexable(d) \/ DecidedAtOnce(d)
    BY <2>0, ApprovedOrAtOnce
  <2>2. ASSUME NEW d \in Days \ Sitemap, Indexable(d)
        PROVE  Sitemap # {} /\ \A s \in Sitemap : s > d
    <3>1. d \in WithApproval
      BY <2>0, <2>2
    <3>2. ASSUME NEW s \in Sitemap PROVE s > d
      <4>1. s \in Nat /\ d \in Nat /\ s # d /\ s \in WithApproval
        BY <2>0
      <4>2. Cardinality(After(s)) < Listed /\ ~(Cardinality(After(d)) < Listed)
        BY <3>1, <2>2 DEF Sitemap, After
      <4>3. CASE s < d
        <5>1. \A r \in reviews : r.day \in Nat
          BY DEF BriefInv, TypeOK, Review, Days
        <5>2. After(d) \subseteq After(s)
          BY <4>1, <4>3, <5>1 DEF After
        <5>3. Cardinality(After(d)) <= Cardinality(After(s))
          BY <5>2, AfterCounts, FS_Subset
        <5> QED
          BY <4>2, <5>3, AfterCounts, MarketBriefsAssumption
      <4> QED
        BY <4>1, <4>3
    <3> QED
      BY <3>1, <3>2, PickedListed
  <2>3. ASSUME NEW d \in Days, Indexable(d) PROVE HomeShows >= d \/ DecidedAtOnce(Picked)
    <3>1. d \in WithApproval /\ Picked \in WithApproval /\ d <= Picked /\ d \in Nat /\ Picked \in Nat
      BY <2>0, <2>3, PickedListed
    <3>2. CASE Indexable(Picked)
      BY <3>1, <3>2 DEF HomeShows, Indexable
    <3> QED
      BY <3>1, <3>2, ApprovedOrAtOnce
  <2>4. ASSUME HomeShows # 0 PROVE HomeShows \in Sitemap /\ Indexable(HomeShows)
    <3>1. HomeShows = Picked /\ Picked # 0 /\ Reviewed(Picked)
      BY <2>4 DEF HomeShows
    <3>2. WithApproval # {}
      BY <3>1, <2>0, NewestIsGreatest DEF Picked
    <3>3. PICK r \in reviews : r.day = Picked /\ r.decision = "approved"
                               /\ \A s \in reviews : s.day = Picked => s.id <= r.id
      BY <3>1 DEF Reviewed, LatestIs
    <3>4. Picked \in Days /\ Made(Picked) /\ Picked \in Sitemap
      BY <3>2, <2>0, PickedListed DEF WithApproval
    <3>5. Indexable(Picked)
      BY <3>3, <3>4, ApprovalLast
    <3> QED
      BY <3>1, <3>4, <3>5
  <2>5. ASSUME NEW d \in Queue PROVE Page(d) /\ d \notin Sitemap /\ d = Unreviewed
    <3> DEFINE All == {e \in Days : Made(e)}
               Waiting == {e \in Days : Made(e) /\ \A r \in reviews : r.day # e}
    <3>1. d = Newest(All) /\ Made(d) /\ \A r \in reviews : r.day # d
      BY DEF Queue
    <3>2. All \in SUBSET Days /\ Waiting \in SUBSET All /\ Waiting \in SUBSET Days
      OBVIOUS
    <3>3. Unreviewed = Newest(Waiting)
      BY DEF Unreviewed
    <3>4. \A e \in Days : e \in All <=> Made(e)
      OBVIOUS
    <3>5. \A e \in Days : e \in Waiting <=> Made(e) /\ \A r \in reviews : r.day # e
      OBVIOUS
    <3> HIDE DEF All, Waiting
    <3>6. d # 0
      BY <3>1 DEF Made
    <3>7. d \in Days /\ d \in All /\ \A e \in All : e <= d
      BY <3>1, <3>2, <3>6, NewestIsGreatest
    <3>8. d \in Waiting
      BY <3>1, <3>5, <3>7
    <3>9. Newest(Waiting) \in Waiting /\ d <= Newest(Waiting)
      BY <3>2, <3>8, NewestIsGreatest
    <3>10. Newest(Waiting) <= d
      BY <3>2, <3>7, <3>9
    <3>11. \A e \in Days : e \in Nat
      BY DEF Days
    <3>12. d = Newest(Waiting)
      BY <3>2, <3>7, <3>9, <3>10, <3>11
    <3>13. Page(d) /\ d \notin Sitemap
      BY <3>1 DEF Page, Rejected, LatestIs, Sitemap, WithApproval
    <3> QED
      BY <3>3, <3>12, <3>13
  <2> QED
    BY <2>1, <2>2, <2>3, <2>4, <2>5 DEF ReadersAgree
<1> QED
  BY <1>1, AlwaysInv, PTL

------------------------------------------------------------------------------
(* The lists of the worker *)

\* Stamps are of the past, and differ: what ORDER BY ... LIMIT needs to keep to its limit.
StampsDiffer ==
  /\ \A c \in Companies : facts[c].at <= now /\ \A f \in filings[c] : f.at <= now
  /\ \A c \in Companies : facts[c].ok => facts[c].at > 0
  /\ \A c, d \in Companies : \A f \in filings[c], g \in filings[d] : f.at = g.at => c = d
  /\ \A c, d \in Companies : facts[c].at = facts[d].at /\ facts[c].at > 0 => c = d

ListInv == BriefsTypeOK /\ StampsDiffer /\ IsFiniteSet(briefsTick.todo)

\* ORDER BY key LIMIT n keeps n companies at most when no two have one key.
LEMMA FirstOfSize ==
  ASSUME NEW S \in SUBSET Companies, NEW key \in [Companies -> Nat], NEW n \in Nat,
         NEW b \in Nat, \A c \in S : key[c] <= b,
         \A c, d \in S : key[c] = key[d] => c = d
  PROVE  /\ FirstOf(S, key, n) \in SUBSET (Companies \X Nat)
         /\ Cardinality(FirstOf(S, key, n)) <= n
<1> DEFINE Below(d) == {e \in S : key[e] < key[d]}
           F == {d \in S : Cardinality(Below(d)) < n}
           L == {<<c, key[c]>> : c \in F}
<1>1. FirstOf(S, key, n) = L
  BY DEF FirstOf
<1>2. F \in SUBSET S /\ \A d \in F : Cardinality(Below(d)) < n
  OBVIOUS
<1>3. L = {<<c, key[c]>> : c \in F}
  OBVIOUS
<1> HIDE DEF F, L
<1>4. \A T \in SUBSET S : IsFiniteSet(T) /\ Cardinality(T) \in Nat
  BY BriefsAssumption, FS_Subset, FS_CardinalityType
<1>5. Cardinality(F) <= n
  <2>1. CASE F = {}
    BY <2>1, FS_EmptySet
  <2>2. CASE F # {}
    <3> DEFINE T == {b - key[d] : d \in F}
    <3>1. T \in SUBSET Nat /\ T # {}
      BY <1>2, <2>2
    <3>2. PICK m \in T : \A k \in T : m <= k
      BY <3>1, Smallest
    <3>3. PICK d \in F : m = b - key[d]
      OBVIOUS
    <3>4. F \ {d} \in SUBSET Below(d)
      <4>1. ASSUME NEW e \in F, e # d PROVE e \in Below(d)
        <5>1. b - key[d] <= b - key[e]
          BY <3>2, <3>3
        <5>2. key[e] # key[d] /\ key[e] \in Nat /\ key[d] \in Nat /\ e \in S
          BY <1>2, <4>1
        <5> QED
          BY <5>1, <5>2
      <4> QED
        BY <4>1
    <3>5. Below(d) \in SUBSET S /\ Cardinality(Below(d)) < n
      BY <1>2
    <3> HIDE DEF Below
    <3>6. Cardinality(F \ {d}) <= Cardinality(Below(d))
      BY <1>4, <3>4, <3>5, FS_Subset
    <3>7. Cardinality(F \ {d}) = Cardinality(F) - 1
      BY <1>2, <1>4, <3>3, FS_RemoveElement
    <3> QED
      BY <1>2, <1>4, <3>5, <3>6, <3>7
  <2> QED
    BY <2>1, <2>2
<1>6. /\ IsFiniteSet(L) /\ Cardinality(L) \in Nat
      /\ Cardinality(L) <= Cardinality(F)
  <2> DEFINE f == [c \in F |-> <<c, key[c]>>]
  <2>1. f \in Surjection(F, L)
    BY <1>3 DEF Surjection
  <2> QED
    BY <1>2, <1>4, <2>1, FS_Surjection, FS_CardinalityType
<1>7. L \in SUBSET (Companies \X Nat)
  BY <1>2, <1>3
<1> QED
  BY <1>1, <1>2, <1>4, <1>5, <1>6, <1>7

\* The newest report of a list exists: MAX(d.retrieved_at) is the time of a report (facts.due).
LEMMA NewestReport ==
  ASSUME BriefsTypeOK, StampsDiffer
  PROVE  /\ ReportAt \in [Companies -> Nat]
         /\ \A c \in Companies : filings[c] # {} => \E f \in filings[c] : ReportAt[c] = f.at
<1>1. ASSUME NEW c \in Companies, filings[c] # {}
      PROVE  \E f \in filings[c] : ReportAt[c] = f.at /\ ReportAt[c] \in Nat
  <2> DEFINE A == {f.at : f \in filings[c]}
             T == {now - a : a \in A}
  <2>1. A \in SUBSET Nat /\ A # {} /\ now \in Nat /\ \A a \in A : a <= now
    BY <1>1 DEF BriefsTypeOK, Filing, StampsDiffer
  <2>2. ReportAt[c] = CHOOSE t \in A : \A f \in filings[c] : f.at <= t
    BY <1>1 DEF ReportAt
  <2>3. \A f \in filings[c] : f.at \in A
    OBVIOUS
  <2>4. \A a \in A : \E f \in filings[c] : a = f.at
    OBVIOUS
  <2> HIDE DEF A
  <2>5. T \in SUBSET Nat /\ T # {}
    <3>1. \A a \in A : now - a \in Nat
      BY <2>1
    <3>2. PICK a \in A : TRUE
      BY <2>1
    <3>3. now - a \in T
      BY <3>2
    <3> QED
      BY <3>1, <3>3
  <2>6. PICK m \in T : \A k \in T : m <= k
    BY <2>5, Smallest
  <2>7. PICK a \in A : m = now - a
    BY <2>6
  <2>8. \A e \in A : e <= a
    <3>1. ASSUME NEW e \in A PROVE e <= a
      <4>1. now - a <= now - e
        BY <2>6, <2>7
      <4> QED
        BY <2>1, <4>1
    <3> QED
      BY <3>1
  <2>9. \A f \in filings[c] : f.at <= a
    BY <2>3, <2>8
  <2>10. ReportAt[c] \in A
    BY <2>2, <2>9
  <2> QED
    BY <2>1, <2>4, <2>10
<1>2. \A c \in Companies : ReportAt[c] \in Nat
  BY <1>1 DEF ReportAt
<1> QED
  BY <1>1, <1>2 DEF ReportAt

------------------------------------------------------------------------------
(* Types and stamps *)

\* The edits of a call give calls.
LEMMA CallEdits ==
  ASSUME BriefsTypeOK, NEW p \in Callers
  PROVE  /\ Ended(p) => call' \in [Callers -> Call \cup {NoCall}]
         /\ \A s \in {"fetch", "make"}, c \in Companies :
              Opened(p, s, c) => call' \in [Callers -> Call \cup {NoCall}]
         /\ \A s : At(p, s) => call[p] \in Call /\ call[p].of \in Companies
         /\ ~Free(p) /\ Recorded(p) => call' \in [Callers -> Call \cup {NoCall}]
<1>1. call[p] # NoCall => call[p] \in Call
  BY DEF BriefsTypeOK
<1>2. Ended(p) => call' \in [Callers -> Call \cup {NoCall}]
  BY DEF BriefsTypeOK, Ended
<1>3. ASSUME NEW s \in {"fetch", "make"}, NEW c \in Companies, Opened(p, s, c)
      PROVE  call' \in [Callers -> Call \cup {NoCall}]
  <2>1. [step |-> s, of |-> c, got |-> 0, input |-> NoInput, began |-> 0] \in Call
    BY DEF Call, Input, NoInput
  <2> QED
    BY <1>3, <2>1 DEF BriefsTypeOK, Opened
<1>4. ASSUME NEW s, At(p, s) PROVE call[p] \in Call /\ call[p].of \in Companies
  BY <1>1, <1>4 DEF At, Free, Call
<1>5. ASSUME ~Free(p), Recorded(p) PROVE call' \in [Callers -> Call \cup {NoCall}]
  <2>1. [call[p] EXCEPT !.step = "make"] \in Call
    BY <1>1, <1>5 DEF Free, Call
  <2> QED
    BY <1>2, <1>5, <2>1 DEF BriefsTypeOK, Recorded
<1> QED
  BY <1>2, <1>3, <1>4, <1>5

\* What the world does to the stamps (upsert).
LEMMA WorldKeepsStamps ==
  ASSUME ListInv, NEW c \in Companies,
         File(c) \/ (\E f \in filings[c] : Revise(c, f) \/ Remove(c, f))
  PROVE  ListInv'
<1> USE DEF ListInv
<1>1. /\ now \in Nat /\ reports \in Nat /\ BriefsTypeOK /\ filings \in [Companies -> SUBSET Filing]
      /\ sec \in [Companies -> Nat] /\ \A f \in filings[c] : f.text \in Nat
  BY BriefsAssumption DEF BriefsTypeOK, Filing
<1>2. PICK list, g :
        /\ Changed(c, list)
        /\ g \in Filing /\ g.at = now + 1
        /\ list \in SUBSET (filings[c] \cup {g})
        /\ sec' \in [Companies -> Nat]
  <2>1. CASE File(c)
    <3>1. [text |-> reports + 1, at |-> now + 1] \in Filing
      BY <1>1 DEF Filing
    <3>2. sec' \in [Companies -> Nat]
      BY <1>1, <2>1 DEF File
    <3> QED
      BY <2>1, <3>1, <3>2 DEF File
  <2>2. ASSUME NEW f \in filings[c], Revise(c, f)
        PROVE  \E list, g : /\ Changed(c, list) /\ g \in Filing /\ g.at = now + 1
                            /\ list \in SUBSET (filings[c] \cup {g})
                            /\ sec' \in [Companies -> Nat]
    <3>1. PICK t \in {f.text, reports + 1} :
            Changed(c, (filings[c] \ {f}) \cup {[text |-> t, at |-> now + 1]})
      BY <2>2 DEF Revise
    <3>2. [text |-> t, at |-> now + 1] \in Filing
      BY <1>1, <3>1 DEF Filing
    <3>3. sec' \in [Companies -> Nat]
      BY <1>1, <2>2 DEF Revise
    <3> QED
      BY <3>1, <3>2, <3>3
  <2>3. ASSUME NEW f \in filings[c], Remove(c, f)
        PROVE  \E list, g : /\ Changed(c, list) /\ g \in Filing /\ g.at = now + 1
                            /\ list \in SUBSET (filings[c] \cup {g})
                            /\ sec' \in [Companies -> Nat]
    <3>1. [text |-> 0, at |-> now + 1] \in Filing
      BY <1>1 DEF Filing
    <3> QED
      BY <1>1, <2>3, <3>1 DEF Remove
  <2> QED
    BY <2>1, <2>2, <2>3
<1>3. /\ now' = now + 1 /\ filings' = [filings EXCEPT ![c] = list]
      /\ UNCHANGED <<counts, stored, call, briefsTick>> /\ reports' = reports + 1
      /\ reports < MaxReports
  BY <1>2 DEF Changed
<1>4. filings' \in [Companies -> SUBSET Filing]
  BY <1>1, <1>2, <1>3
<1>5. now' \in Nat /\ reports' \in 0 .. MaxReports
  BY <1>1, <1>3, BriefsAssumption
<1>6. BriefsTypeOK'
  BY <1>1, <1>2, <1>3, <1>4, <1>5 DEF BriefsTypeOK, counts, stored, recorded
<1>7. StampsDiffer'
  <2>1. \A d \in Companies : facts[d].at \in Nat /\ \A f \in filings[d] : f.at \in Nat
    BY <1>1 DEF BriefsTypeOK, FactsRow, Filing
  <2>2. \A d \in Companies : filings'[d] = IF d = c THEN list ELSE filings[d]
    BY <1>1, <1>3
  <2>3. facts' = facts
    BY <1>3 DEF stored
  <2>4. \A d \in Companies : \A f \in filings'[d] :
          \/ f \in filings[d] /\ f.at <= now
          \/ d = c /\ f.at = now + 1
    BY <1>2, <2>2 DEF StampsDiffer
  <2>5. \A d, e \in Companies : \A f \in filings'[d], h \in filings'[e] : f.at = h.at => d = e
    BY <1>1, <2>1, <2>4 DEF StampsDiffer
  <2>6. \A d \in Companies : \A f \in filings'[d] : f.at <= now + 1
    BY <1>1, <2>1, <2>4
  <2>7. \A d \in Companies : facts[d].at <= now + 1
    BY <1>1, <2>1 DEF StampsDiffer
  <2> QED
    BY <1>3, <2>3, <2>5, <2>6, <2>7 DEF StampsDiffer
<1> QED
  BY <1>3, <1>6, <1>7

\* A tick that ends leaves a tick (briefsTick, finally).
LEMMA TickEnded ==
  ASSUME NEW idle, idle = [stage |-> "idle", todo |-> {}]
  PROVE  idle \in BriefsTick /\ idle.stage = "idle" /\ IsFiniteSet(idle.todo)
<1>1. {} \in SUBSET (Companies \X Nat)
  OBVIOUS
<1>2. idle.stage = "idle" /\ idle.todo = {}
  OBVIOUS
<1>3. idle \in BriefsTick
  BY <1>1 DEF BriefsTick
<1> QED
  BY <1>2, <1>3, FS_EmptySet

\* A read of the facts is stamped with a time of its own (facts.js, record).
LEMMA FactsKeepStamps ==
  ASSUME ListInv, NEW p \in Callers, FetchFails(p) \/ SaveFacts(p)
  PROVE  ListInv'
<1> USE DEF ListInv, BriefsTypeOK
<1>1. call[p] \in Call /\ call[p].of \in Companies /\ ~Free(p)
  BY CallEdits DEF FetchFails, SaveFacts, At
<1>2. PICK row \in FactsRow :
        /\ row.at = now + 1
        /\ facts' = [facts EXCEPT ![call[p].of] = row]
        /\ now' = now + 1
  <2>1. CASE FetchFails(p)
    <3>1. [at |-> now + 1, ok |-> FALSE, n |-> 0] \in FactsRow
      BY DEF FactsRow
    <3> QED
      BY <2>1, <3>1 DEF FetchFails
  <2>2. CASE SaveFacts(p)
    <3>1. [at |-> now + 1, ok |-> TRUE, n |-> call[p].got] \in FactsRow
      BY <1>1 DEF FactsRow, Call
    <3> QED
      BY <2>2, <3>1 DEF SaveFacts
  <2> QED
    BY <2>1, <2>2
<1>3. call' \in [Callers -> Call \cup {NoCall}]
  BY <1>1, CallEdits DEF FetchFails, SaveFacts, Thrown
<1>4. /\ UNCHANGED <<counts, world, recorded, briefs, lastHour>>
      /\ briefsTick' = briefsTick \/ briefsTick' = [stage |-> "idle", todo |-> {}]
  BY DEF FetchFails, SaveFacts, Recorded, Thrown
<1>5. BriefsTypeOK'
  <2>1. facts' \in [Companies -> FactsRow] /\ now' \in Nat
    BY <1>1, <1>2
  <2> QED
    BY <1>3, <1>4, <2>1, TickEnded DEF counts, world, recorded
<1>6. StampsDiffer'
  <2> HIDE DEF ListInv, BriefsTypeOK
  <2>1. /\ now \in Nat /\ row.at \in Nat
        /\ \A d \in Companies : facts[d].at \in Nat /\ \A f \in filings[d] : f.at \in Nat
    BY DEF ListInv, BriefsTypeOK, FactsRow, Filing
  <2>2. \A d \in Companies : facts'[d] = IF d = call[p].of THEN row ELSE facts[d]
    BY <1>2 DEF ListInv, BriefsTypeOK
  <2>3. filings' = filings
    BY <1>4 DEF world
  <2>4. StampsDiffer
    BY DEF ListInv
  <2> QED
    BY <1>2, <2>1, <2>2, <2>3, <2>4 DEF StampsDiffer
<1> QED
  BY <1>4, <1>5, <1>6, TickEnded

\* A step that gives no list, no read of facts and no longer tick keeps the stamps.
LEMMA StampsKept ==
  ASSUME ListInv, BriefsTypeOK', now' >= now, UNCHANGED <<filings, facts>>,
         IsFiniteSet(briefsTick'.todo)
  PROVE  ListInv'
<1>1. /\ now \in Nat /\ now' \in Nat
      /\ \A c \in Companies : facts[c].at \in Nat /\ \A f \in filings[c] : f.at \in Nat
  <2>1. now \in Nat /\ facts \in [Companies -> FactsRow] /\ filings \in [Companies -> SUBSET Filing]
    BY DEF ListInv, BriefsTypeOK
  <2>2. now' \in Nat
    BY DEF BriefsTypeOK
  <2> QED
    BY <2>1, <2>2 DEF FactsRow, Filing
<1>2. StampsDiffer'
  <2>1. StampsDiffer
    BY DEF ListInv
  <2>2. \A t \in Nat : t <= now => t <= now'
    BY <1>1
  <2> QED
    BY <1>1, <2>1, <2>2 DEF StampsDiffer
<1> QED
  BY <1>2 DEF ListInv

\* What is recorded is observations, and when (observations.record).
LEMMA GrowthTypes ==
  ASSUME BriefsTypeOK, NEW c \in Companies, NEW n \in Int, Grows(c, n)
  PROVE  /\ now' \in Nat /\ now' >= now
         /\ numbers' \in [Companies -> Nat] /\ grown' \in [Companies -> Nat]
<1> USE DEF BriefsTypeOK
<1>1. CASE UNCHANGED <<now, recorded>>
  BY <1>1 DEF recorded
<1>2. CASE n > numbers[c] /\ now' = now + 1 /\ numbers' = [numbers EXCEPT ![c] = n]
           /\ grown' = [grown EXCEPT ![c] = now']
  <2>1. n \in Nat /\ now' \in Nat
    BY <1>2
  <2> QED
    BY <1>2, <2>1
<1> QED
  BY <1>1, <1>2 DEF Grows

\* The other steps of a call, and a reader who asks, give no stamps to facts.
LEMMA CallsKeepStamps ==
  ASSUME ListInv, NEW p \in Callers,
         \/ p \in Readers /\ \E c \in Companies : WriteBrief(p, c)
         \/ Fetch(p) \/ RecordSome(p) \/ RecordRest(p) \/ RecordThrows(p)
         \/ ReadInputs(p) \/ ReadLast(p) \/ RefuseBudget(p)
         \/ AskAi(p) \/ StoreBrief(p) \/ RefuseText(p)
  PROVE  ListInv'
<1>1. BriefsTypeOK /\ IsFiniteSet(briefsTick.todo) /\ now \in Nat
  BY DEF ListInv, BriefsTypeOK
<1> USE DEF BriefsTypeOK
<1>2. ASSUME NEW c \in Companies, p \in Readers, WriteBrief(p, c) PROVE ListInv'
  <2>1. call' \in [Callers -> Call \cup {NoCall}]
    <3>1. CASE facts[c].at = 0
      BY <1>1, <1>2, <3>1, CallEdits DEF WriteBrief
    <3>2. CASE facts[c].at # 0
      BY <1>1, <1>2, <3>2, CallEdits DEF WriteBrief
    <3> QED
      BY <3>1, <3>2
  <2>2. /\ asks < MaxAsks /\ asks' = asks + 1
        /\ UNCHANGED <<now, reports, restarts, sec, filings, numbers, grown, facts, briefs, lastHour,
                      briefsTick>>
    BY <1>2 DEF WriteBrief, world, stored, recorded
  <2>3. asks' \in 0 .. MaxAsks
    BY <1>1, <2>2, BriefsAssumption
  <2>4. BriefsTypeOK'
    BY <1>1, <2>1, <2>2, <2>3
  <2>5. now' >= now /\ IsFiniteSet(briefsTick'.todo) /\ UNCHANGED <<filings, facts>>
    BY <1>1, <2>2
  <2> HIDE DEF BriefsTypeOK
  <2> QED
    BY <2>4, <2>5, StampsKept
<1>3. CASE Fetch(p)
  <2>1. [call[p] EXCEPT !.step = "record", !.got = sec[call[p].of]] \in Call
    BY <1>1, <1>3, CallEdits DEF Fetch, Call
  <2>2. call' \in [Callers -> Call \cup {NoCall}]
    BY <1>1, <1>3, <2>1 DEF Fetch
  <2>3. BriefsTypeOK'
    BY <1>1, <1>3, <2>2 DEF Fetch, world, stored, recorded, counts
  <2>4. now' >= now /\ IsFiniteSet(briefsTick'.todo) /\ UNCHANGED <<filings, facts>>
    BY <1>1, <1>3 DEF Fetch, world, stored
  <2> HIDE DEF BriefsTypeOK
  <2> QED
    BY <2>3, <2>4, StampsKept
<1>4. CASE RecordSome(p) \/ RecordRest(p)
  <2>1. call[p] \in Call /\ call[p].of \in Companies /\ call[p].got \in Nat
    BY <1>1, <1>4, CallEdits DEF RecordSome, RecordRest, Call
  <2>2. [call[p] EXCEPT !.step = "rest"] \in Call /\ [call[p] EXCEPT !.step = "save"] \in Call
    BY <2>1 DEF Call
  <2>3. call' \in [Callers -> Call \cup {NoCall}]
    BY <1>1, <1>4, <2>2 DEF RecordSome, RecordRest
  <2>4. \E n \in Int : Grows(call[p].of, n)
    <3>1. 2 * call[p].got - 1 \in Int /\ 2 * call[p].got \in Int
      BY <2>1
    <3> QED
      BY <1>4, <3>1 DEF RecordSome, RecordRest
  <2>5. /\ now' \in Nat /\ now' >= now
        /\ numbers' \in [Companies -> Nat] /\ grown' \in [Companies -> Nat]
    BY <1>1, <2>1, <2>4, GrowthTypes
  <2>6. UNCHANGED <<counts, world, facts, briefs, lastHour, briefsTick>>
    BY <1>4 DEF RecordSome, RecordRest
  <2>7. BriefsTypeOK'
    BY <1>1, <2>3, <2>5, <2>6 DEF world, counts
  <2> QED
    BY <1>1, <2>5, <2>6, <2>7, StampsKept DEF world
<1>5. CASE RecordThrows(p)
  <2>1. call' \in [Callers -> Call \cup {NoCall}]
    BY <1>1, <1>5, CallEdits DEF RecordThrows, Thrown
  <2>2. briefsTick' = briefsTick \/ briefsTick' = [stage |-> "idle", todo |-> {}]
    BY <1>5 DEF RecordThrows, Thrown
  <2>3. BriefsTypeOK'
    BY <1>1, <1>5, <2>1, <2>2, TickEnded DEF RecordThrows, world, stored, recorded, counts
  <2> QED
    BY <1>1, <1>5, <2>2, <2>3, TickEnded, StampsKept DEF RecordThrows, world, stored
<1>6. CASE ReadInputs(p)
  <2>1. call[p] \in Call /\ call[p].of \in Companies
    BY <1>1, <1>6, CallEdits DEF ReadInputs
  <2>2. Inputs(call[p].of) \in Input
    BY <1>1, <2>1 DEF Inputs, Input, Filing
  <2> HIDE DEF BriefsTypeOK
  <2>3. [call[p] EXCEPT !.step = "compare", !.input = Inputs(call[p].of), !.began = now] \in Call
    BY <1>1, <2>1, <2>2 DEF Call
  <2> USE DEF BriefsTypeOK
  <2>4. call' \in [Callers -> Call \cup {NoCall}]
    BY <1>1, <1>6, <2>3, CallEdits DEF ReadInputs
  <2>5. BriefsTypeOK'
    BY <1>1, <1>6, <2>4 DEF ReadInputs, world, stored, recorded, counts
  <2> QED
    BY <1>1, <1>6, <2>5, StampsKept DEF ReadInputs, world, stored
<1>7. CASE RefuseBudget(p)
  <2>1. call' \in [Callers -> Call \cup {NoCall}]
    BY <1>1, <1>7, CallEdits DEF RefuseBudget
  <2>2. Cardinality({}) = 0 /\ IsFiniteSet({})
    BY FS_EmptySet
  <2>3. briefsTick' = briefsTick \/ briefsTick' = [briefsTick EXCEPT !.todo = {}]
    BY <1>1, <1>7 DEF RefuseBudget, BriefsTick
  <2>4. UNCHANGED <<now, counts, world, stored>>
    BY <1>7 DEF RefuseBudget
  <2>5. /\ briefsTick' \in BriefsTick
        /\ briefsTick'.stage = "facts" => Cardinality(briefsTick'.todo) <= SecPerTick
        /\ briefsTick'.stage = "briefs" => Cardinality(briefsTick'.todo) <= PerTick
        /\ IsFiniteSet(briefsTick'.todo)
    <3>1. CASE briefsTick' = briefsTick
      BY <1>1, <3>1
    <3>2. CASE briefsTick' = [briefsTick EXCEPT !.todo = {}]
      <4>1. briefsTick'.todo = {} /\ briefsTick' \in BriefsTick
        BY <1>1, <3>2 DEF BriefsTick
      <4> QED
        BY <2>2, <4>1, BriefsAssumption
    <3> QED
      BY <2>3, <3>1, <3>2
  <2>6. BriefsTypeOK'
    BY <1>1, <2>1, <2>4, <2>5 DEF world, stored, recorded, counts
  <2> QED
    BY <1>1, <2>4, <2>5, <2>6, StampsKept DEF world, stored
<1>8. CASE ReadLast(p) \/ AskAi(p)
  <2>0. call[p] \in Call
    BY <1>1, <1>8, CallEdits DEF ReadLast, AskAi
  <2>1. [call[p] EXCEPT !.step = "budget"] \in Call /\ [call[p] EXCEPT !.step = "ai"] \in Call
    BY <2>0 DEF Call
  <2>2. call' \in [Callers -> Call \cup {NoCall}]
    BY <1>1, <1>8, <2>1, CallEdits DEF ReadLast, AskAi
  <2>3. UNCHANGED <<now, counts, world, stored, briefsTick>>
    BY <1>8 DEF ReadLast, AskAi
  <2>4. BriefsTypeOK'
    BY <1>1, <2>2, <2>3 DEF world, stored, recorded, counts
  <2>5. now' >= now /\ IsFiniteSet(briefsTick'.todo) /\ UNCHANGED <<filings, facts>>
    BY <1>1, <2>3 DEF stored, world
  <2> HIDE DEF BriefsTypeOK
  <2> QED
    BY <2>4, <2>5, StampsKept
<1>9. CASE StoreBrief(p)
  <2>1. call' \in [Callers -> Call \cup {NoCall}] /\ call[p] \in Call /\ call[p].of \in Companies
    BY <1>1, <1>9, CallEdits DEF StoreBrief
  <2>2. [input |-> call[p].input, began |-> call[p].began, at |-> now + 1] \in Brief
    BY <1>1, <2>1 DEF Call, Brief
  <2>3. briefs' \in [Companies -> Seq(Brief)]
    <3> PICK b : b = [input |-> call[p].input, began |-> call[p].began, at |-> now + 1]
      OBVIOUS
    <3>1. b \in Brief /\ briefs[call[p].of] \in Seq(Brief)
      BY <1>1, <2>1, <2>2
    <3>2. Append(briefs[call[p].of], b) \in Seq(Brief)
      BY <3>1
    <3>3. briefs' = [briefs EXCEPT ![call[p].of] = Append(briefs[call[p].of], b)]
      BY <1>9 DEF StoreBrief
    <3> QED
      BY <1>1, <3>2, <3>3
  <2>4. /\ now' = now + 1 /\ lastHour' = lastHour + 1
        /\ UNCHANGED <<counts, world, recorded, facts, briefsTick>>
    BY <1>9 DEF StoreBrief
  <2>5. now' \in Nat /\ now' >= now /\ lastHour' \in Nat
    BY <1>1, <2>4
  <2>6. BriefsTypeOK'
    BY <1>1, <2>1, <2>3, <2>4, <2>5 DEF world, recorded, counts
  <2> QED
    BY <1>1, <2>4, <2>5, <2>6, StampsKept DEF world
<1>10. CASE RefuseText(p)
  <2>1. call' \in [Callers -> Call \cup {NoCall}]
    BY <1>1, <1>10, CallEdits DEF RefuseText
  <2>2. BriefsTypeOK'
    BY <1>1, <1>10, <2>1 DEF RefuseText, world, stored, recorded, counts
  <2> QED
    BY <1>1, <1>10, <2>2, StampsKept DEF RefuseText, world, stored
<1> QED
  BY <1>2, <1>3, <1>4, <1>5, <1>6, <1>7, <1>8, <1>9, <1>10

\* ORDER BY key LIMIT n of finitely many companies is a finite list.
LEMMA FirstOfFinite ==
  ASSUME NEW S \in SUBSET Companies, NEW key, NEW n
  PROVE  IsFiniteSet(FirstOf(S, key, n))
<1> DEFINE f == [c \in S |-> <<c, key[c]>>]
           L == {<<c, key[c]>> : c \in S}
<1>1. f \in Surjection(S, L)
  BY DEF Surjection
<1>2. IsFiniteSet(L)
  BY <1>1, BriefsAssumption, FS_Subset, FS_Surjection
<1>3. FirstOf(S, key, n) \in SUBSET L
  BY DEF FirstOf
<1> QED
  BY <1>2, <1>3, FS_Subset

\* The lists of a tick keep to their limits (facts.due, briefs.due, briefsTick).
LEMMA ListsBounded ==
  ASSUME ListInv
  PROVE  /\ FactsList \in SUBSET (Companies \X Nat) /\ Cardinality(FactsList) <= SecPerTick
         /\ IsFiniteSet(FactsList) /\ IsFiniteSet(BriefsList)
         /\ BriefsList \in SUBSET (Companies \X Nat) /\ Cardinality(BriefsList) <= PerTick
<1>1. /\ now \in Nat /\ lastHour \in Nat
      /\ \A c \in Companies : facts[c].at \in Nat
  BY DEF ListInv, BriefsTypeOK, FactsRow
<1>2. FactsList \in SUBSET (Companies \X Nat) /\ Cardinality(FactsList) <= SecPerTick
  <2>1. FactsDue \in SUBSET Companies
    BY DEF FactsDue
  <2>2. \A c \in FactsDue : \E f \in filings[c] : ReportAt[c] = f.at
    BY <2>1, NewestReport DEF FactsDue, ListInv
  <2>3. \A c \in FactsDue : ReportAt[c] <= now
    BY <2>1, <2>2 DEF ListInv, StampsDiffer
  <2>4. \A c, d \in FactsDue : ReportAt[c] = ReportAt[d] => c = d
    BY <2>1, <2>2 DEF ListInv, StampsDiffer
  <2>5. ReportAt \in [Companies -> Nat] /\ SecPerTick \in Nat
    BY NewestReport, BriefsAssumption DEF ListInv
  <2> QED
    BY <1>1, <2>1, <2>3, <2>4, <2>5, FirstOfSize DEF FactsList
<1>3. BriefsList \in SUBSET (Companies \X Nat) /\ Cardinality(BriefsList) <= PerTick
  <2>1. BriefsDue \in SUBSET Companies
    BY DEF BriefsDue
  <2>2. ReadAt \in [Companies -> Nat] /\ \A c \in Companies : ReadAt[c] = facts[c].at
    BY <1>1 DEF ReadAt
  <2>3. \A c \in BriefsDue : ReadAt[c] <= now /\ facts[c].at > 0
    BY <2>2 DEF BriefsDue, ListInv, StampsDiffer
  <2>4. \A c, d \in BriefsDue : ReadAt[c] = ReadAt[d] => c = d
    BY <2>1, <2>2, <2>3 DEF ListInv, StampsDiffer
  <2>5. Room \in Nat /\ Room <= PerTick
    BY <1>1, BriefsAssumption DEF Room
  <2>6. /\ FirstOf(BriefsDue, ReadAt, Room) \in SUBSET (Companies \X Nat)
        /\ Cardinality(FirstOf(BriefsDue, ReadAt, Room)) <= Room
    BY <1>1, <2>1, <2>2, <2>3, <2>4, <2>5, FirstOfSize
  <2>7. Cardinality(BriefsList) <= Room
    BY <2>6 DEF BriefsList
  <2>8. IsFiniteSet(BriefsList)
    BY <2>1, FirstOfFinite DEF BriefsList
  <2> QED
    BY <2>5, <2>6, <2>7, <2>8, FS_CardinalityType, BriefsAssumption DEF BriefsList
<1>4. IsFiniteSet(FactsList) /\ IsFiniteSet(BriefsList)
  BY FirstOfFinite DEF FactsList, BriefsList, FactsDue, BriefsDue
<1> QED
  BY <1>2, <1>3, <1>4

\* A tick takes its lists up and works them off (briefsTick).
LEMMA TickKeepsStamps ==
  ASSUME ListInv, TickStep \/ ProcessRestarts
  PROVE  ListInv'
<1> USE DEF ListInv
<1>1. /\ SecPerTick \in Nat /\ PerTick \in Nat /\ Cardinality({}) = 0 /\ IsFiniteSet({})
  BY BriefsAssumption, FS_EmptySet
<1>2. ASSUME TickStep PROVE UNCHANGED <<now, counts, world, stored>>
  BY <1>2 DEF TickStep, StartTick, FactsDone, TickDone, TakeNext
<1>3. CASE StartTick
  <2>1. /\ briefsTick' \in BriefsTick /\ briefsTick'.stage = "facts"
        /\ Cardinality(briefsTick'.todo) <= SecPerTick /\ call' = call
        /\ IsFiniteSet(briefsTick'.todo)
    BY <1>3, ListsBounded DEF StartTick, BriefsTick
  <2> QED
    BY <1>2, <1>3, <2>1 DEF TickStep, BriefsTypeOK, StampsDiffer, world, stored, recorded, counts
<1>4. CASE FactsDone
  <2>1. /\ briefsTick' \in BriefsTick /\ briefsTick'.stage = "briefs"
        /\ Cardinality(briefsTick'.todo) <= PerTick /\ call' = call
        /\ IsFiniteSet(briefsTick'.todo)
    BY <1>4, ListsBounded DEF FactsDone, BriefsTick
  <2> QED
    BY <1>2, <1>4, <2>1 DEF TickStep, BriefsTypeOK, StampsDiffer, world, stored, recorded, counts
<1>5. CASE TickDone
  <2>1. briefsTick' \in BriefsTick /\ briefsTick'.stage = "idle" /\ call' = call
        /\ IsFiniteSet(briefsTick'.todo)
    BY <1>1, <1>5 DEF TickDone, BriefsTick
  <2> QED
    BY <1>2, <1>5, <2>1 DEF TickStep, BriefsTypeOK, StampsDiffer, world, stored, recorded, counts
<1>6. ASSUME NEW t \in briefsTick.todo, TakeNext(t) PROVE ListInv'
  <2>1. /\ briefsTick \in BriefsTick /\ t[1] \in Companies
        /\ briefsTick' = [briefsTick EXCEPT !.todo = @ \ {t}]
    BY <1>6 DEF TakeNext, BriefsTypeOK, BriefsTick
  <2>2. call' \in [Callers -> Call \cup {NoCall}]
    <3>1. Worker \in Callers
      BY DEF Callers
    <3>2. CASE briefsTick.stage = "facts"
      BY <1>6, <2>1, <3>1, <3>2, CallEdits DEF TakeNext
    <3>3. CASE briefsTick.stage # "facts"
      BY <1>6, <2>1, <3>1, <3>3, CallEdits DEF TakeNext
    <3> QED
      BY <3>2, <3>3
  <2>3. /\ briefsTick' \in BriefsTick /\ briefsTick'.stage = briefsTick.stage
        /\ briefsTick'.todo = briefsTick.todo \ {t}
    BY <2>1 DEF BriefsTick
  <2>4. /\ IsFiniteSet(briefsTick'.todo)
        /\ Cardinality(briefsTick'.todo) <= Cardinality(briefsTick.todo)
        /\ Cardinality(briefsTick'.todo) \in Nat /\ Cardinality(briefsTick.todo) \in Nat
    BY <2>3, FS_Subset, FS_CardinalityType
  <2>5. /\ briefsTick'.stage = "facts" => Cardinality(briefsTick'.todo) <= SecPerTick
        /\ briefsTick'.stage = "briefs" => Cardinality(briefsTick'.todo) <= PerTick
    BY <1>1, <2>3, <2>4 DEF BriefsTypeOK
  <2>6. UNCHANGED <<now, counts, world, stored>>
    BY <1>2, <1>6 DEF TickStep
  <2>7. BriefsTypeOK'
    BY <2>2, <2>3, <2>5, <2>6 DEF BriefsTypeOK, world, stored, recorded, counts
  <2>8. StampsDiffer'
    BY <2>6 DEF StampsDiffer, world, stored
  <2> QED
    BY <2>4, <2>7, <2>8
<1>7. CASE ProcessRestarts
  <2>1. /\ briefsTick' \in BriefsTick /\ briefsTick'.stage = "idle"
        /\ call' \in [Callers -> Call \cup {NoCall}] /\ IsFiniteSet(briefsTick'.todo)
    BY <1>1, <1>7 DEF ProcessRestarts, BriefsTick
  <2> QED
    BY <1>7, <2>1, BriefsAssumption DEF ProcessRestarts, BriefsTypeOK, StampsDiffer, world, stored, recorded
<1> QED
  BY <1>3, <1>4, <1>5, <1>6, <1>7 DEF TickStep

LEMMA AlwaysListInv ==
  BriefsSpec => []ListInv
<1>1. BriefsInit => ListInv
  <2> SUFFICES ASSUME BriefsInit PROVE ListInv
    OBVIOUS
  <2>1. IsFiniteSet({})
    BY FS_EmptySet
  <2>2. /\ [at |-> 0, ok |-> FALSE, n |-> 0] \in FactsRow
        /\ [at |-> 3, ok |-> TRUE, n |-> 1] \in FactsRow
        /\ [text |-> 0, at |-> 1] \in Filing
        /\ <<>> \in Seq(Brief)
        /\ [stage |-> "idle", todo |-> {}] \in BriefsTick
    BY DEF FactsRow, Filing, BriefsTick
  <2>3. /\ filings \in [Companies -> SUBSET Filing] /\ sec \in [Companies -> Nat]
        /\ \A c \in Companies : filings[c] \in {{}, {[text |-> 0, at |-> 1]}}
    BY <2>2 DEF BriefsInit
  <2>4. numbers \in [Companies -> Nat] /\ grown \in [Companies -> Nat]
    BY <2>3 DEF BriefsInit
  <2>5. /\ facts \in [Companies -> FactsRow]
        /\ \A c \in Companies : facts[c].at = IF filings[c] = {} THEN 0 ELSE 3
        /\ \A c \in Companies : facts[c].ok => filings[c] # {}
    BY <2>2 DEF BriefsInit
  <2>6. BriefsTypeOK
    BY <2>2, <2>3, <2>4, <2>5, BriefsAssumption DEF BriefsInit, BriefsTypeOK
  <2>7. \A c \in Companies : \A f \in filings[c] : filings[c] # {} /\ f.at = 1
    BY <2>3
  <2>8. now = 3 /\ \A c, d \in Companies : filings[c] # {} /\ filings[d] # {} => c = d
    BY DEF BriefsInit
  <2>9. \A c \in Companies : facts[c].at = 0 \/ (facts[c].at = 3 /\ filings[c] # {})
    <3> SUFFICES ASSUME NEW c \in Companies PROVE facts[c].at = 0 \/ (facts[c].at = 3 /\ filings[c] # {})
      OBVIOUS
    <3>1. facts[c].at = IF filings[c] = {} THEN 0 ELSE 3
      BY <2>5
    <3> QED
      BY <3>1
  <2>10. \A c \in Companies : facts[c].at <= now /\ \A f \in filings[c] : f.at <= now
    BY <2>7, <2>8, <2>9
  <2>11. \A c \in Companies : facts[c].ok => facts[c].at > 0
    BY <2>5
  <2>12. \A c, d \in Companies : \A f \in filings[c], g \in filings[d] : f.at = g.at => c = d
    BY <2>7, <2>8
  <2>13. \A c, d \in Companies : facts[c].at = facts[d].at /\ facts[c].at > 0 => c = d
    BY <2>8, <2>9
  <2>14. StampsDiffer
    BY <2>10, <2>11, <2>12, <2>13 DEF StampsDiffer
  <2> QED
    BY <2>1, <2>6, <2>14 DEF ListInv, BriefsInit
<1>2. ListInv /\ [BriefsNext]_briefsVars => ListInv'
  <2> SUFFICES ASSUME ListInv, [BriefsNext]_briefsVars PROVE ListInv'
    OBVIOUS
  <2>1. CASE \E c \in Companies :
               File(c) \/ \E f \in filings[c] : Revise(c, f) \/ Remove(c, f)
    BY <2>1, WorldKeepsStamps
  <2>2. CASE HourPasses
    <3>1. BriefsTypeOK'
      BY <2>2 DEF HourPasses, ListInv, BriefsTypeOK, counts, world, recorded
    <3> QED
      BY <2>2, <3>1, StampsKept DEF HourPasses, world, ListInv, BriefsTypeOK
  <2>3. CASE \E r \in Readers, c \in Companies : WriteBrief(r, c)
    BY <2>3, CallsKeepStamps DEF Callers
  <2>4. CASE \E p \in Callers : CallStep(p)
    BY <2>4, CallsKeepStamps, FactsKeepStamps DEF CallStep
  <2>5. CASE TickStep \/ ProcessRestarts
    BY <2>5, TickKeepsStamps
  <2>6. CASE UNCHANGED briefsVars
    BY <2>6 DEF briefsVars, counts, world, stored, recorded, ListInv, BriefsTypeOK, StampsDiffer
  <2> QED
    BY <2>1, <2>2, <2>3, <2>4, <2>5, <2>6 DEF BriefsNext
<1> QED
  BY <1>1, <1>2, PTL DEF BriefsSpec

\* Every variable keeps its type, and the lists of a tick keep to perTick: the stamps that
\* ORDER BY ... LIMIT goes by differ (facts.due, briefs.due).
THEOREM BriefsTypeCorrect == BriefsSpec => []BriefsTypeOK
<1>1. ListInv => BriefsTypeOK
  BY DEF ListInv
<1> QED
  BY <1>1, AlwaysListInv, PTL

------------------------------------------------------------------------------
(* The budget of an hour *)

BudgetInv == BriefsTypeOK /\ BudgetBounded

\* Sets of callers are finite, and no larger than all of them.
LEMMA FewCallers ==
  /\ \A S \in SUBSET Callers :
       IsFiniteSet(S) /\ Cardinality(S) \in Nat /\ Cardinality(S) <= Cardinality(Readers) + 1
  /\ \A S, T \in SUBSET Callers : S \in SUBSET T => Cardinality(S) <= Cardinality(T)
  /\ \A S \in SUBSET Callers : \A p \in S : Cardinality(S \ {p}) = Cardinality(S) - 1
  /\ Cardinality(Readers) \in Nat
<1>1. /\ IsFiniteSet(Callers)
      /\ Cardinality(Callers) = Cardinality(Readers) + 1 /\ Cardinality(Readers) \in Nat
  BY BriefsAssumption, FS_AddElement, FS_CardinalityType DEF Callers
<1>2. ASSUME NEW S \in SUBSET Callers
      PROVE  /\ IsFiniteSet(S) /\ Cardinality(S) \in Nat /\ Cardinality(S) <= Cardinality(Callers)
             /\ \A p \in S : Cardinality(S \ {p}) = Cardinality(S) - 1
  BY <1>1, FS_Subset, FS_CardinalityType, FS_RemoveElement
<1>3. ASSUME NEW S \in SUBSET Callers, NEW T \in SUBSET Callers, S \in SUBSET T
      PROVE  Cardinality(S) <= Cardinality(T)
  BY <1>2, <1>3, FS_Subset
<1> QED
  BY <1>1, <1>2, <1>3

\* A caller waits for OpenVibe.AI only after it read the budget (make).
LEMMA WhoWrites ==
  ASSUME BriefsTypeOK, NEW p \in Callers
  PROVE  /\ CallStep(p) \/ (\E c \in Companies : WriteBrief(p, c)) =>
              \A q \in Callers \ {p} : q \in Writing' <=> q \in Writing
         /\ AskAi(p) => p \notin Writing
         /\ StoreBrief(p) => p \in Writing /\ Writing' = Writing \ {p}
         /\ CallStep(p) /\ ~AskAi(p) => Writing' \in SUBSET Writing
         /\ \A s \in {"fetch", "make"}, c \in Companies :
              Free(p) /\ Opened(p, s, c) => Writing' \in SUBSET Writing
<1> USE DEF BriefsTypeOK, Writing, At, Free
<1>1. ASSUME Ended(p)
      PROVE  Writing' = Writing \ {p}
  BY <1>1 DEF Ended, NoCall
<1>2. ASSUME NEW s \in {"fetch", "make"}, NEW c \in Companies, Opened(p, s, c)
      PROVE  /\ Writing' = Writing \ {p}
             /\ \A q \in Callers \ {p} : q \in Writing' <=> q \in Writing
  BY <1>2 DEF Opened, NoCall
<1>3. ASSUME Recorded(p), call[p] # NoCall PROVE Writing' = Writing \ {p}
  <2>1. call[p] \in Call
    BY <1>3
  <2>2. CASE call' = [call EXCEPT ![p].step = "make"]
    <3>1. call'[p].step = "make" /\ \A q \in Callers \ {p} : call'[q] = call[q]
      BY <2>1, <2>2 DEF Call
    <3> QED
      BY <3>1
  <2> QED
    BY <1>1, <1>3, <2>2 DEF Recorded
<1>4. ASSUME Fetch(p) \/ RecordSome(p) \/ RecordRest(p) \/ ReadInputs(p) \/ ReadLast(p)
      PROVE  Writing' = Writing \ {p}
  <2>1. call[p] \in Call
    BY <1>4 DEF Fetch, RecordSome, RecordRest, ReadInputs, ReadLast
  <2>2. \/ Ended(p)
        \/ /\ call'[p].step \in {"record", "rest", "save", "compare", "budget"}
           /\ \A q \in Callers \ {p} : call'[q] = call[q]
    <3>1. CASE Fetch(p)
      BY <2>1, <3>1 DEF Fetch, Call
    <3>2. CASE RecordSome(p) \/ RecordRest(p)
      BY <2>1, <3>2 DEF RecordSome, RecordRest, Call
    <3>3. CASE ReadInputs(p)
      BY <2>1, <3>3 DEF ReadInputs, Call
    <3>4. CASE ReadLast(p)
      BY <2>1, <3>4 DEF ReadLast, Call
    <3> QED
      BY <1>4, <3>1, <3>2, <3>3, <3>4
  <2> QED
    BY <1>1, <2>2
<1>5. ASSUME AskAi(p) PROVE \A q \in Callers \ {p} : q \in Writing' <=> q \in Writing
  BY <1>5 DEF AskAi
<1>6. ASSUME CallStep(p), ~AskAi(p) PROVE Writing' = Writing \ {p}
  BY <1>1, <1>3, <1>4, <1>6
     DEF CallStep, FetchFails, RecordThrows, SaveFacts, Thrown, RefuseBudget, StoreBrief, RefuseText
<1>7. ASSUME NEW c \in Companies, WriteBrief(p, c)
      PROVE  \A q \in Callers \ {p} : q \in Writing' <=> q \in Writing
  BY <1>2, <1>7 DEF WriteBrief
<1> QED
  BY <1>1, <1>2, <1>5, <1>6, <1>7 DEF AskAi, StoreBrief

LEMMA AlwaysBudgetInv ==
  BriefsSpec => []BudgetInv
<1>1. BriefsInit => BudgetBounded
  <2> SUFFICES ASSUME BriefsInit PROVE BudgetBounded
    OBVIOUS
  <2>1. Writing = {} /\ Cardinality({}) = 0
    BY FS_EmptySet DEF BriefsInit, Writing, At, Free
  <2> QED
    BY <2>1, FewCallers, BriefsAssumption DEF BudgetBounded, BriefsInit
<1>2. BudgetInv /\ [BriefsNext]_briefsVars => BudgetBounded'
  <2> SUFFICES ASSUME BudgetInv, [BriefsNext]_briefsVars PROVE BudgetBounded'
    OBVIOUS
  <2>1. /\ Writing \in SUBSET Callers /\ Writing' \in SUBSET Callers
        /\ lastHour \in Nat /\ PerHour \in Nat /\ BriefsTypeOK
    BY BriefsAssumption DEF BudgetInv, BriefsTypeOK, Writing
  <2>2. /\ Cardinality(Writing) \in Nat /\ Cardinality(Writing') \in Nat
        /\ Cardinality(Writing') <= Cardinality(Readers) + 1 /\ Cardinality(Readers) \in Nat
        /\ Writing' \in SUBSET Writing => Cardinality(Writing') <= Cardinality(Writing)
        /\ \A p \in Writing : Cardinality(Writing \ {p}) = Cardinality(Writing) - 1
    BY <2>1, FewCallers
  <2>3. lastHour + Cardinality(Writing) <= PerHour + Cardinality(Readers)
    BY DEF BudgetInv, BudgetBounded
  <2>4. ASSUME Writing' \in SUBSET Writing, lastHour' \in Nat, lastHour' <= lastHour
        PROVE  BudgetBounded'
    BY <2>1, <2>2, <2>3, <2>4 DEF BudgetBounded
  <2>5. ASSUME NEW p \in Callers, AskAi(p) PROVE BudgetBounded'
    <3>1. lastHour' = lastHour /\ ~(lastHour >= PerHour)
      BY <2>5 DEF AskAi, stored, Spent
    <3> QED
      BY <2>1, <2>2, <3>1 DEF BudgetBounded
  <2>6. ASSUME NEW p \in Callers, StoreBrief(p) PROVE BudgetBounded'
    <3>1. lastHour' = lastHour + 1 /\ p \in Writing /\ Writing' = Writing \ {p}
      BY <2>1, <2>6, WhoWrites DEF StoreBrief
    <3> QED
      BY <2>1, <2>2, <2>3, <3>1 DEF BudgetBounded
  <2>7. ASSUME NEW p \in Callers, CallStep(p), ~AskAi(p), ~StoreBrief(p) PROVE BudgetBounded'
    <3>1. lastHour' = lastHour
      BY <2>7 DEF CallStep, Fetch, FetchFails, RecordSome, RecordRest, RecordThrows, SaveFacts,
                  ReadInputs, ReadLast, RefuseBudget, RefuseText, stored
    <3> QED
      BY <2>1, <2>4, <2>7, <3>1, WhoWrites
  <2>8. ASSUME NEW r \in Readers, NEW c \in Companies, WriteBrief(r, c) PROVE BudgetBounded'
    <3>1. lastHour' = lastHour /\ Writing' \in SUBSET Writing
      BY <2>1, <2>8, WhoWrites DEF WriteBrief, stored, Callers
    <3> QED
      BY <2>1, <2>4, <3>1
  <2>9. CASE TickStep
    <3>1. CASE call' = call
      <4>1. lastHour' = lastHour /\ Writing' = Writing
        BY <2>9, <3>1 DEF TickStep, StartTick, FactsDone, TickDone, TakeNext, stored, Writing, At, Free
      <4> QED
        BY <2>1, <2>4, <4>1
    <3>2. CASE \E t \in briefsTick.todo : TakeNext(t)
      <4>1. PICK t \in briefsTick.todo : TakeNext(t)
        BY <3>2
      <4>2. t[1] \in Companies /\ Worker \in Callers
        BY <2>1 DEF BriefsTypeOK, BriefsTick, Callers
      <4>3. lastHour' = lastHour /\ Writing' \in SUBSET Writing
        BY <2>1, <4>1, <4>2, WhoWrites DEF TakeNext, stored
      <4> QED
        BY <2>1, <2>4, <4>3
    <3> QED
      BY <2>9, <3>1, <3>2 DEF TickStep, StartTick, FactsDone, TickDone
  <2>10. CASE ProcessRestarts
    <3>1. lastHour' = lastHour /\ Writing' = {}
      BY <2>10 DEF ProcessRestarts, stored, Writing, At, Free
    <3> QED
      BY <2>1, <2>4, <3>1
  <2>11. CASE call' = call /\ lastHour' \in Nat /\ lastHour' <= lastHour
    BY <2>4, <2>11 DEF Writing, At, Free
  <2>12. CASE \/ \E c \in Companies : File(c) \/ \E f \in filings[c] : Revise(c, f) \/ Remove(c, f)
              \/ HourPasses \/ UNCHANGED briefsVars
    BY <2>1, <2>11, <2>12 DEF File, Revise, Remove, Changed, HourPasses, briefsVars, stored
  <2> QED
    BY <2>5, <2>6, <2>7, <2>8, <2>9, <2>10, <2>12 DEF BriefsNext
<1> QED
  BY <1>1, <1>2, BriefsTypeCorrect, PTL DEF BriefsSpec, BudgetInv

\* However many readers and the worker ask at once, the briefs of an hour and those being
\* written exceed perHour by at most one per reader (make).
THEOREM BudgetSafe == BriefsSpec => []BudgetBounded
<1>1. BudgetInv => BudgetBounded
  BY DEF BudgetInv
<1> QED
  BY <1>1, AlwaysBudgetInv, PTL

------------------------------------------------------------------------------
(* What a brief is written from *)

\* Inputs read at time t are of the past, and of the numbers that are recorded unless these grew
\* afterwards.
ReadAtTime(c, input, t) == t <= now /\ (t >= grown[c] => input.numbers = numbers[c])

\* The last brief was written from other inputs, or was stored after these were read.
NewInput(c, input, t) ==
  briefs[c] # <<>> =>
    LET last == briefs[c][Len(briefs[c])] IN last.input = input => t < last.at

\* A call that has compared its inputs with the last brief's, and one that has read its inputs.
Compared(p) == At(p, "budget") \/ At(p, "ai")

Preparing(p) == At(p, "compare") \/ Compared(p)

\* Each brief, and each call that has read its inputs, knows what was recorded when it read them;
\* OpenVibe.AI is called only with inputs the last brief did not have.
WrittenInv ==
  /\ \A c \in Companies : grown[c] <= now
  /\ \A c \in Companies : \A k \in DOMAIN briefs[c] :
       /\ briefs[c][k].at <= now
       /\ ReadAtTime(c, briefs[c][k].input, briefs[c][k].began)
  /\ \A p \in Callers :
       /\ Preparing(p) => ReadAtTime(call[p].of, call[p].input, call[p].began)
       /\ Compared(p) => NewInput(call[p].of, call[p].input, call[p].began)
  /\ OncePerInput

\* Who prepares a brief after a step, and what for.
PreparedFrom ==
  \A p \in Callers :
    Preparing(p)' =>
      \/ /\ Preparing(p)
         /\ call'[p].of = call[p].of /\ call'[p].input = call[p].input
         /\ call'[p].began = call[p].began
         /\ Compared(p)' => Compared(p) \/ ~Current(call[p].of, call[p].input)
      \/ ReadInputs(p) /\ ~Compared(p)' /\ call'[p].of = call[p].of
         /\ call'[p].of \in Companies
         /\ call'[p].input = Inputs(call[p].of) /\ call'[p].began = now

\* Numbers do not grow, or grow now.
GrowthOnly ==
  /\ now' >= now /\ now' \in Nat
  /\ \A c \in Companies :
       \/ numbers'[c] = numbers[c] /\ grown'[c] = grown[c]
       \/ grown'[c] = now' /\ now' > now

\* Observations are only added, at a time of their own (record).
LEMMA StepsGrow ==
  ASSUME BriefsTypeOK, [BriefsNext]_briefsVars
  PROVE  GrowthOnly
<1>1. now \in Nat /\ numbers \in [Companies -> Nat] /\ grown \in [Companies -> Nat]
  BY DEF BriefsTypeOK
<1>2. ASSUME UNCHANGED recorded, now' = now \/ now' = now + 1 PROVE GrowthOnly
  BY <1>1, <1>2 DEF recorded, GrowthOnly
<1>3. ASSUME NEW c \in Companies, NEW n, Grows(c, n) PROVE GrowthOnly
  <2>1. CASE UNCHANGED <<now, recorded>>
    BY <1>2, <2>1
  <2>2. CASE now' = now + 1 /\ numbers' = [numbers EXCEPT ![c] = n]
             /\ grown' = [grown EXCEPT ![c] = now']
    BY <1>1, <2>2 DEF GrowthOnly
  <2> QED
    BY <1>3, <2>1, <2>2 DEF Grows
<1>4. CASE \E c \in Companies : File(c) \/ \E f \in filings[c] : Revise(c, f) \/ Remove(c, f)
  BY <1>2, <1>4 DEF File, Revise, Remove, Changed, stored
<1>5. CASE HourPasses \/ (\E r \in Readers, c \in Companies : WriteBrief(r, c))
  BY <1>2, <1>5 DEF HourPasses, WriteBrief, stored
<1>6. ASSUME NEW p \in Callers, CallStep(p) PROVE GrowthOnly
  <2>1. CASE RecordSome(p) \/ RecordRest(p)
    <3>1. call[p].of \in Companies
      BY <2>1, CallEdits DEF RecordSome, RecordRest
    <3> QED
      BY <1>3, <2>1, <3>1 DEF RecordSome, RecordRest
  <2>2. CASE ~(RecordSome(p) \/ RecordRest(p))
    BY <1>2, <1>6, <2>2 DEF CallStep, Fetch, FetchFails, RecordThrows, SaveFacts, ReadInputs,
                            ReadLast, RefuseBudget, AskAi, StoreBrief, RefuseText, stored
  <2> QED
    BY <2>1, <2>2
<1>7. CASE TickStep \/ ProcessRestarts
  BY <1>2, <1>7 DEF TickStep, StartTick, TakeNext, FactsDone, TickDone, ProcessRestarts, stored
<1>8. CASE UNCHANGED briefsVars
  BY <1>2, <1>8 DEF briefsVars, stored
<1> QED
  BY <1>4, <1>5, <1>6, <1>7, <1>8 DEF BriefsNext

\* A brief is prepared by a call that has read its inputs, now or before (make).
LEMMA CallsPrepare ==
  ASSUME BriefsTypeOK, NEW p \in Callers, CallStep(p)
  PROVE  PreparedFrom
<1> USE DEF BriefsTypeOK, Preparing, Compared, At, Free
<1>1. call[p] \in Call /\ call[p] # NoCall /\ call[p].of \in Companies
  <2>1. call[p] # NoCall
    BY DEF CallStep, Fetch, FetchFails, RecordSome, RecordRest, RecordThrows, SaveFacts, ReadInputs,
           ReadLast, RefuseBudget, AskAi, StoreBrief, RefuseText
  <2> QED
    BY <2>1 DEF Call
<1>2. ASSUME NEW x, call' = [call EXCEPT ![p] = x], NEW q \in Callers, q # p, Preparing(q)'
      PROVE  /\ Preparing(q)
             /\ call'[q].of = call[q].of /\ call'[q].input = call[q].input
             /\ call'[q].began = call[q].began
             /\ Compared(q)' => Compared(q)
  BY <1>2
<1>3. ASSUME NEW x, call' = [call EXCEPT ![p] = x],
             x = NoCall \/ x.step \in {"fetch", "record", "rest", "save", "make"}
      PROVE  PreparedFrom
  <2>1. ~Preparing(p)'
    BY <1>3
  <2> QED
    BY <1>2, <1>3, <2>1 DEF PreparedFrom
<1>4. CASE Ended(p)
  BY <1>3, <1>4 DEF Ended
<1>5. CASE call' = [call EXCEPT ![p].step = "make"]
  <2>1. [call[p] EXCEPT !.step = "make"].step = "make"
    BY <1>1 DEF Call
  <2> QED
    BY <1>3, <1>5, <2>1
<1>6. CASE Fetch(p)
  <2>1. [call[p] EXCEPT !.step = "record", !.got = sec[call[p].of]].step = "record"
    BY <1>1 DEF Call
  <2> QED
    BY <1>3, <1>6, <2>1 DEF Fetch
<1>7. CASE RecordSome(p) \/ RecordRest(p)
  <2>1. /\ [call[p] EXCEPT !.step = "rest"].step = "rest"
        /\ [call[p] EXCEPT !.step = "save"].step = "save"
    BY <1>1 DEF Call
  <2> QED
    BY <1>3, <1>7, <2>1 DEF RecordSome, RecordRest
<1>8. CASE ReadInputs(p) /\ ~Ended(p)
  <2>1. call' = [call EXCEPT ![p].step = "compare", ![p].input = Inputs(call[p].of),
                             ![p].began = now]
    BY <1>8 DEF ReadInputs
  <2>2. /\ call'[p].step = "compare" /\ call'[p].of = call[p].of
        /\ call'[p].input = Inputs(call[p].of) /\ call'[p].began = now
        /\ \A q \in Callers \ {p} : call'[q] = call[q]
    BY <1>1, <2>1 DEF Call
  <2> QED
    BY <1>1, <1>8, <2>2 DEF PreparedFrom
<1>9. CASE AskAi(p) \/ (ReadLast(p) /\ ~Ended(p))
  <2>1. /\ call'[p].step \in {"budget", "ai"} /\ call'[p].of = call[p].of
        /\ call'[p].input = call[p].input /\ call'[p].began = call[p].began
        /\ \A q \in Callers \ {p} : call'[q] = call[q]
    BY <1>1, <1>9 DEF AskAi, ReadLast, Call
  <2>2. Preparing(p) /\ (Compared(p) \/ ~Current(call[p].of, call[p].input))
    BY <1>9 DEF AskAi, ReadLast
  <2> QED
    BY <2>1, <2>2 DEF PreparedFrom
<1> QED
  BY <1>4, <1>5, <1>6, <1>7, <1>8, <1>9
     DEF CallStep, FetchFails, RecordThrows, Thrown, Recorded, SaveFacts, ReadLast, RefuseBudget,
         StoreBrief, RefuseText

LEMMA StepsPrepare ==
  ASSUME BriefsTypeOK, [BriefsNext]_briefsVars
  PROVE  PreparedFrom
<1> USE DEF BriefsTypeOK, Preparing, Compared, At, Free
<1>1. CASE call' = call
  BY <1>1 DEF PreparedFrom
<1>2. ASSUME NEW p \in Callers, NEW s \in {"fetch", "make"}, NEW c \in Companies, Opened(p, s, c)
      PROVE  PreparedFrom
  <2>1. call'[p].step = s /\ \A q \in Callers \ {p} : call'[q] = call[q]
    BY <1>2 DEF Opened
  <2> QED
    BY <2>1 DEF PreparedFrom
<1>3. ASSUME NEW r \in Readers, NEW c \in Companies, WriteBrief(r, c) PROVE PreparedFrom
  <2>1. CASE facts[c].at = 0
    BY <1>2, <1>3, <2>1 DEF WriteBrief, Callers
  <2>2. CASE facts[c].at # 0
    BY <1>2, <1>3, <2>2 DEF WriteBrief, Callers
  <2> QED
    BY <2>1, <2>2
<1>4. ASSUME NEW t \in briefsTick.todo, TakeNext(t) PROVE PreparedFrom
  <2>1. t[1] \in Companies /\ Worker \in Callers
    BY DEF BriefsTick, Callers
  <2>2. CASE briefsTick.stage = "facts"
    BY <1>2, <1>4, <2>1, <2>2 DEF TakeNext
  <2>3. CASE briefsTick.stage # "facts"
    BY <1>2, <1>4, <2>1, <2>3 DEF TakeNext
  <2> QED
    BY <2>2, <2>3
<1>5. CASE ProcessRestarts
  BY <1>5 DEF ProcessRestarts, PreparedFrom
<1>6. CASE \/ \E c \in Companies : File(c) \/ \E f \in filings[c] : Revise(c, f) \/ Remove(c, f)
           \/ HourPasses \/ StartTick \/ FactsDone \/ TickDone \/ UNCHANGED briefsVars
  BY <1>1, <1>6 DEF File, Revise, Remove, Changed, HourPasses, StartTick, FactsDone, TickDone, briefsVars
<1> QED
  BY <1>3, <1>4, <1>5, <1>6, CallsPrepare DEF BriefsNext, TickStep

\* Only an answer of OpenVibe.AI adds a brief.
LEMMA StepsWrite ==
  ASSUME [BriefsNext]_briefsVars
  PROVE  briefs' = briefs \/ \E p \in Callers : StoreBrief(p)
BY DEF BriefsNext, briefsVars, stored, File, Revise, Remove, Changed, HourPasses, WriteBrief, CallStep,
       Fetch, FetchFails, RecordSome, RecordRest, RecordThrows, SaveFacts, ReadInputs, ReadLast, RefuseBudget, AskAi,
       RefuseText, TickStep, StartTick, TakeNext, FactsDone, TickDone, ProcessRestarts

LEMMA WrittenStep ==
  ASSUME BriefsTypeOK, WrittenInv, [BriefsNext]_briefsVars
  PROVE  WrittenInv'
<1>1. GrowthOnly /\ PreparedFrom
  BY StepsGrow, StepsPrepare
<1>2. /\ now \in Nat /\ now' \in Nat /\ now' >= now
      /\ \A c \in Companies : grown[c] \in Nat
      /\ \A c \in Companies : \A k \in DOMAIN briefs[c] : briefs[c][k] \in Brief
      /\ \A p \in Callers : Preparing(p) => call[p].of \in Companies /\ call[p].began \in Nat
  <2>1. \A c \in Companies : briefs[c] \in Seq(Brief) /\ grown[c] \in Nat
    BY DEF BriefsTypeOK
  <2>2. now \in Nat /\ now' \in Nat /\ now' >= now
    BY <1>1 DEF BriefsTypeOK, GrowthOnly
  <2>3. \A c \in Companies : \A k \in DOMAIN briefs[c] : briefs[c][k] \in Brief
    BY <2>1
  <2>4. \A p \in Callers : Preparing(p) => call[p].of \in Companies /\ call[p].began \in Nat
    BY CallEdits DEF BriefsTypeOK, Preparing, Compared, Call
  <2> QED
    BY <2>1, <2>2, <2>3, <2>4
<1>3. \A c \in Companies : grown'[c] <= now'
  BY <1>1, <1>2 DEF GrowthOnly, WrittenInv
<1>4. \A p \in Callers : Preparing(p)' => ReadAtTime(call[p].of, call[p].input, call[p].began)'
  <2> SUFFICES ASSUME NEW p \in Callers, Preparing(p)'
               PROVE  ReadAtTime(call[p].of, call[p].input, call[p].began)'
    OBVIOUS
  <2>1. CASE /\ Preparing(p) /\ call'[p].of = call[p].of /\ call'[p].input = call[p].input
             /\ call'[p].began = call[p].began
    <3>1. ReadAtTime(call[p].of, call[p].input, call[p].began)
      BY <2>1 DEF WrittenInv
    <3> QED
      BY <1>1, <1>2, <2>1, <3>1 DEF GrowthOnly, ReadAtTime
  <2>2. CASE /\ ReadInputs(p) /\ call'[p].of = call[p].of /\ call'[p].of \in Companies
             /\ call'[p].input = Inputs(call[p].of) /\ call'[p].began = now
    <3>1. UNCHANGED <<now, numbers, grown>>
      BY <2>2 DEF ReadInputs, stored, recorded
    <3> QED
      BY <1>2, <2>2, <3>1 DEF ReadAtTime, Inputs
  <2> QED
    BY <1>1, <2>1, <2>2 DEF PreparedFrom
<1>5. \A p \in Callers : Compared(p)' => NewInput(call[p].of, call[p].input, call[p].began)'
  <2> SUFFICES ASSUME NEW p \in Callers, Compared(p)'
               PROVE  NewInput(call[p].of, call[p].input, call[p].began)'
    OBVIOUS
  <2>1. /\ Preparing(p) /\ call'[p].of = call[p].of /\ call'[p].input = call[p].input
        /\ call'[p].began = call[p].began
        /\ Compared(p) \/ ~Current(call[p].of, call[p].input)
    BY <1>1 DEF PreparedFrom, Preparing
  <2>2. NewInput(call[p].of, call[p].input, call[p].began)
    <3>1. CASE Compared(p)
      BY <3>1 DEF WrittenInv
    <3>2. CASE ~Current(call[p].of, call[p].input)
      BY <3>2 DEF Current, NewInput
    <3> QED
      BY <2>1, <3>1, <3>2
  <2>3. call[p].began <= now
    BY <2>1 DEF WrittenInv, ReadAtTime
  <2>4. call[p].of \in Companies /\ call[p].began \in Nat
    BY <1>2, <2>1
  <2>5. CASE briefs' = briefs
    BY <2>1, <2>2, <2>5 DEF NewInput
  <2>6. CASE briefs' # briefs
    <3>1. PICK q \in Callers : StoreBrief(q)
      BY <2>6, StepsWrite
    <3>2. PICK b : /\ b.at = now + 1
                   /\ briefs' = [briefs EXCEPT ![call[q].of] = Append(@, b)]
      BY <3>1 DEF StoreBrief
    <3>3. call[q].of \in Companies
      BY <3>1, CallEdits DEF StoreBrief
    <3>4. CASE call[p].of # call[q].of
      BY <2>1, <2>2, <2>4, <3>2, <3>3, <3>4 DEF NewInput, BriefsTypeOK
    <3>5. CASE call[p].of = call[q].of
      <4>1. PICK c \in Companies : c = call[p].of
        BY <2>4
      <4>2. briefs[c] \in Seq(Brief) /\ briefs'[c] = Append(briefs[c], b)
        BY <3>2, <3>5, <4>1 DEF BriefsTypeOK
      <4>3. PICK last : last = briefs'[c][Len(briefs'[c])]
        OBVIOUS
      <4>4. last = b /\ last.at = now + 1
        BY <3>2, <4>2, <4>3
      <4>5. now \in Nat
        BY <1>2
      <4>6. call[p].began < last.at
        BY <2>3, <2>4, <4>4, <4>5
      <4>7. NewInput(c, call[p].input, call[p].began)'
        BY <2>1, <4>3, <4>6 DEF NewInput
      <4> QED
        BY <2>1, <4>1, <4>7
    <3> QED
      BY <3>4, <3>5
  <2> QED
    BY <2>5, <2>6
<1>6. /\ \A c \in Companies : \A k \in DOMAIN briefs'[c] :
           /\ briefs'[c][k].at <= now'
           /\ ReadAtTime(c, briefs[c][k].input, briefs[c][k].began)'
      /\ OncePerInput'
  <2>1. CASE briefs' = briefs
    <3>1. ASSUME NEW c \in Companies, NEW k \in DOMAIN briefs[c]
          PROVE  /\ briefs[c][k].at <= now'
                 /\ ReadAtTime(c, briefs[c][k].input, briefs[c][k].began)'
      <4>1. briefs[c][k].at <= now /\ ReadAtTime(c, briefs[c][k].input, briefs[c][k].began)
        BY <3>1 DEF WrittenInv
      <4>2. briefs[c][k].at \in Nat /\ briefs[c][k].began \in Nat
        BY <1>2, <3>1 DEF Brief
      <4> QED
        BY <1>1, <1>2, <2>1, <4>1, <4>2 DEF GrowthOnly, ReadAtTime
    <3> QED
      BY <2>1, <3>1 DEF WrittenInv, OncePerInput
  <2>2. ASSUME NEW p \in Callers, StoreBrief(p)
        PROVE  /\ \A c \in Companies : \A k \in DOMAIN briefs'[c] :
                    /\ briefs'[c][k].at <= now'
                    /\ ReadAtTime(c, briefs[c][k].input, briefs[c][k].began)'
               /\ OncePerInput'
    <3> DEFINE d == call[p].of
               b == [input |-> call[p].input, began |-> call[p].began, at |-> now + 1]
    <3>1. /\ d \in Companies /\ Compared(p) /\ Preparing(p) /\ b.began \in Nat
          /\ now' = now + 1 /\ UNCHANGED <<numbers, grown>>
      BY <1>2, <2>2, CallEdits DEF StoreBrief, recorded, Preparing, Compared
    <3>2. /\ ReadAtTime(d, b.input, b.began) /\ NewInput(d, b.input, b.began)
          /\ b.at = now'
      BY <3>1 DEF WrittenInv
    <3>3. briefs' = [briefs EXCEPT ![d] = Append(@, b)]
      BY <2>2, <3>1 DEF StoreBrief
    <3> HIDE DEF b, d
    <3>4. /\ \A c \in Companies : briefs[c] \in Seq(Brief)
          /\ \A c \in Companies \ {d} : briefs'[c] = briefs[c]
          /\ briefs'[d] = Append(briefs[d], b)
      BY <3>1, <3>3 DEF BriefsTypeOK
    <3>5. /\ Len(briefs'[d]) = Len(briefs[d]) + 1 /\ DOMAIN briefs'[d] = 1 .. Len(briefs[d]) + 1
          /\ DOMAIN briefs[d] = 1 .. Len(briefs[d]) /\ Len(briefs[d]) \in Nat
          /\ \A k \in DOMAIN briefs[d] : briefs'[d][k] = briefs[d][k]
          /\ briefs'[d][Len(briefs[d]) + 1] = b
      BY <3>1, <3>4
    <3>6. ASSUME NEW c \in Companies, NEW k \in DOMAIN briefs'[c]
          PROVE  /\ briefs'[c][k].at <= now'
                 /\ ReadAtTime(c, briefs[c][k].input, briefs[c][k].began)'
      <4>1. CASE k \in DOMAIN briefs[c]
        <5>1. briefs'[c][k] = briefs[c][k]
          BY <3>4, <3>5, <4>1
        <5>2. /\ briefs[c][k].at <= now /\ ReadAtTime(c, briefs[c][k].input, briefs[c][k].began)
              /\ briefs[c][k].at \in Nat /\ briefs[c][k].began \in Nat
          BY <1>2, <4>1 DEF WrittenInv, Brief
        <5> QED
          BY <1>2, <3>1, <5>1, <5>2 DEF ReadAtTime
      <4>2. CASE k \notin DOMAIN briefs[c]
        <5>1. c = d /\ briefs'[c][k] = b
          BY <3>4, <3>5, <4>2
        <5> QED
          BY <1>2, <3>1, <3>2, <5>1 DEF ReadAtTime
      <4> QED
        BY <4>1, <4>2
    <3>7. ASSUME NEW c \in Companies, NEW k \in DOMAIN briefs'[c] \ {1},
                 briefs'[c][k].input = briefs'[c][k - 1].input
          PROVE  briefs'[c][k].began < briefs'[c][k - 1].at
      <4>1. CASE k \in DOMAIN briefs[c]
        <5>1. k - 1 \in DOMAIN briefs[c] /\ k \in DOMAIN briefs[c] \ {1}
          BY <3>4, <3>7, <4>1
        <5>2. briefs'[c][k] = briefs[c][k] /\ briefs'[c][k - 1] = briefs[c][k - 1]
          BY <3>4, <3>5, <4>1, <5>1
        <5> QED
          BY <3>7, <5>1, <5>2 DEF WrittenInv, OncePerInput
      <4>2. CASE k \notin DOMAIN briefs[c]
        <5>1. c = d /\ k = Len(briefs[d]) + 1 /\ briefs'[c][k] = b
          BY <3>4, <3>5, <4>2
        <5>2. Len(briefs[d]) \in DOMAIN briefs[d] /\ briefs[d] # <<>>
          BY <3>5, <3>7, <5>1
        <5>3. k - 1 = Len(briefs[d]) /\ briefs'[c][k - 1] = briefs[d][Len(briefs[d])]
          BY <3>5, <5>1, <5>2
        <5> QED
          BY <3>2, <3>7, <5>1, <5>2, <5>3 DEF NewInput
      <4> QED
        BY <4>1, <4>2
    <3> QED
      BY <3>6, <3>7 DEF OncePerInput
  <2> QED
    BY <2>1, <2>2, StepsWrite
<1> QED
  BY <1>3, <1>4, <1>5, <1>6 DEF WrittenInv

LEMMA AlwaysWrittenInv ==
  BriefsSpec => [](BriefsTypeOK /\ WrittenInv)
<1>1. BriefsInit => WrittenInv
  <2> SUFFICES ASSUME BriefsInit PROVE WrittenInv
    OBVIOUS
  <2>1. \A c \in Companies : briefs[c] = <<>> /\ DOMAIN briefs[c] = {}
    BY DEF BriefsInit
  <2>2. \A p \in Callers : ~Preparing(p) /\ ~Compared(p)
    BY DEF BriefsInit, Preparing, Compared, At, Free
  <2>3. \A c \in Companies : grown[c] <= now
    BY DEF BriefsInit
  <2> QED
    BY <2>1, <2>2, <2>3 DEF WrittenInv, OncePerInput
<1>2. BriefsTypeOK /\ WrittenInv /\ [BriefsNext]_briefsVars => WrittenInv'
  BY WrittenStep
<1> QED
  BY <1>1, <1>2, BriefsTypeCorrect, PTL DEF BriefsSpec

\* Whoever asks, and whatever comes back or is removed: the same inputs make no second brief
\* after the first was stored (inputs_hash, make).
THEOREM OncePerInputSafe == BriefsSpec => []OncePerInput
<1>1. WrittenInv => OncePerInput
  BY DEF WrittenInv
<1> QED
  BY <1>1, AlwaysWrittenInv, PTL

\* Numbers that were recorded and read while no brief was being written keep their company on
\* the list of briefs that are due, until one is written from them (due, make, record).
THEOREM NewNumbersSafe == BriefsSpec => []NewNumbersDue
<1>1. BriefsTypeOK /\ WrittenInv => NewNumbersDue
  <2> SUFFICES ASSUME BriefsTypeOK, WrittenInv, NEW c \in Companies, Unbriefed(c)
               PROVE  c \in BriefsDue
    BY DEF NewNumbersDue
  <2>1. ASSUME NEW k \in DOMAIN briefs[c], briefs[c][k].at >= facts[c].at PROVE FALSE
    <3>1. /\ briefs[c][k].input.numbers < numbers[c] /\ grown[c] <= facts[c].at
          /\ ~(briefs[c][k].began < grown[c] /\ grown[c] <= briefs[c][k].at)
      BY <2>1 DEF Unbriefed
    <3>2. briefs[c][k].began >= grown[c] => briefs[c][k].input.numbers = numbers[c]
      BY <2>1 DEF WrittenInv, ReadAtTime
    <3>3. /\ briefs[c] \in Seq(Brief) /\ facts[c].at \in Nat /\ grown[c] \in Nat
          /\ numbers[c] \in Nat
      BY DEF BriefsTypeOK, FactsRow
    <3>4. briefs[c][k] \in Brief
      BY <2>1, <3>3
    <3>5. briefs[c][k].began \in Nat /\ briefs[c][k].at \in Nat
      BY <3>4 DEF Brief
    <3> QED
      BY <2>1, <3>1, <3>2, <3>3, <3>5
  <2> QED
    BY <2>1 DEF BriefsDue, Unbriefed
<1> QED
  BY <1>1, AlwaysWrittenInv, PTL

==============================================================================
