---------------------------- MODULE ReadersProofs -----------------------------
(***************************************************************************)
(* What a person keeps and what readers are served: theorems about          *)
(* Watchlists, then about Serving.  Limits are passed by the requests under *)
(* way at most, what was removed or erased leaves nothing behind, and       *)
(* memory serves nothing older than its time to live and the longest read.  *)
(***************************************************************************)
EXTENDS Watchlists, Serving, FiniteSetTheorems, SequenceTheorems, TLAPS

(* Watchlists: requests at work *)

\* What a request at work knows: its list from the start, a name until the row is in, and
\* the instrument it adds.
Formed(w) ==
  /\ w \in Work
  /\ w.list = None <=> w.at \in {"idle", "applying"}
  /\ w.at = "named" => w.name # None
  /\ w.at \in {"viewed", "fits"} => w.item # None

WorkFormed == \A r \in Requests : Formed(work[r])

\* Requests that counted and have yet to insert: a list, or an instrument on list l.
Naming == {r \in Requests : work[r].at = "named"}
Fitting(l) == {r \in Requests : work[r].at = "fits" /\ work[r].list = l}

\* What is there and what was counted room for is bounded together.
Counted ==
  /\ Cardinality(Kept) + Cardinality(Naming) < MaxLists + Cardinality(Requests)
  /\ \A l \in Lists :
       Cardinality(items[l]) + Cardinality(Fitting(l)) < MaxItems + Cardinality(Requests)

\* A request is at work on a list that is kept, or on its way in, unless the list was removed
\* or erased under it; a list that is not kept has nothing.
WorkOnKept ==
  \A l \in Lists \ raced :
    /\ \A r \in Requests :
         work[r].list = l => ~erased /\ (work[r].at # "named" => l \in Kept)
    /\ l \in Kept => ~erased
    /\ l \notin Kept => items[l] = {} /\ audience[l] = None /\ members[l] = {}

\* Members were given Can edit, and so was whoever a request adds for.
EditorsGranted ==
  /\ \A l \in Lists : \A f \in members[l] : <<f, l>> \in granted
  /\ \A r \in Requests :
       work[r].list # None => work[r].who = Owner \/ <<work[r].who, work[r].list>> \in granted

ListsInv == TypeOK /\ WorkFormed /\ Counted /\ WorkOnKept /\ EditorsGranted

\* One request moves, the others stay where they are.
LEMMA GoesTo ==
  ASSUME TypeOK, NEW r \in Requests, NEW w, Goto(r, w)
  PROVE  work'[r] = w /\ \A q \in Requests \ {r} : work'[q] = work[q]
BY DEF TypeOK, Goto

\* A request at work on a list knows the list; further on, what it needs of it.
LEMMA AtWork ==
  ASSUME WorkFormed, NEW r \in Requests
  PROVE  /\ work[r] \in Work
         /\ work[r].at \in {"named", "inserted", "defaulted", "viewed", "fits"} => work[r].list \in Lists
         /\ work[r].at = "named" => work[r].name \in Names
         /\ work[r].at \in {"viewed", "fits"} => work[r].item \in Instruments
         /\ work[r].to \in Audiences /\ work[r].who \in People
<1>1. Formed(work[r])
  BY DEF WorkFormed
<1> QED
  BY <1>1 DEF Formed, Work

\* What each step of a request makes of its work.
LEMMA Moves ==
  ASSUME TypeOK, WorkFormed, NEW r \in Requests
  PROVE  /\ \A l \in Lists, n \in Names, i \in Instruments \cup {None} :
              Create(r, l, n, i) =>
                \E w : Formed(w) /\ Goto(r, w) /\ w.at = "named" /\ w.list = l /\ w.who = Owner
         /\ InsertList(r) =>
              \E w : /\ Formed(w) /\ Goto(r, w)
                     /\ \/ w.at = "idle" /\ w.list = None /\ lists' = lists
                        \/ /\ w.at = "inserted" /\ w.list = work[r].list /\ w.who = work[r].who
                           /\ lists' = [lists EXCEPT ![work[r].list] = work[r].name]
         /\ ReadDefault(r) \/ CountItems(r) =>
              \E w : /\ Formed(w) /\ Goto(r, w) /\ w.list = work[r].list /\ w.who = work[r].who
                     /\ w.at = IF work[r].at = "inserted" THEN "defaulted" ELSE "fits"
         /\ Register(r) =>
              \E w : /\ Formed(w) /\ Goto(r, w)
                     /\ \/ w.at = "idle" /\ w.list = None
                        \/ w.at = "viewed" /\ w.list = work[r].list /\ w.who = work[r].who
         /\ \A p \in People, l \in Lists, i \in Instruments :
              Add(r, p, l, i) =>
                \E w : Formed(w) /\ Goto(r, w) /\ w.at = "viewed" /\ w.list = l /\ w.who = p
         /\ \A to \in Audiences, applyAll \in BOOLEAN :
              SetDefault(r, to, applyAll) =>
                \E w : Formed(w) /\ Goto(r, w) /\ w.at \in {"idle", "applying"} /\ w.list = None
         /\ InsertItem(r) \/ ApplyAll(r) \/ Fail(r) =>
              \E w : Formed(w) /\ Goto(r, w) /\ w.at = "idle" /\ w.list = None
<1>1. Formed(work[r]) /\ work[r] \in Work
  BY DEF WorkFormed, Formed
<1>2. Formed(Idle) /\ Idle.at = "idle" /\ Idle.list = None
  BY DEF Idle, Formed, Work, People, Audiences
<1>3. None \notin Lists /\ None \notin Names /\ None \notin Instruments
  BY WatchlistsAssumption
<1>4. ASSUME NEW l \in Lists, NEW n \in Names, NEW i \in Instruments \cup {None}, Create(r, l, n, i)
      PROVE  \E w : Formed(w) /\ Goto(r, w) /\ w.at = "named" /\ w.list = l /\ w.who = Owner
  <2> DEFINE w == [Idle EXCEPT !.at = "named", !.list = l, !.name = n, !.item = i]
  <2>1. Formed(w) /\ w.at = "named" /\ w.list = l /\ w.who = Owner
    BY <1>3 DEF Idle, Formed, Work, People, Audiences
  <2> QED
    BY <1>4, <2>1 DEF Create
<1>5. ASSUME InsertList(r)
      PROVE  \E w : /\ Formed(w) /\ Goto(r, w)
                    /\ \/ w.at = "idle" /\ w.list = None /\ lists' = lists
                       \/ /\ w.at = "inserted" /\ w.list = work[r].list /\ w.who = work[r].who
                          /\ lists' = [lists EXCEPT ![work[r].list] = work[r].name]
  <2> DEFINE w == [work[r] EXCEPT !.at = "inserted", !.name = None]
  <2>1. work[r].at = "named"
    BY <1>5 DEF InsertList
  <2>2. Formed(w) /\ w.at = "inserted" /\ w.list = work[r].list /\ w.who = work[r].who
    BY <1>1, <2>1 DEF Formed, Work
  <2>3. \/ Goto(r, Idle) /\ lists' = lists
        \/ Goto(r, w) /\ lists' = [lists EXCEPT ![work[r].list] = work[r].name]
    BY <1>5 DEF InsertList
  <2> HIDE DEF w
  <2> QED
    BY <1>2, <2>2, <2>3
<1>6. ASSUME ReadDefault(r) \/ CountItems(r)
      PROVE  \E w : /\ Formed(w) /\ Goto(r, w) /\ w.list = work[r].list /\ w.who = work[r].who
                    /\ w.at = IF work[r].at = "inserted" THEN "defaulted" ELSE "fits"
  <2>1. CASE ReadDefault(r)
    <3> DEFINE w == [work[r] EXCEPT !.at = "defaulted", !.to = default]
    <3>1. Formed(w) /\ w.at = "defaulted" /\ w.list = work[r].list /\ w.who = work[r].who
      BY <1>1, <2>1 DEF ReadDefault, Formed, Work, TypeOK
    <3>2. Goto(r, w) /\ work[r].at = "inserted"
      BY <2>1 DEF ReadDefault
    <3> HIDE DEF w
    <3> QED
      BY <3>1, <3>2
  <2>2. CASE CountItems(r)
    <3> DEFINE w == [work[r] EXCEPT !.at = "fits"]
    <3>1. Formed(w) /\ w.at = "fits" /\ w.list = work[r].list /\ w.who = work[r].who
      BY <1>1, <2>2 DEF CountItems, Formed, Work
    <3>2. Goto(r, w) /\ work[r].at = "viewed"
      BY <2>2 DEF CountItems
    <3> HIDE DEF w
    <3> QED
      BY <3>1, <3>2
  <2> QED
    BY <1>6, <2>1, <2>2
<1>7. ASSUME Register(r)
      PROVE  \E w : /\ Formed(w) /\ Goto(r, w)
                    /\ \/ w.at = "idle" /\ w.list = None
                       \/ w.at = "viewed" /\ w.list = work[r].list /\ w.who = work[r].who
  <2>1. CASE work[r].item = None
    BY <1>2, <1>7, <2>1 DEF Register
  <2>2. CASE work[r].item # None
    <3> DEFINE w == [work[r] EXCEPT !.at = "viewed", !.to = "private"]
    <3>1. Formed(w) /\ w.at = "viewed" /\ w.list = work[r].list /\ w.who = work[r].who
      BY <1>1, <1>7, <2>2 DEF Register, Formed, Work, Audiences
    <3>2. Goto(r, w)
      BY <1>7, <2>2 DEF Register
    <3> HIDE DEF w
    <3> QED
      BY <3>1, <3>2
  <2> QED
    BY <2>1, <2>2
<1>8. ASSUME NEW p \in People, NEW l \in Lists, NEW i \in Instruments, Add(r, p, l, i)
      PROVE  \E w : Formed(w) /\ Goto(r, w) /\ w.at = "viewed" /\ w.list = l /\ w.who = p
  <2> DEFINE w == [Idle EXCEPT !.at = "viewed", !.who = p, !.list = l, !.item = i]
  <2>1. Formed(w) /\ w.at = "viewed" /\ w.list = l /\ w.who = p
    BY <1>3 DEF Idle, Formed, Work, People, Audiences
  <2> QED
    BY <1>8, <2>1 DEF Add
<1>9. ASSUME NEW to \in Audiences, NEW applyAll \in BOOLEAN, SetDefault(r, to, applyAll)
      PROVE  \E w : Formed(w) /\ Goto(r, w) /\ w.at \in {"idle", "applying"} /\ w.list = None
  <2> DEFINE w == [Idle EXCEPT !.at = "applying", !.to = to]
  <2>1. Formed(w) /\ w.at = "applying" /\ w.list = None
    BY DEF Idle, Formed, Work, People, Audiences
  <2>2. Goto(r, w) \/ Goto(r, Idle)
    BY <1>9 DEF SetDefault
  <2> HIDE DEF w
  <2> QED
    BY <1>2, <2>1, <2>2
<1>10. ASSUME InsertItem(r) \/ ApplyAll(r) \/ Fail(r)
       PROVE  \E w : Formed(w) /\ Goto(r, w) /\ w.at = "idle" /\ w.list = None
  BY <1>2, <1>10 DEF InsertItem, ApplyAll, Fail
<1> QED
  BY <1>4, <1>5, <1>6, <1>7, <1>8, <1>9, <1>10

\* A step of request r, and a step of somebody who needs none.
RequestStep(r) ==
  \/ \E l \in Lists, n \in Names, i \in Instruments \cup {None} : Create(r, l, n, i)
  \/ InsertList(r) \/ ReadDefault(r) \/ Register(r)
  \/ \E p \in People, l \in Lists, i \in Instruments : Add(r, p, l, i)
  \/ CountItems(r) \/ InsertItem(r) \/ ApplyAll(r) \/ Fail(r)
  \/ \E to \in Audiences, applyAll \in BOOLEAN : SetDefault(r, to, applyAll)

OwnStep ==
  \/ \E l \in Lists, n \in Names : Rename(l, n)
  \/ \E l \in Lists : Remove(l)
  \/ \E p \in People, l \in Lists, i \in Instruments : Drop(p, l, i)
  \/ \E l \in Lists, to \in Audiences : SetAudience(l, to)
  \/ \E l \in Lists, f \in Friends : Share(l, f) \/ Unshare(l, f)
  \/ Erase

LEMMA StepsOfLists ==
  ASSUME Next
  PROVE  (\E r \in Requests : RequestStep(r)) \/ OwnStep
BY WatchlistsAssumption DEF Next, ListsStep, ItemsStep, RequestStep, OwnStep

\* Every step of a request keeps the types, and what the requests know.
LEMMA RequestTypes ==
  ASSUME TypeOK, WorkFormed, NEW r \in Requests, RequestStep(r)
  PROVE  TypeOK' /\ WorkFormed'
<1>1. PICK w : Formed(w) /\ Goto(r, w)
  BY Moves DEF RequestStep
<1>2. work' \in [Requests -> Work] /\ WorkFormed'
  <2>1. w \in Work
    BY <1>1 DEF Formed
  <2>2. work' \in [Requests -> Work]
    BY <1>1, <2>1 DEF Goto, TypeOK
  <2> QED
    BY <1>1, <2>2, GoesTo DEF WorkFormed
<1>3. TypeOK'
  <2> USE DEF TypeOK
  <2>1. ASSUME NEW l \in Lists, NEW n \in Names, NEW i \in Instruments \cup {None}, Create(r, l, n, i)
        PROVE  TypeOK'
    BY <1>2, <2>1 DEF Create
  <2>2. CASE InsertList(r)
    <3>1. work[r].name \in Names /\ work[r].list \in Lists
      BY <2>2, AtWork DEF InsertList
    <3> QED
      BY <1>2, <2>2, <3>1 DEF InsertList
  <2>3. CASE ReadDefault(r) \/ CountItems(r) \/ Fail(r)
    BY <1>2, <2>3 DEF ReadDefault, CountItems, Fail
  <2>4. CASE Register(r)
    <3>1. audience' \in [Lists -> Audiences \cup {None}]
      BY <2>4, AtWork DEF Register
    <3> QED
      BY <1>2, <2>4, <3>1 DEF Register
  <2>5. ASSUME NEW p \in People, NEW l \in Lists, NEW i \in Instruments, Add(r, p, l, i)
        PROVE  TypeOK'
    BY <1>2, <2>5 DEF Add
  <2>6. CASE InsertItem(r)
    <3>1. items' \in [Lists -> SUBSET Instruments]
      BY <2>6, AtWork DEF InsertItem
    <3> QED
      BY <1>2, <2>6, <3>1 DEF InsertItem
  <2>7. CASE ApplyAll(r)
    <3>1. audience' \in [Lists -> Audiences \cup {None}]
      BY <2>7, AtWork DEF ApplyAll
    <3> QED
      BY <1>2, <2>7, <3>1 DEF ApplyAll
  <2>8. ASSUME NEW to \in Audiences, NEW applyAll \in BOOLEAN, SetDefault(r, to, applyAll)
        PROVE  TypeOK'
    BY <1>2, <2>8 DEF SetDefault
  <2> QED
    BY <2>1, <2>2, <2>3, <2>4, <2>5, <2>6, <2>7, <2>8 DEF RequestStep
<1> QED
  BY <1>2, <1>3

\* Those who need no request change no request.
LEMMA OwnTypes ==
  ASSUME TypeOK, WorkFormed, OwnStep
  PROVE  TypeOK' /\ WorkFormed' /\ work' = work
<1> USE DEF TypeOK
<1>1. work' = work
  BY DEF OwnStep, Rename, Remove, Drop, SetAudience, Share, Unshare, Erase
<1>2. ASSUME NEW l \in Lists, NEW n \in Names, Rename(l, n) PROVE TypeOK'
  BY <1>2 DEF Rename
<1>3. ASSUME NEW l \in Lists, Remove(l) PROVE TypeOK'
  <2>1. /\ lists' \in [Lists -> Names \cup {None}] /\ items' \in [Lists -> SUBSET Instruments]
        /\ audience' \in [Lists -> Audiences \cup {None}] /\ members' \in [Lists -> SUBSET Friends]
        /\ raced' \subseteq Lists
    BY <1>3 DEF Remove, Without, AtWorkOn
  <2> QED
    BY <1>3, <2>1 DEF Remove
<1>4. ASSUME NEW p \in People, NEW l \in Lists, NEW i \in Instruments, Drop(p, l, i) PROVE TypeOK'
  BY <1>4 DEF Drop
<1>5. ASSUME NEW l \in Lists, NEW to \in Audiences, SetAudience(l, to) PROVE TypeOK'
  BY <1>5 DEF SetAudience
<1>6. ASSUME NEW l \in Lists, NEW f \in Friends, Share(l, f) \/ Unshare(l, f) PROVE TypeOK'
  BY <1>6 DEF Share, Unshare
<1>7. ASSUME Erase PROVE TypeOK'
  <2>1. /\ lists' \in [Lists -> Names \cup {None}] /\ items' \in [Lists -> SUBSET Instruments]
        /\ audience' \in [Lists -> Audiences \cup {None}] /\ members' \in [Lists -> SUBSET Friends]
    BY <1>7 DEF Erase
  <2>2. raced' \subseteq Lists /\ default' \in Audiences /\ erased' \in BOOLEAN
    BY <1>7 DEF Erase, FirstDelivery, AtWorkOn, Audiences
  <2>3. UNCHANGED <<used, work, granted>>
    BY <1>7 DEF Erase
  <2> QED
    BY <2>1, <2>2, <2>3
<1>8. WorkFormed'
  BY <1>1 DEF WorkFormed
<1> QED
  BY <1>1, <1>2, <1>3, <1>4, <1>5, <1>6, <1>7, <1>8 DEF OwnStep

------------------------------------------------------------------------------
(* Watchlists: the limits *)

\* Sets of requests, lists and instruments are finite; one more or less counts for one.
LEMMA FiniteCounts ==
  /\ \A S \in SUBSET Requests : Cardinality(S) \in Nat /\ Cardinality(S) <= Cardinality(Requests)
  /\ \A S \in SUBSET Requests : \A r \in S : Cardinality(S \ {r}) = Cardinality(S) - 1
  /\ \A S, T \in SUBSET Requests : S \in SUBSET T => Cardinality(S) <= Cardinality(T)
  /\ \A S \in SUBSET Lists : Cardinality(S) \in Nat
  /\ \A S, T \in SUBSET Lists : S \in SUBSET T => Cardinality(S) <= Cardinality(T)
  /\ \A S, T \in SUBSET Lists : \A l : S \in SUBSET (T \cup {l}) => Cardinality(S) <= Cardinality(T) + 1
  /\ \A S \in SUBSET Instruments : Cardinality(S) \in Nat
  /\ \A S, T \in SUBSET Instruments : S \in SUBSET T => Cardinality(S) <= Cardinality(T)
  /\ \A S, T \in SUBSET Instruments : \A i : S \in SUBSET (T \cup {i}) => Cardinality(S) <= Cardinality(T) + 1
<1>1. ASSUME NEW A, IsFiniteSet(A), NEW S \in SUBSET A
      PROVE  /\ IsFiniteSet(S) /\ Cardinality(S) \in Nat /\ Cardinality(S) <= Cardinality(A)
             /\ \A r \in S : Cardinality(S \ {r}) = Cardinality(S) - 1
  BY <1>1, FS_Subset, FS_CardinalityType, FS_RemoveElement
<1>2. ASSUME NEW A, IsFiniteSet(A), NEW S \in SUBSET A, NEW T \in SUBSET A, S \in SUBSET T
      PROVE  Cardinality(S) <= Cardinality(T)
  BY <1>1, <1>2, FS_Subset
<1>3. ASSUME NEW A, IsFiniteSet(A), NEW S \in SUBSET A, NEW T \in SUBSET A, NEW x,
             S \in SUBSET (T \cup {x})
      PROVE  Cardinality(S) <= Cardinality(T) + 1
  <2>1. IsFiniteSet(T) /\ Cardinality(T) \in Nat /\ Cardinality(S) \in Nat
    BY <1>1, <1>3
  <2>2. IsFiniteSet(T \cup {x}) /\ Cardinality(T \cup {x}) <= Cardinality(T) + 1
    <3>1. /\ IsFiniteSet(T \cup {x})
          /\ Cardinality(T \cup {x}) = Cardinality(T) \/ Cardinality(T \cup {x}) = Cardinality(T) + 1
      BY <2>1, FS_AddElement, Zenon
    <3> QED
      BY <2>1, <3>1
  <2>3. Cardinality(S) <= Cardinality(T \cup {x}) /\ Cardinality(T \cup {x}) \in Nat
    BY <1>3, <2>2, FS_Subset, FS_CardinalityType
  <2> QED
    BY <2>1, <2>2, <2>3
<1>4. IsFiniteSet(Requests) /\ IsFiniteSet(Lists) /\ IsFiniteSet(Instruments)
  BY WatchlistsAssumption
<1>5. ASSUME NEW A, IsFiniteSet(A)
      PROVE  /\ \A S \in SUBSET A : Cardinality(S) \in Nat /\ Cardinality(S) <= Cardinality(A)
             /\ \A S \in SUBSET A : \A r \in S : Cardinality(S \ {r}) = Cardinality(S) - 1
             /\ \A S, T \in SUBSET A : S \in SUBSET T => Cardinality(S) <= Cardinality(T)
             /\ \A S, T \in SUBSET A : \A x :
                  S \in SUBSET (T \cup {x}) => Cardinality(S) <= Cardinality(T) + 1
  BY <1>1, <1>2, <1>3, <1>5
<1>6. /\ \A S \in SUBSET Requests : Cardinality(S) \in Nat /\ Cardinality(S) <= Cardinality(Requests)
      /\ \A S \in SUBSET Requests : \A r \in S : Cardinality(S \ {r}) = Cardinality(S) - 1
      /\ \A S, T \in SUBSET Requests : S \in SUBSET T => Cardinality(S) <= Cardinality(T)
  BY <1>4, <1>5
<1>7. /\ \A S \in SUBSET Lists : Cardinality(S) \in Nat
      /\ \A S, T \in SUBSET Lists : S \in SUBSET T => Cardinality(S) <= Cardinality(T)
      /\ \A S, T \in SUBSET Lists : \A l : S \in SUBSET (T \cup {l}) => Cardinality(S) <= Cardinality(T) + 1
  BY <1>4, <1>5
<1>8. /\ \A S \in SUBSET Instruments : Cardinality(S) \in Nat
      /\ \A S, T \in SUBSET Instruments : S \in SUBSET T => Cardinality(S) <= Cardinality(T)
      /\ \A S, T \in SUBSET Instruments : \A i :
           S \in SUBSET (T \cup {i}) => Cardinality(S) <= Cardinality(T) + 1
  BY <1>4, <1>5
<1> QED
  BY <1>6, <1>7, <1>8

\* No list is made and none fills up: room that was counted stays.
LEMMA ShrinksCounted ==
  ASSUME ListsInv, TypeOK', Kept' \in SUBSET Kept, Naming' \in SUBSET Naming,
         \A l \in Lists : items'[l] \in SUBSET items[l] /\ Fitting(l)' \in SUBSET Fitting(l)
  PROVE  Counted'
<1>1. /\ MaxLists \in Nat /\ MaxItems \in Nat /\ Cardinality(Requests) \in Nat
  BY WatchlistsAssumption, FiniteCounts
<1>2. /\ Kept \in SUBSET Lists /\ Kept' \in SUBSET Lists
      /\ Naming \in SUBSET Requests /\ Naming' \in SUBSET Requests
      /\ \A l \in Lists : /\ Fitting(l) \in SUBSET Requests /\ Fitting(l)' \in SUBSET Requests
                          /\ items[l] \in SUBSET Instruments /\ items'[l] \in SUBSET Instruments
  BY DEF Kept, Naming, Fitting, ListsInv, TypeOK
<1>3. /\ Cardinality(Kept') <= Cardinality(Kept) /\ Cardinality(Naming') <= Cardinality(Naming)
      /\ Cardinality(Kept) \in Nat /\ Cardinality(Naming) \in Nat
      /\ Cardinality(Kept') \in Nat /\ Cardinality(Naming') \in Nat
  BY <1>2, FiniteCounts
<1>4. \A l \in Lists :
        /\ Cardinality(items'[l]) <= Cardinality(items[l])
        /\ Cardinality(Fitting(l)') <= Cardinality(Fitting(l))
        /\ Cardinality(items[l]) \in Nat /\ Cardinality(Fitting(l)) \in Nat
        /\ Cardinality(items'[l]) \in Nat /\ Cardinality(Fitting(l)') \in Nat
  BY <1>2, FiniteCounts
<1>5. Cardinality(Kept') + Cardinality(Naming') < MaxLists + Cardinality(Requests)
  BY <1>1, <1>3 DEF ListsInv, Counted
<1>6. \A l \in Lists :
        Cardinality(items'[l]) + Cardinality(Fitting(l)') < MaxItems + Cardinality(Requests)
  <2> TAKE l \in Lists
  <2>1. Cardinality(items[l]) + Cardinality(Fitting(l)) < MaxItems + Cardinality(Requests)
    BY DEF ListsInv, Counted
  <2> QED
    BY <1>1, <1>4, <2>1
<1> QED
  BY <1>5, <1>6 DEF Counted

\* A list is counted before it is inserted (create).
LEMMA ListsCounted ==
  ASSUME ListsInv, TypeOK', NEW r \in Requests,
         \/ \E l \in Lists, n \in Names, i \in Instruments \cup {None} : Create(r, l, n, i)
         \/ InsertList(r)
  PROVE  Counted'
<1> USE DEF ListsInv
<1>1. /\ MaxLists \in Nat /\ Cardinality(Requests) \in Nat
      /\ Cardinality(Kept) \in Nat /\ Cardinality(Kept') \in Nat
      /\ Cardinality(Naming) \in Nat /\ Cardinality(Naming') \in Nat
      /\ Cardinality(Naming') <= Cardinality(Requests)
      /\ Kept \in SUBSET Lists /\ Kept' \in SUBSET Lists
      /\ Naming \in SUBSET Requests /\ Naming' \in SUBSET Requests
  <2>1. /\ Kept \in SUBSET Lists /\ Kept' \in SUBSET Lists
        /\ Naming \in SUBSET Requests /\ Naming' \in SUBSET Requests
    BY DEF Kept, Naming
  <2> QED
    BY <2>1, WatchlistsAssumption, FiniteCounts
<1>2. \A q \in Requests \ {r} : work'[q] = work[q]
  BY Moves, GoesTo
<1>3. work'[r].at \in {"named", "inserted", "idle"}
  BY Moves, GoesTo
<1>4. items' = items
  BY DEF Create, InsertList
<1>5. ASSUME NEW l \in Lists
      PROVE  Cardinality(items'[l]) + Cardinality(Fitting(l)') < MaxItems + Cardinality(Requests)
  <2>1. Fitting(l)' = Fitting(l)
    <3>1. work[r].at # "fits"
      BY DEF Create, Ready, InsertList
    <3> QED
      BY <1>2, <1>3, <3>1 DEF Fitting
  <2> QED
    BY <1>4, <2>1 DEF Counted
<1>6. ASSUME NEW l \in Lists, NEW n \in Names, NEW i \in Instruments \cup {None}, Create(r, l, n, i)
      PROVE  Cardinality(Kept') + Cardinality(Naming') < MaxLists + Cardinality(Requests)
  <2>1. Kept' = Kept /\ Cardinality(Kept) < MaxLists
    BY <1>6 DEF Create, Kept
  <2> QED
    BY <1>1, <2>1
<1>7. CASE InsertList(r)
  <2>1. r \in Naming
    BY <1>7 DEF InsertList, Naming
  <2>2. work'[r].at # "named"
    BY <1>7, Moves, GoesTo
  <2>3. Naming' = Naming \ {r}
    BY <1>2, <2>2 DEF Naming
  <2>4. Kept' \in SUBSET (Kept \cup {work[r].list})
    BY <1>7 DEF InsertList, Kept, TypeOK
  <2>5. Cardinality(Kept') <= Cardinality(Kept) + 1
    BY <1>1, <2>4, FiniteCounts
  <2>6. Cardinality(Naming') = Cardinality(Naming) - 1
    BY <1>1, <2>1, <2>3, FiniteCounts
  <2>7. Cardinality(Kept) + Cardinality(Naming) < MaxLists + Cardinality(Requests)
    BY DEF Counted
  <2> HIDE DEF ListsInv
  <2>8. Cardinality(Kept') + Cardinality(Naming') < MaxLists + Cardinality(Requests)
    BY <1>1, <2>5, <2>6, <2>7
  <2> QED
    BY <1>5, <2>8 DEF Counted
<1> QED
  BY <1>5, <1>6, <1>7 DEF Counted

\* An instrument is counted before it is inserted (add).
LEMMA ItemsCounted ==
  ASSUME ListsInv, TypeOK', NEW r \in Requests, CountItems(r) \/ InsertItem(r)
  PROVE  Counted'
<1> USE DEF ListsInv
<1>1. \A q \in Requests \ {r} : work'[q] = work[q]
  BY Moves, GoesTo
<1>2. /\ lists' = lists /\ work[r].at # "named" /\ work'[r].at # "named"
      /\ work[r].list \in Lists
  <2>1. work'[r].at # "named"
    BY Moves, GoesTo
  <2> QED
    BY <2>1, AtWork DEF CountItems, InsertItem
<1>3. Kept' = Kept /\ Naming' = Naming
  BY <1>1, <1>2 DEF Kept, Naming
<1>4. ASSUME NEW l \in Lists
      PROVE  Cardinality(items'[l]) + Cardinality(Fitting(l)') < MaxItems + Cardinality(Requests)
  <2>1. /\ Fitting(l) \in SUBSET Requests /\ Fitting(l)' \in SUBSET Requests
        /\ items[l] \in SUBSET Instruments /\ items'[l] \in SUBSET Instruments
    BY DEF Fitting, TypeOK
  <2>2. /\ MaxItems \in Nat /\ Cardinality(Requests) \in Nat
        /\ Cardinality(items[l]) \in Nat /\ Cardinality(items'[l]) \in Nat
        /\ Cardinality(Fitting(l)) \in Nat /\ Cardinality(Fitting(l)') \in Nat
        /\ Cardinality(Fitting(l)') <= Cardinality(Requests)
    BY <2>1, WatchlistsAssumption, FiniteCounts
  <2>3. Cardinality(items[l]) + Cardinality(Fitting(l)) < MaxItems + Cardinality(Requests)
    BY DEF Counted
  <2>4. CASE l # work[r].list
    <3>1. work'[r].list = work[r].list \/ work'[r].at = "idle"
      BY Moves, GoesTo
    <3>2. Fitting(l)' = Fitting(l) \/ Fitting(l)' = Fitting(l) \ {r}
      BY <1>1, <2>4, <3>1 DEF Fitting
    <3>3. r \notin Fitting(l)
      BY <2>4 DEF Fitting
    <3>4. items'[l] = items[l]
      BY <2>4 DEF CountItems, InsertItem, TypeOK
    <3> QED
      BY <2>3, <3>2, <3>3, <3>4
  <2>5. CASE l = work[r].list /\ CountItems(r)
    <3>1. items' = items /\ Cardinality(items[l]) < MaxItems
      BY <2>5 DEF CountItems
    <3> QED
      BY <2>2, <3>1
  <2>6. CASE l = work[r].list /\ InsertItem(r)
    <3>1. r \in Fitting(l)
      BY <2>6 DEF InsertItem, Fitting
    <3>2. work'[r].at = "idle"
      BY <2>6, Moves, GoesTo
    <3>3. Fitting(l)' = Fitting(l) \ {r}
      BY <1>1, <3>2, <3>1 DEF Fitting
    <3>4. items'[l] \in SUBSET (items[l] \cup {work[r].item})
      BY <2>6 DEF InsertItem, TypeOK
    <3>5. Cardinality(items'[l]) <= Cardinality(items[l]) + 1
      BY <2>1, <3>4, FiniteCounts
    <3>6. Cardinality(Fitting(l)') = Cardinality(Fitting(l)) - 1
      BY <2>1, <3>1, <3>3, FiniteCounts
    <3> QED
      BY <2>2, <2>3, <3>5, <3>6
  <2> QED
    BY <2>4, <2>5, <2>6
<1> QED
  BY <1>3, <1>4 DEF Counted

\* Every other step makes no list and fills none.
LEMMA CountedKept ==
  ASSUME ListsInv, TypeOK', Next
  PROVE  Counted'
<1> USE DEF ListsInv
<1>1. ASSUME NEW r \in Requests, RequestStep(r) PROVE Counted'
  <2>1. CASE \/ \E l \in Lists, n \in Names, i \in Instruments \cup {None} : Create(r, l, n, i)
             \/ InsertList(r)
    BY <2>1, ListsCounted
  <2>2. CASE CountItems(r) \/ InsertItem(r)
    BY <2>2, ItemsCounted
  <2>3. CASE \/ ReadDefault(r) \/ Register(r) \/ ApplyAll(r) \/ Fail(r)
             \/ \E p \in People, l \in Lists, i \in Instruments : Add(r, p, l, i)
             \/ \E to \in Audiences, applyAll \in BOOLEAN : SetDefault(r, to, applyAll)
    <3>1. /\ \A q \in Requests \ {r} : work'[q] = work[q]
          /\ work'[r].at \in {"idle", "defaulted", "viewed", "applying"}
      <4>1. ReadDefault(r) => work[r].at = "inserted"
        BY DEF ReadDefault
      <4> QED
        BY <2>3, <4>1, Moves, GoesTo
    <3>2. UNCHANGED <<lists, items>>
      BY <2>3 DEF ReadDefault, Register, ApplyAll, Fail, Add, SetDefault
    <3>3. Naming' \in SUBSET Naming /\ \A l \in Lists : Fitting(l)' \in SUBSET Fitting(l)
      BY <3>1 DEF Naming, Fitting
    <3> QED
      BY <3>2, <3>3, ShrinksCounted DEF Kept
  <2> QED
    BY <1>1, <2>1, <2>2, <2>3 DEF RequestStep
<1>2. ASSUME OwnStep PROVE Counted'
  <2>1. work' = work
    BY <1>2, OwnTypes
  <2>2. Naming' = Naming /\ \A l \in Lists : Fitting(l)' = Fitting(l)
    BY <2>1 DEF Naming, Fitting
  <2>3. Kept' \in SUBSET Kept /\ \A l \in Lists : items'[l] \in SUBSET items[l]
    <3>1. ASSUME NEW k \in Lists, NEW n \in Names, Rename(k, n)
          PROVE  Kept' \in SUBSET Kept /\ items' = items
      BY <3>1 DEF Rename, Kept, TypeOK
    <3>2. ASSUME NEW k \in Lists, Remove(k)
          PROVE  Kept' \in SUBSET Kept /\ \A l \in Lists : items'[l] \in SUBSET items[l]
      BY <3>2 DEF Remove, Without, Kept, TypeOK
    <3>3. ASSUME NEW p \in People, NEW k \in Lists, NEW i \in Instruments, Drop(p, k, i)
          PROVE  Kept' = Kept /\ \A l \in Lists : items'[l] \in SUBSET items[l]
      BY <3>3 DEF Drop, Kept, TypeOK
    <3>4. ASSUME NEW k \in Lists, NEW to \in Audiences, SetAudience(k, to)
          PROVE  Kept' = Kept /\ items' = items
      BY <3>4 DEF SetAudience, Kept
    <3>5. ASSUME NEW k \in Lists, NEW f \in Friends, Share(k, f) \/ Unshare(k, f)
          PROVE  Kept' = Kept /\ items' = items
      BY <3>5 DEF Share, Unshare, Kept
    <3>6. ASSUME Erase
          PROVE  Kept' = {} /\ \A l \in Lists : items'[l] = {}
      BY <3>6 DEF Erase, Kept
    <3> QED
      BY <1>2, <3>1, <3>2, <3>3, <3>4, <3>5, <3>6 DEF OwnStep
  <2> QED
    BY <2>2, <2>3, ShrinksCounted
<1> QED
  BY <1>1, <1>2, StepsOfLists

------------------------------------------------------------------------------
(* Watchlists: what is left behind, and who adds *)

\* The steps of the requests (create, register, add, applyAll).
LEMMA RequestLeaves ==
  ASSUME ListsInv, NEW r \in Requests, RequestStep(r)
  PROVE  WorkOnKept'
<1> USE DEF ListsInv
<1>1. /\ lists \in [Lists -> Names \cup {None}] /\ items \in [Lists -> SUBSET Instruments]
      /\ audience \in [Lists -> Audiences \cup {None}] /\ None \notin Names
  BY WatchlistsAssumption DEF TypeOK
<1>2. \A q \in Requests \ {r} : work'[q] = work[q]
  BY Moves, GoesTo DEF RequestStep
<1>3. UNCHANGED <<members, erased, raced>>
  BY DEF RequestStep, Create, InsertList, ReadDefault, Register, Add, CountItems, InsertItem,
         ApplyAll, Fail, SetDefault
\* The request goes on with its list, or with none; its rows are for a list that is kept.
<1>4. ASSUME lists' = lists,
             \/ work'[r].list = None
             \/ work'[r].list = work[r].list /\ (work[r].at = "named" => work'[r].at = "named")
             \/ ~erased /\ work'[r].at = "named"
             \/ work'[r].list \in Kept,
             \A l \in Lists \ raced : l \notin Kept => items'[l] = items[l] /\ audience'[l] = audience[l]
      PROVE  WorkOnKept'
  <2>1. Kept' = Kept
    BY <1>4 DEF Kept
  <2> SUFFICES ASSUME NEW l \in Lists \ raced
               PROVE  /\ \A q \in Requests :
                           work'[q].list = l => ~erased /\ (work'[q].at # "named" => l \in Kept)
                      /\ l \in Kept => ~erased
                      /\ l \notin Kept => items'[l] = {} /\ audience'[l] = None /\ members[l] = {}
    BY <1>3, <2>1 DEF WorkOnKept
  <2>2. /\ \A q \in Requests :
             work[q].list = l => ~erased /\ (work[q].at # "named" => l \in Kept)
        /\ l \in Kept => ~erased
        /\ l \notin Kept => items[l] = {} /\ audience[l] = None /\ members[l] = {}
    BY DEF WorkOnKept
  <2>3. l # None
    BY WatchlistsAssumption
  <2>4. ASSUME NEW q \in Requests, work'[q].list = l
        PROVE  ~erased /\ (work'[q].at # "named" => l \in Kept)
    BY <1>2, <1>4, <2>2, <2>3, <2>4
  <2> QED
    BY <1>4, <2>2, <2>4
<1>5. ASSUME NEW l \in Lists, NEW n \in Names, NEW i \in Instruments \cup {None}, Create(r, l, n, i)
      PROVE  WorkOnKept'
  <2>1. work'[r].at = "named"
    BY <1>5, Moves, GoesTo
  <2>2. ~erased
    BY <1>5 DEF Create, Ready
  <2> QED
    BY <1>4, <1>5, <2>1, <2>2 DEF Create
<1>6. CASE InsertList(r)
  <2>1. CASE lists' = lists /\ work'[r].list = None
    BY <1>4, <1>6, <2>1 DEF InsertList
  <2>2. CASE /\ lists' = [lists EXCEPT ![work[r].list] = work[r].name]
             /\ work'[r].list = work[r].list /\ work'[r].at = "inserted"
    <3> DEFINE k == work[r].list
    <3>1. k \in Lists /\ work[r].name \in Names /\ work[r].at = "named"
      BY <1>6, AtWork DEF InsertList
    <3>2. Kept' = Kept \cup {k}
      BY <1>1, <2>2, <3>1 DEF Kept
    <3>3. UNCHANGED <<items, audience>> /\ work'[r].list = k
      BY <1>6, <2>2 DEF InsertList
    <3> SUFFICES ASSUME NEW l \in Lists \ raced
                 PROVE  /\ \A q \in Requests :
                             work'[q].list = l => ~erased /\ (work'[q].at # "named" => l \in Kept')
                        /\ l \in Kept' => ~erased
                        /\ l \notin Kept' => items[l] = {} /\ audience[l] = None /\ members[l] = {}
      BY <1>3, <3>3 DEF WorkOnKept
    <3>4. /\ \A q \in Requests :
               work[q].list = l => ~erased /\ (work[q].at # "named" => l \in Kept)
          /\ l \in Kept => ~erased
          /\ l \notin Kept => items[l] = {} /\ audience[l] = None /\ members[l] = {}
      BY DEF WorkOnKept
    <3>5. l = k => ~erased
      BY <3>4
    <3> HIDE DEF k
    <3> QED
      BY <1>2, <3>2, <3>3, <3>4, <3>5
  <2> QED
    BY <1>6, <2>1, <2>2, Moves, GoesTo
<1>7. CASE ReadDefault(r) \/ CountItems(r)
  <2>1. work'[r].list = work[r].list
    BY <1>7, Moves, GoesTo
  <2>2. work[r].at # "named"
    BY <1>7 DEF ReadDefault, CountItems
  <2> QED
    BY <1>4, <1>7, <2>1, <2>2 DEF ReadDefault, CountItems
<1>8. CASE Register(r)
  <2>1. work'[r].list = work[r].list \/ work'[r].list = None
    BY <1>8, Moves, GoesTo
  <2>2. work[r].at = "defaulted"
    BY <1>8 DEF Register
  <2>3. \A l \in Lists \ raced : l \notin Kept => audience'[l] = audience[l]
    <3>1. \A l \in Lists \ raced : l \notin Kept => l # work[r].list
      BY <2>2 DEF WorkOnKept
    <3> QED
      BY <1>1, <1>8, <3>1 DEF Register
  <2> QED
    BY <1>4, <1>8, <2>1, <2>2, <2>3 DEF Register
<1>9. ASSUME NEW p \in People, NEW l \in Lists, NEW i \in Instruments, Add(r, p, l, i)
      PROVE  WorkOnKept'
  <2>1. work'[r].list = l
    BY <1>9, Moves, GoesTo
  <2>2. l \in Kept
    BY <1>9 DEF Add, Editable, View
  <2> QED
    BY <1>4, <1>9, <2>1, <2>2 DEF Add
<1>10. CASE InsertItem(r)
  <2>1. work'[r].list = None
    BY <1>10, Moves, GoesTo
  <2>2. \A l \in Lists : l \notin Kept => items'[l] = items[l]
    BY <1>1, <1>10 DEF InsertItem
  <2> QED
    BY <1>4, <1>10, <2>1, <2>2 DEF InsertItem
<1>11. CASE ApplyAll(r)
  <2>1. work'[r].list = None
    BY <1>11, Moves, GoesTo
  <2>2. \A l \in Lists \ raced : l \notin Kept => audience'[l] = audience[l]
    BY <1>1, <1>11 DEF ApplyAll, WorkOnKept
  <2> QED
    BY <1>4, <1>11, <2>1, <2>2 DEF ApplyAll
<1>12. CASE Fail(r) \/ \E to \in Audiences, applyAll \in BOOLEAN : SetDefault(r, to, applyAll)
  <2>1. work'[r].list = None
    BY <1>12, Moves, GoesTo
  <2> QED
    BY <1>4, <1>12, <2>1 DEF Fail, SetDefault
<1> QED
  BY <1>5, <1>6, <1>7, <1>8, <1>9, <1>10, <1>11, <1>12 DEF RequestStep

\* The steps of the owner: what is removed or erased takes everything with it (forget, extraErase).
LEMMA OwnLeaves ==
  ASSUME ListsInv, OwnStep
  PROVE  WorkOnKept'
<1> USE DEF ListsInv
<1>1. /\ lists \in [Lists -> Names \cup {None}] /\ items \in [Lists -> SUBSET Instruments]
      /\ audience \in [Lists -> Audiences \cup {None}] /\ members \in [Lists -> SUBSET Friends]
      /\ None \notin Names
  BY WatchlistsAssumption DEF TypeOK
<1>2. work' = work
  BY OwnTypes
\* No list comes or goes, and those that are not kept get nothing.
<1>3. ASSUME Kept' = Kept, UNCHANGED <<erased, raced>>,
             \A l \in Lists : l \notin Kept =>
               /\ items'[l] \in SUBSET items[l] /\ audience'[l] = audience[l]
               /\ members'[l] \in SUBSET members[l]
      PROVE  WorkOnKept'
  <2>1. ASSUME NEW l \in Lists, l \notin raced
        PROVE  /\ \A q \in Requests :
                    work'[q].list = l => ~erased' /\ (work'[q].at # "named" => l \in Kept')
               /\ l \in Kept' => ~erased'
               /\ l \notin Kept' => items'[l] = {} /\ audience'[l] = None /\ members'[l] = {}
    <3>1. /\ \A q \in Requests :
               work[q].list = l => ~erased /\ (work[q].at # "named" => l \in Kept)
          /\ l \in Kept => ~erased
          /\ l \notin Kept => items[l] = {} /\ audience[l] = None /\ members[l] = {}
      BY <2>1 DEF WorkOnKept
    <3>2. l \notin Kept => items'[l] = {} /\ audience'[l] = None /\ members'[l] = {}
      BY <1>3, <3>1
    <3> QED
      BY <1>2, <1>3, <3>1, <3>2
  <2> QED
    BY <1>3, <2>1 DEF WorkOnKept
<1>4. ASSUME NEW l \in Lists, NEW n \in Names, Rename(l, n) PROVE WorkOnKept'
  <2>1. Kept' = Kept
    BY <1>1, <1>4 DEF Rename, Kept
  <2> QED
    BY <1>3, <1>4, <2>1 DEF Rename
<1>5. ASSUME NEW k \in Lists, Remove(k) PROVE WorkOnKept'
  <2>1. Kept' = Kept \ {k}
    BY <1>1, <1>5 DEF Remove, Without, Kept
  <2>2. /\ items'[k] = {} /\ audience'[k] = None /\ members'[k] = {}
        /\ \A l \in Lists \ {k} :
             items'[l] = items[l] /\ audience'[l] = audience[l] /\ members'[l] = members[l]
    BY <1>5 DEF Remove, Without
  <2>3. /\ erased' = erased /\ raced \subseteq raced'
        /\ \A r \in Requests : work[r].list = k => k \in raced'
    BY <1>5 DEF Remove, AtWorkOn
  <2> SUFFICES ASSUME NEW l \in Lists, l \notin raced'
               PROVE  /\ \A q \in Requests :
                           work[q].list = l => ~erased /\ (work[q].at # "named" => l \in Kept')
                      /\ l \in Kept' => ~erased
                      /\ l \notin Kept' => items'[l] = {} /\ audience'[l] = None /\ members'[l] = {}
    BY <1>2, <2>3 DEF WorkOnKept
  <2>4. /\ \A q \in Requests :
             work[q].list = l => ~erased /\ (work[q].at # "named" => l \in Kept)
        /\ l \in Kept => ~erased
        /\ l \notin Kept => items[l] = {} /\ audience[l] = None /\ members[l] = {}
    BY <2>3 DEF WorkOnKept
  <2> QED
    BY <2>1, <2>2, <2>3, <2>4
<1>6. ASSUME NEW p \in People, NEW l \in Lists, NEW i \in Instruments, Drop(p, l, i) PROVE WorkOnKept'
  <2>1. \A k \in Lists : items'[k] \in SUBSET items[k]
    BY <1>1, <1>6 DEF Drop
  <2>2. Kept' = Kept
    BY <1>6 DEF Drop, Kept
  <2> QED
    BY <1>3, <1>6, <2>1, <2>2 DEF Drop
<1>7. ASSUME NEW l \in Lists, NEW to \in Audiences, SetAudience(l, to) PROVE WorkOnKept'
  <2>1. Kept' = Kept /\ l \in Kept
    BY <1>7 DEF SetAudience, Kept
  <2>2. \A k \in Lists : k \notin Kept => audience'[k] = audience[k]
    BY <1>1, <1>7, <2>1 DEF SetAudience
  <2> QED
    BY <1>3, <1>7, <2>1, <2>2 DEF SetAudience
<1>8. ASSUME NEW l \in Lists, NEW f \in Friends, Share(l, f) \/ Unshare(l, f) PROVE WorkOnKept'
  <2>1. Kept' = Kept /\ UNCHANGED <<items, audience, erased, raced>>
    BY <1>8 DEF Share, Unshare, Kept
  <2>2. \A k \in Lists : k \notin Kept => members'[k] \in SUBSET members[k]
    <3>1. CASE Share(l, f)
      BY <1>1, <3>1 DEF Share
    <3>2. CASE Unshare(l, f)
      BY <1>1, <3>2 DEF Unshare
    <3> QED
      BY <1>8, <3>1, <3>2
  <2> QED
    BY <1>3, <2>1, <2>2
<1>9. CASE Erase
  <2>1. Kept' = {}
    BY <1>9 DEF Erase, Kept
  <2>2. \A l \in Lists : items'[l] = {} /\ audience'[l] = None /\ members'[l] = {}
    BY <1>9 DEF Erase
  <2>3. \A l \in Lists \ raced' : \A r \in Requests : work[r].list # l
    BY <1>9 DEF Erase, AtWorkOn
  <2> QED
    BY <1>2, <2>1, <2>2, <2>3 DEF WorkOnKept
<1> QED
  BY <1>4, <1>5, <1>6, <1>7, <1>8, <1>9 DEF OwnStep

\* Can edit is given by the owner alone, and a request that adds was looked at first (editable).
LEMMA GrantsKept ==
  ASSUME ListsInv, Next
  PROVE  EditorsGranted'
<1> USE DEF ListsInv
<1>1. ASSUME NEW r \in Requests, RequestStep(r) PROVE EditorsGranted'
  <2>1. \A q \in Requests \ {r} : work'[q] = work[q]
    BY <1>1, Moves, GoesTo DEF RequestStep
  <2>2. UNCHANGED <<members, granted>>
    BY <1>1 DEF RequestStep, Create, InsertList, ReadDefault, Register, Add, CountItems, InsertItem,
                ApplyAll, Fail, SetDefault
  <2>3. \/ work'[r].list = None \/ work'[r].who = Owner
        \/ work'[r].list = work[r].list /\ work'[r].who = work[r].who
        \/ <<work'[r].who, work'[r].list>> \in granted
    <3>1. ASSUME NEW p \in People, NEW l \in Lists, NEW i \in Instruments, Add(r, p, l, i)
          PROVE  p = Owner \/ <<p, l>> \in granted
      BY <3>1 DEF Add, Editable, CanEdit, EditorsGranted
    <3>2. CASE \E p \in People, l \in Lists, i \in Instruments : Add(r, p, l, i)
      BY <3>1, <3>2, Moves, GoesTo
    <3>3. CASE ~ \E p \in People, l \in Lists, i \in Instruments : Add(r, p, l, i)
      BY <1>1, <3>3, Moves, GoesTo DEF RequestStep
    <3> QED
      BY <3>2, <3>3
  <2> QED
    BY <2>1, <2>2, <2>3 DEF EditorsGranted
<1>2. ASSUME OwnStep PROVE EditorsGranted'
  <2>1. work' = work
    BY <1>2, OwnTypes
  <2>2. granted \subseteq granted'
    BY <1>2 DEF OwnStep, Rename, Remove, Drop, SetAudience, Share, Unshare, Erase
  <2>3. \A l \in Lists : \A f \in members'[l] : <<f, l>> \in granted'
    <3>1. ASSUME NEW k \in Lists, NEW g \in Friends, Share(k, g) \/ Unshare(k, g)
          PROVE  \A l \in Lists : \A f \in members'[l] : <<f, l>> \in granted'
      <4>1. CASE Share(k, g)
        <5>1. granted' = granted \cup {<<g, k>>} /\ members' = [members EXCEPT ![k] = @ \cup {g}]
          BY <4>1 DEF Share
        <5> QED
          BY <5>1 DEF EditorsGranted, TypeOK
      <4>2. CASE Unshare(k, g)
        <5>1. granted' = granted /\ members' = [members EXCEPT ![k] = @ \ {g}]
          BY <4>2 DEF Unshare
        <5> QED
          BY <5>1 DEF EditorsGranted, TypeOK
      <4> QED
        BY <3>1, <4>1, <4>2
    <3>2. ASSUME NEW k \in Lists, Remove(k)
          PROVE  \A l \in Lists : \A f \in members'[l] : <<f, l>> \in granted'
      BY <3>2 DEF Remove, Without, EditorsGranted
    <3>3. CASE Erase
      BY <3>3 DEF Erase
    <3>4. CASE UNCHANGED <<members, granted>>
      BY <3>4 DEF EditorsGranted
    <3> QED
      BY <1>2, <3>1, <3>2, <3>3, <3>4 DEF OwnStep, Rename, Drop, SetAudience
  <2> QED
    BY <2>1, <2>2, <2>3 DEF EditorsGranted
<1> QED
  BY <1>1, <1>2, StepsOfLists

LEMMA AlwaysListsInv == Spec => []ListsInv
<1>1. Init => ListsInv
  <2> SUFFICES ASSUME Init PROVE ListsInv
    OBVIOUS
  <2>1. TypeOK /\ WorkFormed
    BY DEF Init, TypeOK, WorkFormed, Formed, Idle, Work, People, Audiences
  <2>2. Counted
    <3>1. /\ Kept = {} /\ Naming = {} /\ \A l \in Lists : items[l] = {} /\ Fitting(l) = {}
      BY DEF Init, Kept, Naming, Fitting, Idle
    <3>2. Cardinality({}) = 0 /\ Cardinality(Requests) \in Nat
      BY FS_EmptySet, FiniteCounts
    <3> QED
      BY <3>1, <3>2, WatchlistsAssumption DEF Counted
  <2>3. WorkOnKept /\ EditorsGranted
    BY WatchlistsAssumption DEF Init, WorkOnKept, EditorsGranted, Kept, Idle
  <2> QED
    BY <2>1, <2>2, <2>3 DEF ListsInv
<1>2. ListsInv /\ [Next]_vars => ListsInv'
  <2> SUFFICES ASSUME ListsInv, [Next]_vars PROVE ListsInv'
    OBVIOUS
  <2>1. CASE Next
    <3>1. TypeOK' /\ WorkFormed'
      BY <2>1, StepsOfLists, RequestTypes, OwnTypes DEF ListsInv
    <3> QED
      BY <2>1, <3>1, StepsOfLists, CountedKept, RequestLeaves, OwnLeaves, GrantsKept DEF ListsInv
  <2>2. CASE UNCHANGED vars
    BY <2>2 DEF vars, ListsInv, TypeOK, WorkFormed, Counted, WorkOnKept, EditorsGranted, Kept,
                Naming, Fitting
  <2> QED
    BY <2>1, <2>2
<1> QED
  BY <1>1, <1>2, PTL DEF Spec

\* Every variable keeps its type: no step writes a row of a list, name or instrument it has not.
THEOREM TypeCorrect == Spec => []TypeOK
<1>1. ListsInv => TypeOK
  BY DEF ListsInv
<1> QED
  BY <1>1, AlwaysListsInv, PTL

\* However many requests count at once, each passes a limit by one at most (create, add).
THEOREM LimitsSafe == Spec => []LimitsBounded
<1>1. ListsInv => LimitsBounded
  <2> SUFFICES ASSUME ListsInv PROVE LimitsBounded
    OBVIOUS
  <2>1. /\ Cardinality(Kept) \in Nat /\ Cardinality(Naming) \in Nat
        /\ \A l \in Lists : Cardinality(items[l]) \in Nat /\ Cardinality(Fitting(l)) \in Nat
    <3>1. /\ Kept \in SUBSET Lists /\ Naming \in SUBSET Requests
          /\ \A l \in Lists : items[l] \in SUBSET Instruments /\ Fitting(l) \in SUBSET Requests
      BY DEF ListsInv, TypeOK, Kept, Naming, Fitting
    <3> QED
      BY <3>1, FiniteCounts
  <2>2. MaxLists \in Nat /\ MaxItems \in Nat /\ Cardinality(Requests) \in Nat
    BY WatchlistsAssumption, FiniteCounts
  <2>3. Counted
    BY DEF ListsInv
  <2> QED
    BY <2>1, <2>2, <2>3 DEF Counted, LimitsBounded
<1> QED
  BY <1>1, AlwaysListsInv, PTL

\* A removed list and an erased account leave nothing, but for lists that a request was at work
\* on when they went (forget, extraErase).
THEOREM NothingLeft == Spec => []NothingOutlives
<1>1. ListsInv => NothingOutlives
  BY DEF ListsInv, WorkOnKept, NothingOutlives
<1> QED
  BY <1>1, AlwaysListsInv, PTL

\* Only the owner and those the owner gave Can edit on a list ever add to it, although a request
\* looks, counts and inserts in steps of their own (editable, add).
THEOREM EditsSafe == Spec => EditsAreGranted
<1> DEFINE Granted ==
      \A l \in Lists : items'[l] \subseteq items[l] \/ \E r \in Requests :
        work[r].list = l /\ (work[r].who = Owner \/ <<work[r].who, l>> \in granted)
<1>1. ListsInv /\ [Next]_vars => [Granted]_vars
  <2> SUFFICES ASSUME ListsInv, Next PROVE Granted
    OBVIOUS
  <2>1. ASSUME NEW r \in Requests, InsertItem(r) PROVE Granted
    <3>1. work[r].list \in Lists /\ work[r].list # None
      BY <2>1, AtWork, WatchlistsAssumption DEF InsertItem, ListsInv
    <3>2. work[r].who = Owner \/ <<work[r].who, work[r].list>> \in granted
      BY <3>1 DEF ListsInv, EditorsGranted
    <3>3. \A l \in Lists \ {work[r].list} : items'[l] = items[l]
      BY <2>1 DEF InsertItem, ListsInv, TypeOK
    <3> QED
      BY <3>1, <3>2, <3>3
  <2>2. ASSUME NEW r \in Requests, RequestStep(r), ~InsertItem(r) PROVE Granted
    <3>1. items' = items
      BY <2>2 DEF RequestStep, Create, InsertList, ReadDefault, Register, Add, CountItems,
                  ApplyAll, Fail, SetDefault
    <3> QED
      BY <3>1
  <2>3. ASSUME OwnStep PROVE Granted
    <3>1. \A l \in Lists : items'[l] \subseteq items[l]
      <4>1. ASSUME NEW k \in Lists, Remove(k) PROVE \A l \in Lists : items'[l] \subseteq items[l]
        BY <4>1 DEF Remove, Without
      <4>2. ASSUME NEW p \in People, NEW k \in Lists, NEW i \in Instruments, Drop(p, k, i)
            PROVE  \A l \in Lists : items'[l] \subseteq items[l]
        BY <4>2 DEF Drop, ListsInv, TypeOK
      <4>3. CASE Erase
        BY <4>3 DEF Erase
      <4> QED
        BY <2>3, <4>1, <4>2, <4>3 DEF OwnStep, Rename, SetAudience, Share, Unshare
    <3> QED
      BY <3>1
  <2> QED
    BY <2>1, <2>2, <2>3, StepsOfLists
<1> QED
  BY <1>1, AlwaysListsInv, PTL DEF Spec, EditsAreGranted

------------------------------------------------------------------------------
(* Serving: the entries of the cache *)

\* One entry for a key, the last written last.
Ordered(s) ==
  \A i, j \in DOMAIN s : i < j => s[i].key # s[j].key /\ s[i].at <= s[j].at

\* A sequence without its element i is in the order it was.
LEMMA Removal ==
  ASSUME NEW S, NEW s \in Seq(S), NEW i \in 1 .. Len(s),
         NEW rest, rest = SubSeq(s, 1, i - 1) \o SubSeq(s, i + 1, Len(s))
  PROVE  /\ rest \in Seq(S) /\ Len(rest) = Len(s) - 1
         /\ \A j \in 1 .. Len(s) - 1 : rest[j] = IF j < i THEN s[j] ELSE s[j + 1]
<1> DEFINE a == SubSeq(s, 1, i - 1)
           b == SubSeq(s, i + 1, Len(s))
<1>1. Len(s) \in Nat /\ i \in Nat /\ 1 <= i /\ i <= Len(s)
  OBVIOUS
<1>2. a \in Seq(S) /\ Len(a) = i - 1 /\ \A j \in 1 .. i - 1 : a[j] = s[j]
  BY <1>1, SubSeqProperties
<1>3. b \in Seq(S) /\ Len(b) = Len(s) - i /\ \A j \in 1 .. Len(s) - i : b[j] = s[i + j]
  BY <1>1, SubSeqProperties
<1> HIDE DEF a, b
<1>4. /\ a \o b \in Seq(S) /\ Len(a \o b) = Len(s) - 1
      /\ \A j \in 1 .. Len(s) - 1 : (a \o b)[j] = IF j <= i - 1 THEN a[j] ELSE b[j - (i - 1)]
  <2>1. /\ a \o b \in Seq(S) /\ Len(a \o b) = Len(a) + Len(b)
        /\ \A j \in 1 .. Len(a) + Len(b) :
             (a \o b)[j] = IF j <= Len(a) THEN a[j] ELSE b[j - Len(a)]
    BY <1>2, <1>3, ConcatProperties
  <2>2. Len(a) + Len(b) = Len(s) - 1
    BY <1>1, <1>2, <1>3
  <2> QED
    BY <1>2, <2>1, <2>2
<1>5. ASSUME NEW j \in 1 .. Len(s) - 1
      PROVE  (a \o b)[j] = IF j < i THEN s[j] ELSE s[j + 1]
  <2>1. CASE j < i
    BY <1>1, <1>2, <1>4, <2>1
  <2>2. CASE ~(j < i)
    <3>1. j - (i - 1) \in 1 .. Len(s) - i /\ i + (j - (i - 1)) = j + 1
      BY <1>1, <2>2
    <3>2. (a \o b)[j] = b[j - (i - 1)]
      <4>1. ~(j <= i - 1)
        BY <1>1, <2>2
      <4> QED
        BY <1>4, <4>1
    <3> QED
      BY <1>3, <2>2, <3>1, <3>2
  <2> QED
    BY <2>1, <2>2
<1> QED
  BY <1>4, <1>5 DEF a, b

\* The entries but that of k are in the order they were (ttl-cache.js, get).
LEMMA OthersKeep ==
  ASSUME entries \in Seq(Entry), Ordered(entries), NEW k
  PROVE  /\ Others(k) \in Seq(Entry) /\ Len(Others(k)) <= Len(entries)
         /\ Ordered(Others(k))
         /\ \A j \in DOMAIN Others(k) :
              Others(k)[j].key # k /\ \E i \in DOMAIN entries : Others(k)[j] = entries[i]
<1>1. CASE ~Holds(k)
  BY <1>1 DEF Others, Holds
<1>2. CASE Holds(k)
  <2> DEFINE i == PlaceOf(k)
             s == Others(k)
  <2>1. i \in 1 .. Len(entries) /\ entries[i].key = k
    BY <1>2 DEF Holds, PlaceOf
  <2>2. s = SubSeq(entries, 1, i - 1) \o SubSeq(entries, i + 1, Len(entries))
    BY <1>2 DEF Others
  <2>3. /\ s \in Seq(Entry) /\ Len(s) = Len(entries) - 1
        /\ \A j \in 1 .. Len(entries) - 1 : s[j] = IF j < i THEN entries[j] ELSE entries[j + 1]
    BY <2>1, <2>2, Removal
  <2> HIDE DEF i, s
  <2>4. /\ DOMAIN s = 1 .. Len(entries) - 1 /\ DOMAIN entries = 1 .. Len(entries)
        /\ Len(entries) \in Nat /\ i \in Nat
    BY <2>1, <2>3
  <2>5. ASSUME NEW j \in DOMAIN s
        PROVE  s[j].key # k /\ \E n \in DOMAIN entries : s[j] = entries[n]
    <3>1. CASE j < i
      BY <2>1, <2>3, <2>4, <3>1 DEF Ordered
    <3>2. CASE ~(j < i)
      <4>1. j + 1 \in DOMAIN entries /\ i < j + 1 /\ s[j] = entries[j + 1]
        BY <2>3, <2>4, <3>2
      <4> QED
        BY <2>1, <2>4, <4>1 DEF Ordered
    <3> QED
      BY <3>1, <3>2
  <2>6. ASSUME NEW j \in DOMAIN s, NEW n \in DOMAIN s, j < n
        PROVE  s[j].key # s[n].key /\ s[j].at <= s[n].at
    <3> DEFINE x == IF j < i THEN j ELSE j + 1
               y == IF n < i THEN n ELSE n + 1
    <3>1. x \in DOMAIN entries /\ s[j] = entries[x]
      BY <2>3, <2>4
    <3>2. y \in DOMAIN entries /\ s[n] = entries[y]
      BY <2>3, <2>4
    <3>3. x < y
      BY <2>4, <2>6
    <3> HIDE DEF x, y
    <3> QED
      BY <3>1, <3>2, <3>3 DEF Ordered
  <2> QED
    BY <2>3, <2>4, <2>5, <2>6 DEF Ordered, s
<1> QED
  BY <1>1, <1>2

\* An entry goes last, and the oldest make room (ttl-cache.js, set).
LEMMA PutKeeps ==
  ASSUME entries \in Seq(Entry), Ordered(entries), NEW e \in Entry,
         \A i \in DOMAIN entries : entries[i].at <= e.at
  PROVE  /\ Put(e) \in Seq(Entry) /\ Len(Put(e)) <= Max /\ Ordered(Put(e))
         /\ \A j \in DOMAIN Put(e) :
              Put(e)[j] = e \/ \E i \in DOMAIN entries : Put(e)[j] = entries[i]
<1> DEFINE o == Others(e.key)
           written == Append(o, e)
           d == IF Len(written) > Max THEN Len(written) - Max ELSE 0
<1>1. /\ o \in Seq(Entry) /\ Ordered(o)
      /\ \A j \in DOMAIN o : o[j].key # e.key /\ \E i \in DOMAIN entries : o[j] = entries[i]
  BY OthersKeep
<1>2. Put(e) = SubSeq(written, d + 1, Len(written))
  BY DEF Put
<1> HIDE DEF o
<1>3. /\ written \in Seq(Entry) /\ Len(written) = Len(o) + 1 /\ Len(o) \in Nat
      /\ DOMAIN written = 1 .. Len(o) + 1 /\ DOMAIN o = 1 .. Len(o)
      /\ written[Len(o) + 1] = e /\ \A j \in DOMAIN o : written[j] = o[j]
  BY <1>1
<1> HIDE DEF written
<1>4. \A j \in DOMAIN written :
        written[j] = e \/ \E i \in DOMAIN entries : written[j] = entries[i]
  BY <1>1, <1>3
<1>5. Ordered(written)
  <2> SUFFICES ASSUME NEW i \in DOMAIN written, NEW j \in DOMAIN written, i < j
               PROVE  written[i].key # written[j].key /\ written[i].at <= written[j].at
    BY DEF Ordered
  <2>1. i \in DOMAIN o /\ written[i] = o[i]
    BY <1>3
  <2>2. CASE j \in DOMAIN o
    BY <1>1, <1>3, <2>1, <2>2 DEF Ordered
  <2>3. CASE j = Len(o) + 1
    BY <1>1, <1>3, <2>1, <2>3
  <2> QED
    BY <1>3, <2>2, <2>3
<1>6. /\ d \in Nat /\ d <= Len(written) /\ Len(written) \in Nat /\ Len(written) - d <= Max
  BY <1>3, ServingAssumption
<1> HIDE DEF d
<1>7. /\ Put(e) \in Seq(Entry) /\ Len(Put(e)) = Len(written) - d
      /\ \A j \in 1 .. Len(written) - d : Put(e)[j] = written[d + j]
  BY <1>2, <1>3, <1>6, SubSeqProperties
<1>8. \A j \in DOMAIN Put(e) : d + j \in DOMAIN written /\ Put(e)[j] = written[d + j] /\ j \in Nat
  BY <1>3, <1>6, <1>7
<1>9. Ordered(Put(e))
  <2> SUFFICES ASSUME NEW i \in DOMAIN Put(e), NEW j \in DOMAIN Put(e), i < j
               PROVE  Put(e)[i].key # Put(e)[j].key /\ Put(e)[i].at <= Put(e)[j].at
    BY DEF Ordered
  <2>1. d + i < d + j
    BY <1>6, <1>8
  <2> QED
    BY <1>5, <1>8, <2>1 DEF Ordered
<1> QED
  BY <1>4, <1>6, <1>7, <1>8, <1>9

------------------------------------------------------------------------------
(* Serving: what was read is recent *)

\* A page that a list or a build names left the index, if at all, after it was begun.
Since(named, t) == \A p \in named : p \in indexable \/ left[p] >= t

BuildRecent ==
  build # Nothing =>
    build.since <= now /\ now <= build.since + Slow /\ Since(build.named, build.since)

ListRecent ==
  list # Nothing =>
    list.since <= now /\ list.at <= list.since + Slow /\ Since(list.named, list.since)

\* Entries are of the past, of a read that was no longer than Slow; and so is a read under way.
EntriesRecent ==
  \A i \in DOMAIN entries : entries[i].at <= now /\ entries[i].at <= entries[i].since + Slow

ReadsRecent ==
  \A r \in Readers :
    reading[r].on = "filings" => reading[r].key \in Keys /\ now <= reading[r].since + Slow

ServingInv ==
  /\ ServingTypeOK
  /\ BuildRecent /\ ListRecent /\ EntriesRecent /\ ReadsRecent
  /\ CacheBounded /\ NobodyForgotten

\* The records of what is kept, and what is under way, have their fields.
LEMMA ServingTypes ==
  ASSUME ServingTypeOK
  PROVE  /\ now \in Nat /\ \A p \in Pages : left[p] \in Nat
         /\ list # Nothing =>
              list.at \in Nat /\ list.since \in Nat /\ list.named \in SUBSET Pages
         /\ build # Nothing =>
              /\ build \in Build /\ build.since \in Nat
              /\ build.named \in SUBSET Pages /\ build.todo \in SUBSET Pages
         /\ \A i \in DOMAIN entries :
              entries[i] \in Entry /\ entries[i].at \in Nat /\ entries[i].since \in Nat
         /\ \A r \in Readers : reading[r] \in Reading /\ reading[r].since \in Nat
<1> USE DEF ServingTypeOK
<1>1. \A t \in Time : t \in Nat
  BY DEF Time
<1>2. ASSUME NEW i \in DOMAIN entries
      PROVE  entries[i] \in Entry /\ entries[i].at \in Nat /\ entries[i].since \in Nat
  <2>1. entries[i] \in Entry
    OBVIOUS
  <2> QED
    BY <1>1, <2>1 DEF Entry
<1>3. list # Nothing => list.at \in Nat /\ list.since \in Nat /\ list.named \in SUBSET Pages
  BY <1>1 DEF KeptList
<1>4. build # Nothing =>
        /\ build \in Build /\ build.since \in Nat
        /\ build.named \in SUBSET Pages /\ build.todo \in SUBSET Pages
  BY <1>1 DEF Build
<1>5. \A r \in Readers : reading[r] \in Reading /\ reading[r].since \in Nat
  BY <1>1 DEF Reading
<1> QED
  BY <1>1, <1>2, <1>3, <1>4, <1>5

\* Pages come and go, and the clock moves on: whatever is under way is done in time.
LEMMA WorldServes ==
  ASSUME ServingInv, (\E p \in Pages : Publish(p) \/ Retract(p)) \/ Tick
  PROVE  ServingInv'
<1> USE DEF ServingInv
<1>1. UNCHANGED <<list, build, entries, reading>>
  BY DEF Publish, Retract, Tick
<1>2. ServingTypeOK'
  <2>1. ASSUME NEW p \in Pages, Publish(p) \/ Retract(p) PROVE ServingTypeOK'
    BY <1>1, <2>1 DEF Publish, Retract, ServingTypeOK
  <2>2. CASE Tick
    <3>1. now + 1 \in Time
      BY <2>2, ServingAssumption DEF Tick, ServingTypeOK, Time
    <3> QED
      BY <1>1, <2>2, <3>1 DEF Tick, ServingTypeOK
  <2> QED
    BY <2>1, <2>2
<1>3. CacheBounded' /\ NobodyForgotten'
  BY <1>1 DEF CacheBounded, NobodyForgotten
<1>4. /\ now \in Nat /\ Slow \in Nat /\ \A p \in Pages : left[p] \in Nat
      /\ list # Nothing => list.since \in Nat /\ list.at \in Nat /\ list.named \in SUBSET Pages
      /\ build # Nothing => build.since \in Nat /\ build.named \in SUBSET Pages
      /\ \A i \in DOMAIN entries : entries[i].at \in Nat /\ entries[i].since \in Nat
      /\ \A r \in Readers : reading[r].since \in Nat
  BY ServingTypes, ServingAssumption
\* A page that leaves does so now.
<1>5. ASSUME NEW named \in SUBSET Pages, NEW t \in Nat, t <= now, Since(named, t)
      PROVE  \A p \in named : p \in indexable' \/ left'[p] >= t
  <2>1. ASSUME NEW p \in Pages, Publish(p) PROVE \A q \in named : q \in indexable' \/ left'[q] >= t
    BY <1>5, <2>1 DEF Publish, Since
  <2>2. ASSUME NEW p \in Pages, Retract(p) PROVE \A q \in named : q \in indexable' \/ left'[q] >= t
    BY <1>5, <2>2 DEF Retract, Since, ServingTypeOK
  <2>3. CASE Tick
    BY <1>5, <2>3 DEF Tick, Since
  <2> QED
    BY <2>1, <2>2, <2>3
<1>6. list # Nothing => list.since <= now
  BY DEF ListRecent
<1>7. ListRecent'
  <2>1. list # Nothing => \A p \in list.named : p \in indexable' \/ left'[p] >= list.since
    BY <1>4, <1>5, <1>6 DEF ListRecent
  <2>2. now' \in Nat /\ now' >= now
    BY <1>4 DEF Publish, Retract, Tick
  <2> QED
    BY <1>1, <1>4, <2>1, <2>2 DEF ListRecent, Since
<1>8. BuildRecent'
  <2>1. build # Nothing => \A p \in build.named : p \in indexable' \/ left'[p] >= build.since
    BY <1>4, <1>5 DEF BuildRecent
  <2>2. build # Nothing => build.since <= now' /\ now' <= build.since + Slow
    BY <1>4 DEF BuildRecent, Publish, Retract, Tick
  <2> QED
    BY <1>1, <2>1, <2>2 DEF BuildRecent, Since
<1>9. EntriesRecent'
  <2>1. now' = now \/ now' = now + 1
    BY DEF Publish, Retract, Tick
  <2> QED
    BY <1>1, <1>4, <2>1 DEF EntriesRecent
<1>10. ReadsRecent'
  BY <1>1, <1>4 DEF ReadsRecent, Publish, Retract, Tick
<1> QED
  BY <1>2, <1>3, <1>7, <1>8, <1>9, <1>10

\* A build is shared: begun by the first who asks, it lets everyone go when it ends (shared).
LEMMA ListServes ==
  ASSUME ServingInv,
         \/ \E r \in Readers : AskList(r)
         \/ \E p \in Pages : Weigh(p)
         \/ FinishBuild \/ FailBuild
  PROVE  ServingInv'
<1> USE DEF ServingInv
<1>1. UNCHANGED <<now, indexable, left, entries>>
  BY DEF AskList, Weigh, FinishBuild, FailBuild
<1>2. /\ now \in Nat /\ now \in Time /\ Slow \in Nat /\ indexable \subseteq Pages
      /\ build # Nothing =>
           /\ build \in Build /\ build.since \in Nat /\ build.since \in Time
           /\ build.named \in SUBSET Pages /\ build.todo \in SUBSET Pages
      /\ reading \in [Readers -> Reading] /\ list \in {Nothing} \cup KeptList
      /\ NotAsking \in Reading
  <2>1. NotAsking \in Reading
    BY ServingAssumption DEF NotAsking, Reading, Time
  <2>2. build # Nothing => build.since \in Time
    BY DEF ServingTypeOK, Build
  <2> QED
    BY <2>1, <2>2, ServingTypes, ServingAssumption DEF ServingTypeOK
<1>3. CacheBounded' /\ EntriesRecent'
  BY <1>1 DEF CacheBounded, EntriesRecent
<1>4. ASSUME reading' = Release("build")
      PROVE  /\ reading' \in [Readers -> Reading]
             /\ \A r \in Readers : reading'[r].on # "build"
             /\ ReadsRecent'
  <2>1. \A r \in Readers : reading'[r] = IF reading[r].on = "build" THEN NotAsking ELSE reading[r]
    BY <1>4 DEF Release
  <2>2. reading' \in [Readers -> Reading]
    BY <1>2, <1>4 DEF Release
  <2>3. NotAsking.on = "idle"
    BY DEF NotAsking
  <2> QED
    BY <1>1, <2>1, <2>2, <2>3 DEF ReadsRecent
<1>5. ASSUME ServingTypeOK', BuildRecent', ListRecent', ReadsRecent', NobodyForgotten'
      PROVE  ServingInv'
  BY <1>3, <1>5
<1>6. ASSUME list' = list PROVE ListRecent'
  BY <1>1, <1>6 DEF ListRecent, Since
<1>7. ASSUME NEW r \in Readers, AskList(r) PROVE ServingInv'
  <2> DEFINE asks == [NotAsking EXCEPT !.on = "build"]
  <2>1. asks \in Reading /\ asks.on = "build"
    BY <1>2 DEF NotAsking, Reading
  <2>2. reading' = [reading EXCEPT ![r] = asks] /\ list' = list
    BY <1>7 DEF AskList
  <2> HIDE DEF asks
  <2>3. \A q \in Readers : reading'[q] = IF q = r THEN asks ELSE reading[q]
    BY <1>2, <2>2
  <2>4. NewBuild \in Build /\ NewBuild # Nothing
    BY <1>2, NothingAssumption DEF NewBuild, Build
  <2>5. build' # Nothing /\ build' \in Build
    BY <1>2, <1>7, <2>4 DEF AskList
  <2>6. NewBuild.since = now /\ NewBuild.named = {}
    BY DEF NewBuild
  <2>7. BuildRecent'
    <3>1. CASE build = Nothing
      BY <1>1, <1>2, <1>7, <2>6, <3>1 DEF AskList, BuildRecent, Since
    <3>2. CASE build # Nothing
      BY <1>1, <1>7, <3>2 DEF AskList, BuildRecent, Since
    <3> QED
      BY <3>1, <3>2
  <2>8. ServingTypeOK'
    BY <1>1, <1>2, <2>1, <2>2, <2>5 DEF ServingTypeOK
  <2>9. ReadsRecent' /\ NobodyForgotten'
    BY <1>1, <2>1, <2>3, <2>5 DEF ReadsRecent, NobodyForgotten
  <2> QED
    BY <1>5, <1>6, <2>2, <2>7, <2>8, <2>9
<1>8. ASSUME NEW p \in Pages, Weigh(p) PROVE ServingInv'
  <2> DEFINE named == IF p \in indexable THEN build.named \cup {p} ELSE build.named
             next == [build EXCEPT !.todo = @ \ {p}, !.named = named]
  <2>1. build # Nothing /\ build' = next /\ UNCHANGED <<list, reading>>
    BY <1>8 DEF Weigh
  <2>2. /\ next \in Build /\ next.since = build.since /\ next.named = named
        /\ named \in SUBSET Pages
    BY <1>2, <2>1 DEF Build
  <2>3. Since(named, build.since)
    BY <2>1 DEF BuildRecent, Since
  <2> HIDE DEF next, named
  <2>4. BuildRecent'
    BY <1>1, <2>1, <2>2, <2>3 DEF BuildRecent, Since
  <2>5. build' # Nothing
    BY <2>1, <2>2, NothingAssumption
  <2>6. ServingTypeOK'
    BY <1>1, <1>2, <2>1, <2>2 DEF ServingTypeOK
  <2>7. ReadsRecent' /\ NobodyForgotten'
    BY <1>1, <2>1, <2>5 DEF ReadsRecent, NobodyForgotten
  <2> QED
    BY <1>5, <1>6, <2>1, <2>4, <2>6, <2>7
<1>9. CASE FinishBuild
  <2> DEFINE kept == [at |-> now, since |-> build.since, named |-> build.named]
  <2>1. build # Nothing /\ build' = Nothing /\ reading' = Release("build") /\ list' = kept
    BY <1>9 DEF FinishBuild
  <2>2. kept \in KeptList /\ kept.at = now /\ kept.since = build.since /\ kept.named = build.named
    BY <1>2, <2>1 DEF KeptList
  <2> HIDE DEF kept
  <2>3. ListRecent'
    BY <1>1, <2>1, <2>2 DEF BuildRecent, ListRecent, Since
  <2>4. ServingTypeOK'
    BY <1>1, <1>4, <2>1, <2>2 DEF ServingTypeOK
  <2> QED
    BY <1>4, <1>5, <2>1, <2>3, <2>4 DEF BuildRecent, NobodyForgotten
<1>10. CASE FailBuild
  <2>1. build' = Nothing /\ reading' = Release("build") /\ list' = list
    BY <1>10 DEF FailBuild
  <2>2. ServingTypeOK'
    BY <1>1, <1>4, <2>1 DEF ServingTypeOK
  <2> QED
    BY <1>4, <1>5, <1>6, <2>1, <2>2 DEF BuildRecent, NobodyForgotten
<1> QED
  BY <1>7, <1>8, <1>9, <1>10

\* The cache drops the expired entry it looked for, and keeps what was read (get, set).
LEMMA FilingsServe ==
  ASSUME ServingInv, NEW r \in Readers,
         \/ \E k \in Keys, anonymous \in BOOLEAN : AskFilings(r, k, anonymous)
         \/ ReadFilings(r) \/ FailFilings(r)
  PROVE  ServingInv'
<1> USE DEF ServingInv
<1>1. UNCHANGED <<now, indexable, left, list, build>>
  BY DEF AskFilings, ReadFilings, FailFilings
<1>2. /\ now \in Nat /\ now \in Time /\ Slow \in Nat /\ reading \in [Readers -> Reading]
      /\ entries \in Seq(Entry) /\ NotAsking \in Reading /\ Ordered(entries)
      /\ reading[r].since \in Nat /\ reading[r].since \in Time
  <2>1. NotAsking \in Reading
    BY ServingAssumption DEF NotAsking, Reading, Time
  <2>2. reading[r].since \in Time
    BY DEF ServingTypeOK, Reading
  <2> QED
    BY <2>1, <2>2, ServingTypes, ServingAssumption DEF ServingTypeOK, CacheBounded, Ordered
<1>3. ListRecent' /\ BuildRecent'
  BY <1>1 DEF ListRecent, BuildRecent, Since
\* Entries that were there, or one of now, of a read that was in time.
<1>4. ASSUME entries' \in Seq(Entry), Len(entries') <= Max, Ordered(entries)',
             \A j \in DOMAIN entries' :
               \/ \E i \in DOMAIN entries : entries'[j] = entries[i]
               \/ entries'[j].at = now /\ now <= entries'[j].since + Slow
      PROVE  CacheBounded' /\ EntriesRecent'
  <2>1. CacheBounded'
    BY <1>4 DEF CacheBounded, Ordered
  <2>2. EntriesRecent'
    BY <1>1, <1>2, <1>4 DEF EntriesRecent
  <2> QED
    BY <2>1, <2>2
\* Nobody begins to await a build, and whoever reads the filings reads under a key.
<1>5. ASSUME NEW w \in Reading, reading' = [reading EXCEPT ![r] = w], w.on # "build",
             w.on = "filings" => w.key \in Keys /\ now <= w.since + Slow
      PROVE  reading' \in [Readers -> Reading] /\ ReadsRecent' /\ NobodyForgotten'
  <2>1. \A q \in Readers : reading'[q] = IF q = r THEN w ELSE reading[q]
    BY <1>2, <1>5
  <2>2. reading' \in [Readers -> Reading]
    BY <1>2, <1>5
  <2> QED
    BY <1>1, <1>5, <2>1, <2>2 DEF ReadsRecent, NobodyForgotten
<1>6. ASSUME entries' \in Seq(Entry), CacheBounded', EntriesRecent',
             reading' \in [Readers -> Reading], ReadsRecent', NobodyForgotten'
      PROVE  ServingInv'
  BY <1>1, <1>3, <1>6 DEF ServingTypeOK
<1>7. ASSUME entries' = entries
      PROVE  entries' \in Seq(Entry) /\ CacheBounded' /\ EntriesRecent'
  BY <1>1, <1>2, <1>7 DEF CacheBounded, EntriesRecent
<1>8. NotAsking.on = "idle"
  BY DEF NotAsking
<1>9. ASSUME NEW k \in Keys, NEW anonymous \in BOOLEAN, AskFilings(r, k, anonymous)
      PROVE  ServingInv'
  <2> DEFINE w == [on |-> "filings", key |-> k, keeps |-> anonymous, since |-> now]
  <2>1. w \in Reading /\ w.on = "filings" /\ w.key \in Keys /\ w.since = now
    BY <1>2 DEF Reading
  <2>2. reading' = [reading EXCEPT ![r] = w]
    BY <1>9 DEF AskFilings
  <2> HIDE DEF w
  <2>3. reading' \in [Readers -> Reading] /\ ReadsRecent' /\ NobodyForgotten'
    <3>1. now <= w.since + Slow /\ w.on # "build"
      BY <1>2, <2>1
    <3> QED
      BY <1>5, <2>1, <2>2, <3>1
  <2>4. CASE entries' = entries
    BY <1>6, <1>7, <2>3, <2>4
  <2>5. CASE entries' = Others(k)
    <3>1. Len(Others(k)) <= Max
      <4>1. Len(entries) <= Max /\ Len(Others(k)) <= Len(entries) /\ Max \in Nat
        BY <1>2, OthersKeep, ServingAssumption DEF CacheBounded
      <4>2. Len(entries) \in Nat /\ Len(Others(k)) \in Nat
        BY <1>2, OthersKeep
      <4> QED
        BY <4>1, <4>2
    <3>2. /\ entries' \in Seq(Entry) /\ Ordered(entries)'
          /\ \A j \in DOMAIN entries' : \E i \in DOMAIN entries : entries'[j] = entries[i]
      BY <1>2, <2>5, OthersKeep DEF Ordered
    <3>3. CacheBounded' /\ EntriesRecent'
      BY <1>4, <2>5, <3>1, <3>2
    <3> QED
      BY <1>6, <2>3, <3>2, <3>3
  <2> QED
    BY <1>9, <2>4, <2>5 DEF AskFilings
<1>10. CASE ReadFilings(r)
  <2> DEFINE w == reading[r]
             e == [key |-> w.key, at |-> now, since |-> w.since]
  <2>1. reading' \in [Readers -> Reading] /\ ReadsRecent' /\ NobodyForgotten'
    BY <1>2, <1>5, <1>8, <1>10 DEF ReadFilings
  <2>2. w.key \in Keys /\ now <= w.since + Slow
    BY <1>10 DEF ReadFilings, ReadsRecent
  <2>3. e \in Entry /\ e.at = now /\ e.since = w.since
    BY <1>2, <2>2 DEF Entry
  <2>4. entries' = entries \/ entries' = Put(e)
    BY <1>10 DEF ReadFilings
  <2>5. CASE entries' = entries
    BY <1>6, <1>7, <2>1, <2>5
  <2>6. CASE entries' = Put(e)
    <3> HIDE DEF e, w
    <3>1. \A i \in DOMAIN entries : entries[i].at <= e.at
      BY <2>3 DEF EntriesRecent
    <3>2. /\ Put(e) \in Seq(Entry) /\ Len(Put(e)) <= Max /\ Ordered(Put(e))
          /\ \A j \in DOMAIN Put(e) :
               Put(e)[j] = e \/ \E i \in DOMAIN entries : Put(e)[j] = entries[i]
      BY <1>2, <2>3, <3>1, PutKeeps
    <3>3. /\ entries' \in Seq(Entry) /\ Len(entries') <= Max /\ Ordered(entries)'
      BY <2>6, <3>2 DEF Ordered
    <3>4. \A j \in DOMAIN entries' :
            \/ \E i \in DOMAIN entries : entries'[j] = entries[i]
            \/ entries'[j].at = now /\ now <= entries'[j].since + Slow
      BY <2>2, <2>3, <2>6, <3>2
    <3>5. CacheBounded' /\ EntriesRecent'
      BY <1>4, <3>3, <3>4
    <3> QED
      BY <1>6, <2>1, <3>3, <3>5
  <2> QED
    BY <2>4, <2>5, <2>6
<1>11. CASE FailFilings(r)
  <2>1. reading' \in [Readers -> Reading] /\ ReadsRecent' /\ NobodyForgotten' /\ entries' = entries
    BY <1>2, <1>5, <1>8, <1>11 DEF FailFilings
  <2> QED
    BY <1>6, <1>7, <2>1
<1> QED
  BY <1>9, <1>10, <1>11

LEMMA AlwaysServingInv == ServingSpec => []ServingInv
<1>1. ServingInit => ServingInv
  <2> SUFFICES ASSUME ServingInit PROVE ServingInv
    OBVIOUS
  <2>1. 0 \in Time
    BY ServingAssumption DEF Time
  <2>2. NotAsking \in Reading /\ NotAsking.on = "idle"
    BY <2>1 DEF NotAsking, Reading
  <2>3. ServingTypeOK
    BY <2>1, <2>2 DEF ServingInit, ServingTypeOK
  <2>4. BuildRecent /\ ListRecent /\ EntriesRecent
    BY DEF ServingInit, BuildRecent, ListRecent, EntriesRecent
  <2>5. ReadsRecent /\ NobodyForgotten
    BY <2>2 DEF ServingInit, ReadsRecent, NobodyForgotten
  <2>6. CacheBounded
    BY ServingAssumption DEF ServingInit, CacheBounded
  <2> QED
    BY <2>3, <2>4, <2>5, <2>6 DEF ServingInv
<1>2. ServingInv /\ [ServingNext]_servingVars => ServingInv'
  <2> SUFFICES ASSUME ServingInv, [ServingNext]_servingVars PROVE ServingInv'
    OBVIOUS
  <2>1. CASE ServingNext
    BY <2>1, WorldServes, ListServes, FilingsServe DEF ServingNext
  <2>2. CASE UNCHANGED servingVars
    BY <2>2 DEF servingVars, ServingInv, ServingTypeOK, BuildRecent, ListRecent, EntriesRecent,
                ReadsRecent, CacheBounded, NobodyForgotten, Since
  <2> QED
    BY <2>1, <2>2
<1> QED
  BY <1>1, <1>2, PTL DEF ServingSpec

\* Every variable keeps its type: what is kept, and what is under way, is of pages, keys and times.
THEOREM ServingTypeCorrect == ServingSpec => []ServingTypeOK
<1>1. ServingInv => ServingTypeOK
  BY DEF ServingInv
<1> QED
  BY <1>1, AlwaysServingInv, PTL

\* For any times to live, whatever is served was so within the time to live and the longest read
\* (shared, showFilings).
THEOREM ServedSafe == ServingSpec => []ServedIsRecent
<1>1. ServingInv => ServedIsRecent
  <2> SUFFICES ASSUME ServingInv PROVE ServedIsRecent
    OBVIOUS
  <2>1. /\ now \in Nat /\ \A p \in Pages : left[p] \in Nat
        /\ list # Nothing => list.at \in Nat /\ list.since \in Nat /\ list.named \in SUBSET Pages
        /\ build # Nothing => build.since \in Nat /\ build.named \in SUBSET Pages
        /\ \A i \in DOMAIN entries : entries[i].at \in Nat /\ entries[i].since \in Nat
        /\ Slow \in Nat /\ ListTtl \in Nat /\ FilingsTtl \in Nat
    BY ServingTypes, ServingAssumption DEF ServingInv
  <2>2. Fresh => \A p \in list.named : p \in indexable \/ now < left[p] + ListTtl + Slow
    BY <2>1 DEF Fresh, ServingInv, ListRecent, Since
  <2>3. build # Nothing => \A p \in build.named : p \in indexable \/ now <= left[p] + Slow
    BY <2>1 DEF ServingInv, BuildRecent, Since
  <2>4. \A k \in Keys : Hit(k) => now < EntryOf(k).since + FilingsTtl + Slow
    <3>1. ASSUME NEW k \in Keys, Hit(k) PROVE now < EntryOf(k).since + FilingsTtl + Slow
      <4>1. PlaceOf(k) \in DOMAIN entries
        BY <3>1 DEF Hit, Holds, PlaceOf
      <4>2. EntryOf(k) = entries[PlaceOf(k)]
        BY DEF EntryOf
      <4>3. EntryOf(k).at <= EntryOf(k).since + Slow /\ now < EntryOf(k).at + FilingsTtl
        BY <3>1, <4>1, <4>2 DEF Hit, ServingInv, EntriesRecent
      <4>4. EntryOf(k).at \in Nat /\ EntryOf(k).since \in Nat
        BY <2>1, <4>1, <4>2
      <4> QED
        BY <2>1, <4>3, <4>4
    <3> QED
      BY <3>1
  <2> QED
    BY <2>2, <2>3, <2>4 DEF ServedIsRecent
<1> QED
  BY <1>1, AlwaysServingInv, PTL

\* The cache holds Max entries at most, one for a key, in the order they were written (set).
THEOREM CacheSafe == ServingSpec => []CacheBounded
<1>1. ServingInv => CacheBounded
  BY DEF ServingInv
<1> QED
  BY <1>1, AlwaysServingInv, PTL

\* Whoever awaits a build awaits one that runs: it ends, well or not, for all of them (shared).
THEOREM ForgottenSafe == ServingSpec => []NobodyForgotten
<1>1. ServingInv => NobodyForgotten
  BY DEF ServingInv
<1> QED
  BY <1>1, AlwaysServingInv, PTL

==============================================================================
