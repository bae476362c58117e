------------------------------ MODULE Watchlists ------------------------------
(***************************************************************************)
(* The watchlists of one person (domain/watchlists.js), whom they are       *)
(* shared with (sharing.js, over the share rows of openvibe-sdk), and the   *)
(* erasure of the account (domain/account-data.js, events/consumer.js).     *)
(* Most handlers read, then write in a later statement of their own: a step *)
(* here is one statement, or one transaction, and a request may die before  *)
(* any of them.                                                            *)
(*                                                                         *)
(* Ids are never used twice.  A list's notes and times are left out; so are *)
(* transfers and requests for access, which go where the members go.       *)
(***************************************************************************)
EXTENDS Naturals, FiniteSets

CONSTANTS
  Lists,        \* ids of watchlists, a bound on those made
  Names,        \* names of lists; unique per person
  Watching,     \* the one that one tap on an instrument makes
  Instruments,
  Owner,        \* the person whose lists these are
  Friends,      \* people a list may be shared with
  Requests,     \* requests under way at once
  MaxLists,     \* TRADE_WATCHLISTS_PER_SUBJECT
  MaxItems,     \* TRADE_ITEMS_PER_WATCHLIST
  None

ASSUME WatchlistsAssumption ==
  /\ Watching \in Names
  /\ Owner \notin Friends
  /\ MaxLists \in Nat \ {0} /\ MaxItems \in Nat \ {0}
  /\ IsFiniteSet(Lists) /\ IsFiniteSet(Instruments) /\ IsFiniteSet(Requests)
  /\ None \notin Lists \cup Names \cup Instruments

VARIABLES
  lists,     \* trade_watchlists: the name of each list, or None
  used,      \* ids given out
  items,     \* trade_watchlist_items
  audience,  \* shares: the audience of each share row, or None
  members,   \* share_members: who was given Can edit
  default,   \* trade_share_defaults: the audience of new lists
  erased,    \* the account was deleted
  work,      \* what each request is doing
  granted,   \* history: whom the owner ever gave Can edit, on which list
  raced      \* history: lists that were removed, or erased, under a request at work on them

vars == <<lists, used, items, audience, members, default, erased, work, granted, raced>>

\* Everyone is offered by no sheet but accepted as a default; it reads like a link.
Audiences == {"private", "people", "link"}

People == {Owner} \cup Friends

\* named, inserted, defaulted: a create; viewed, fits: an addition; applying: "apply to all".
Work == [at: {"idle", "named", "inserted", "defaulted", "viewed", "fits", "applying"},
         who: People, list: Lists \cup {None}, name: Names \cup {None},
         item: Instruments \cup {None}, to: Audiences]

Idle == [at |-> "idle", who |-> Owner, list |-> None, name |-> None, item |-> None, to |-> "private"]

TypeOK ==
  /\ lists \in [Lists -> Names \cup {None}]
  /\ used \subseteq Lists
  /\ items \in [Lists -> SUBSET Instruments]
  /\ audience \in [Lists -> Audiences \cup {None}]
  /\ members \in [Lists -> SUBSET Friends]
  /\ default \in Audiences /\ erased \in BOOLEAN
  /\ work \in [Requests -> Work]
  /\ granted \subseteq Friends \X Lists /\ raced \subseteq Lists

Init ==
  /\ lists = [l \in Lists |-> None] /\ used = {}
  /\ items = [l \in Lists |-> {}]
  /\ audience = [l \in Lists |-> None] /\ members = [l \in Lists |-> {}]
  /\ default = "private" /\ erased = FALSE
  /\ work = [r \in Requests |-> Idle]
  /\ granted = {} /\ raced = {}

------------------------------------------------------------------------------
(* Who may do what *)

Kept == {l \in Lists : lists[l] # None}

\* canView and canEdit of openvibe-sdk, for someone else: a missing share row is the owner's alone.
CanView(f, l) == audience[l] = "link" \/ (audience[l] = "people" /\ f \in members[l])
CanEdit(f, l) == audience[l] # None /\ f \in members[l]

\* view: the list exists, and it is theirs or shared with them.
View(p, l) == l \in Kept /\ (p = Owner \/ CanView(p, l))

\* Fault: whoever may read a list may change it.
EditableByReader(p, l) == View(p, l)

\* editable: view, and Can edit.
Editable(p, l) == View(p, l) /\ (p = Owner \/ CanEdit(p, l))

\* Requests by a person whose account is gone are not signed in.
Ready(r, p) == work[r].at = "idle" /\ (p = Owner => ~erased)

Goto(r, w) == work' = [work EXCEPT ![r] = w]

------------------------------------------------------------------------------
(* Lists *)

\* create counts the person's lists and picks an id; `item` is what one tap adds next, or None.
Create(r, l, name, item) ==
  /\ Ready(r, Owner)
  /\ l \notin used
  /\ Cardinality(Kept) < MaxLists
  /\ used' = used \cup {l}
  /\ Goto(r, [Idle EXCEPT !.at = "named", !.list = l, !.name = name, !.item = item])
  /\ UNCHANGED <<lists, items, audience, members, default, erased, granted, raced>>

\* The row goes in, unless the person has a list of that name: 409.
InsertList(r) ==
  LET w == work[r] IN
  /\ w.at = "named"
  /\ IF \E l \in Kept : lists[l] = w.name
       THEN Goto(r, Idle) /\ UNCHANGED lists
       ELSE Goto(r, [w EXCEPT !.at = "inserted", !.name = None]) /\ lists' = [lists EXCEPT ![w.list] = w.name]
  /\ UNCHANGED <<used, items, audience, members, default, erased, granted, raced>>

ReadDefault(r) ==
  /\ work[r].at = "inserted"
  /\ Goto(r, [work[r] EXCEPT !.at = "defaulted", !.to = default])
  /\ UNCHANGED <<lists, used, items, audience, members, default, erased, granted, raced>>

\* The share row; then one tap goes on to add its instrument, to a list it does not look up again.
Register(r) ==
  LET w == work[r] IN
  /\ w.at = "defaulted"
  /\ audience' = [audience EXCEPT ![w.list] = w.to]
  /\ Goto(r, IF w.item = None THEN Idle ELSE [w EXCEPT !.at = "viewed", !.to = "private"])
  /\ UNCHANGED <<lists, used, items, members, default, erased, granted, raced>>

Rename(l, name) ==
  /\ ~erased /\ l \in Kept
  /\ \A k \in Kept : lists[k] # name
  /\ lists' = [lists EXCEPT ![l] = name]
  /\ UNCHANGED <<used, items, audience, members, default, erased, work, granted, raced>>

\* The lists among L that a request is at work on.
AtWorkOn(L) == {l \in L : \E r \in Requests : work[r].list = l}

Without(f, L, nothing) == [l \in Lists |-> IF l \in L THEN nothing ELSE f[l]]

\* Fault: the share row outlives its list.
RemoveListOnly(l) ==
  /\ ~erased /\ l \in Kept
  /\ lists' = Without(lists, {l}, None) /\ items' = Without(items, {l}, {})
  /\ raced' = raced \cup AtWorkOn({l})
  /\ UNCHANGED <<used, audience, members, default, erased, work, granted>>

\* remove and forget, one transaction: items, list, members and share row.
Remove(l) ==
  /\ ~erased /\ l \in Kept
  /\ lists' = Without(lists, {l}, None) /\ items' = Without(items, {l}, {})
  /\ audience' = Without(audience, {l}, None) /\ members' = Without(members, {l}, {})
  /\ raced' = raced \cup AtWorkOn({l})
  /\ UNCHANGED <<used, default, erased, work, granted>>

------------------------------------------------------------------------------
(* Instruments on a list *)

\* The form (owner or Can edit), the API (owner) and one tap (a list of the owner's) look first ...
Add(r, p, l, i) ==
  /\ Ready(r, p)
  /\ Editable(p, l)
  /\ Goto(r, [Idle EXCEPT !.at = "viewed", !.who = p, !.list = l, !.item = i])
  /\ UNCHANGED <<lists, used, items, audience, members, default, erased, granted, raced>>

\* Fault: the instruments on the list are not counted.
CountNothing(r) ==
  /\ work[r].at = "viewed"
  /\ Goto(r, [work[r] EXCEPT !.at = "fits"])
  /\ UNCHANGED <<lists, used, items, audience, members, default, erased, granted, raced>>

\* ... count ...
CountItems(r) ==
  /\ work[r].at = "viewed"
  /\ Cardinality(items[work[r].list]) < MaxItems
  /\ Goto(r, [work[r] EXCEPT !.at = "fits"])
  /\ UNCHANGED <<lists, used, items, audience, members, default, erased, granted, raced>>

\* ... and insert, unless the list is gone: its foreign key refuses the item.
InsertItem(r) ==
  LET w == work[r] IN
  /\ w.at = "fits"
  /\ items' = [items EXCEPT ![w.list] = IF w.list \in Kept THEN @ \cup {w.item} ELSE @]
  /\ Goto(r, Idle)
  /\ UNCHANGED <<lists, used, audience, members, default, erased, granted, raced>>

Drop(p, l, i) ==
  /\ p = Owner => ~erased
  /\ Editable(p, l) /\ i \in items[l]
  /\ items' = [items EXCEPT ![l] = @ \ {i}]
  /\ UNCHANGED <<lists, used, audience, members, default, erased, work, granted, raced>>

\* A limit, an error, or the end of the process: what was written stays.
Fail(r) ==
  /\ work[r].at # "idle"
  /\ Goto(r, Idle)
  /\ UNCHANGED <<lists, used, items, audience, members, default, erased, granted, raced>>

------------------------------------------------------------------------------
(* Sharing and erasure *)

\* The Share sheet, on a list that has its share row: its audience, and who has Can edit.
SetAudience(l, to) ==
  /\ ~erased /\ l \in Kept /\ audience[l] # None
  /\ audience' = [audience EXCEPT ![l] = to]
  /\ UNCHANGED <<lists, used, items, members, default, erased, work, granted, raced>>

Share(l, f) ==
  /\ ~erased /\ l \in Kept /\ audience[l] # None
  /\ members' = [members EXCEPT ![l] = @ \cup {f}]
  /\ granted' = granted \cup {<<f, l>>}
  /\ UNCHANGED <<lists, used, items, audience, default, erased, work, raced>>

\* The owner takes it back, or the sweep finds that its time is over.
Unshare(l, f) ==
  /\ ~erased /\ f \in members[l]
  /\ members' = [members EXCEPT ![l] = @ \ {f}]
  /\ UNCHANGED <<lists, used, items, audience, default, erased, work, granted, raced>>

\* Fault: what the form sent is stored, whatever it is.
SetDefaultUnchecked(r, to, applyAll) ==
  /\ Ready(r, Owner)
  /\ default' = None
  /\ Goto(r, IF applyAll THEN [Idle EXCEPT !.at = "applying", !.to = to] ELSE Idle)
  /\ UNCHANGED <<lists, used, items, audience, members, erased, granted, raced>>

\* setDefault, and with applyAll every share row of the person in a second statement.
SetDefault(r, to, applyAll) ==
  /\ Ready(r, Owner)
  /\ default' = to
  /\ Goto(r, IF applyAll THEN [Idle EXCEPT !.at = "applying", !.to = to] ELSE Idle)
  /\ UNCHANGED <<lists, used, items, audience, members, erased, granted, raced>>

ApplyAll(r) ==
  /\ work[r].at = "applying"
  /\ audience' = [l \in Lists |-> IF audience[l] # None THEN work[r].to ELSE None]
  /\ Goto(r, Idle)
  /\ UNCHANGED <<lists, used, items, members, default, erased, granted, raced>>

\* The receipt of a delivery that fails is rolled back and it comes again; one that comes twice
\* changes nothing.
FirstDelivery == ~erased /\ erased' = TRUE

\* network.account.deleted: the tables of the map, and the share rows.
Erase ==
  /\ FirstDelivery
  /\ lists' = [l \in Lists |-> None] /\ items' = [l \in Lists |-> {}]
  /\ audience' = [l \in Lists |-> None] /\ members' = [l \in Lists |-> {}]
  /\ default' = "private"
  /\ raced' = raced \cup AtWorkOn(Lists)
  /\ UNCHANGED <<used, work, granted>>

\* One tap makes a list when the person has none.
ListsStep ==
  \/ \E r \in Requests, l \in Lists, n \in Names : Create(r, l, n, None)
  \/ \E r \in Requests, l \in Lists, i \in Instruments : Kept = {} /\ Create(r, l, Watching, i)
  \/ \E r \in Requests : InsertList(r) \/ ReadDefault(r) \/ Register(r)
  \/ \E l \in Lists, n \in Names : Rename(l, n)
  \/ \E l \in Lists : Remove(l)

ItemsStep ==
  \/ \E r \in Requests, p \in People, l \in Lists, i \in Instruments : Add(r, p, l, i)
  \/ \E r \in Requests : CountItems(r) \/ InsertItem(r)
  \/ \E p \in People, l \in Lists, i \in Instruments : Drop(p, l, i)

Next ==
  \/ ListsStep
  \/ ItemsStep
  \/ \E r \in Requests : ApplyAll(r) \/ Fail(r)
  \/ \E l \in Lists, to \in Audiences : SetAudience(l, to)
  \/ \E l \in Lists, f \in Friends : Share(l, f) \/ Unshare(l, f)
  \/ \E r \in Requests, to \in Audiences, applyAll \in BOOLEAN : SetDefault(r, to, applyAll)
  \/ Erase

Spec == Init /\ [][Next]_vars

------------------------------------------------------------------------------
(* Properties *)

\* The limits are counted before the insert: requests at once may pass them, by one each and no
\* more (watchlists.js, create and add).
LimitsBounded ==
  /\ Cardinality(Kept) < MaxLists + Cardinality(Requests)
  /\ \A l \in Lists : Cardinality(items[l]) < MaxItems + Cardinality(Requests)

\* A removed list takes its items, its share row and everyone it named with it, and of an erased
\* person nothing comes back; but for a list that a request was at work on at that moment, which may
\* still write the rows it was about to (sharing.js, forget; account-data.js, extraErase).
NothingOutlives ==
  \A l \in Lists :
    \/ l \in raced
    \/ l \in Kept /\ ~erased
    \/ l \notin Kept /\ items[l] = {} /\ audience[l] = None /\ members[l] = {}

\* Only the owner, and those the owner gave Can edit on this very list, ever added to it, whatever
\* was renamed, shared, made private or removed in between (watchlists.js, view; private.js, editable).
EditsAreGranted ==
  [][\A l \in Lists : items'[l] \subseteq items[l] \/ \E r \in Requests :
       work[r].list = l /\ (work[r].who = Owner \/ <<work[r].who, l>> \in granted)]_vars

==============================================================================
