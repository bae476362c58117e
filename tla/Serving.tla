------------------------------- MODULE Serving -------------------------------
(***************************************************************************)
(* What readers are served out of the process's memory: the weighed index  *)
(* candidates behind the sitemaps and /llms-full.txt (http/discovery.js,   *)
(* `shared`), and the /filings listing (http/pages.js, http/ttl-cache.js).  *)
(* Both are filled by reads that take time, while pages come and go; both   *)
(* are stamped when the reads end.  An answer out of memory changes nothing  *)
(* and is no step; a restart is the state ServingInit.  ReadersProofs reads  *)
(* this module beside Watchlists: no name of the one is a name of the other. *)
(***************************************************************************)
EXTENDS Naturals, Sequences, FiniteSets

CONSTANTS
  Readers,    \* requests under way at once
  Pages,      \* instrument pages
  Keys,       \* form and page number of /filings
  ListTtl,    \* TRADE_SITEMAP_TTL_MS; 0 keeps nothing
  FilingsTtl, \* of the /filings cache
  Max,        \* entries of the /filings cache
  Slow,       \* the longest a build or a read of the database takes
  MaxTime,    \* bound on the clock
  Nothing

ASSUME ServingAssumption ==
  /\ IsFiniteSet(Pages)
  /\ ListTtl \in Nat /\ FilingsTtl \in Nat \ {0} /\ Max \in Nat \ {0}
  /\ Slow \in Nat /\ MaxTime \in Nat
  /\ Nothing \notin Keys

VARIABLES
  now,
  indexable,  \* pages the gate lets into the index
  left,       \* history: when each page last left it
  list,       \* the list kept: when it was ready (at) and begun (since), the pages it names
  build,      \* the build running: since, what is left to weigh (todo), the pages it names
  entries,    \* the cache's Map: key, at and since, in the order written
  reading     \* what each request waits for

servingVars == <<now, indexable, left, list, build, entries, reading>>

Time == 0..MaxTime

\* A list that is kept, and the build of one.
KeptList == [at: Time, since: Time, named: SUBSET Pages]
Build == [since: Time, todo: SUBSET Pages, named: SUBSET Pages]

ASSUME NothingAssumption == Nothing \notin KeptList \cup Build

\* A request is idle, awaits the build, or reads the filings under `key`, to keep them if `keeps`.
Reading ==
  [on: {"idle", "build", "filings"}, key: Keys \cup {Nothing}, keeps: BOOLEAN, since: Time]

NotAsking == [on |-> "idle", key |-> Nothing, keeps |-> FALSE, since |-> 0]

Entry == [key: Keys, at: Time, since: Time]

ServingTypeOK ==
  /\ now \in Time /\ indexable \subseteq Pages /\ left \in [Pages -> Time]
  /\ list \in {Nothing} \cup KeptList
  /\ build \in {Nothing} \cup Build
  /\ entries \in Seq(Entry)
  /\ reading \in [Readers -> Reading]

ServingInit ==
  /\ now = 0 /\ indexable = {} /\ left = [p \in Pages |-> 0]
  /\ list = Nothing /\ build = Nothing /\ entries = <<>>
  /\ reading = [r \in Readers |-> NotAsking]

\* Publications and retractions, of module Publication.
Publish(p) ==
  /\ p \notin indexable
  /\ indexable' = indexable \cup {p}
  /\ UNCHANGED <<now, left, list, build, entries, reading>>

Retract(p) ==
  /\ p \in indexable
  /\ indexable' = indexable \ {p}
  /\ left' = [left EXCEPT ![p] = now]
  /\ UNCHANGED <<now, list, build, entries, reading>>

------------------------------------------------------------------------------
(* The weighed candidates *)

Fresh == list # Nothing /\ now < list.at + ListTtl

\* A build weighs the candidates it read first; the others have no published context.
NewBuild == [since |-> now, todo |-> indexable, named |-> {}]

\* Fault: a build is begun only when none was ever finished.
AskListOnce(r) ==
  /\ reading[r] = NotAsking /\ ~Fresh
  /\ reading' = [reading EXCEPT ![r] = [NotAsking EXCEPT !.on = "build"]]
  /\ build' = IF build = Nothing /\ list = Nothing THEN NewBuild ELSE build
  /\ UNCHANGED <<now, indexable, left, list, entries>>

\* A reader of a sitemap or of /llms-full.txt that finds no fresh list joins the build, or begins one.
AskList(r) ==
  /\ reading[r] = NotAsking /\ ~Fresh
  /\ reading' = [reading EXCEPT ![r] = [NotAsking EXCEPT !.on = "build"]]
  /\ build' = IF build = Nothing THEN NewBuild ELSE build
  /\ UNCHANGED <<now, indexable, left, list, entries>>

\* mapLimit's workers weigh the candidates, in whatever order their queries come back.
Weigh(p) ==
  /\ build # Nothing /\ p \in build.todo
  /\ build' = [build EXCEPT !.todo = @ \ {p}, !.named = IF p \in indexable THEN @ \cup {p} ELSE @]
  /\ UNCHANGED <<now, indexable, left, list, entries, reading>>

Release(on) == [r \in Readers |-> IF reading[r].on = on THEN NotAsking ELSE reading[r]]

\* Everyone who awaits the build gets it; it is kept from now on.
FinishBuild ==
  /\ build # Nothing /\ build.todo = {}
  /\ list' = [at |-> now, since |-> build.since, named |-> build.named]
  /\ build' = Nothing /\ reading' = Release("build")
  /\ UNCHANGED <<now, indexable, left, entries>>

\* Fault: a build that failed is kept, with nothing in it.
FailBuildKept ==
  /\ build # Nothing
  /\ list' = [at |-> now, since |-> build.since, named |-> {Nothing}]
  /\ build' = Nothing /\ reading' = Release("build")
  /\ UNCHANGED <<now, indexable, left, entries>>

\* One failure fails the build, and every request that awaits it: the next one begins anew.
FailBuild ==
  /\ build # Nothing
  /\ build' = Nothing /\ reading' = Release("build")
  /\ UNCHANGED <<now, indexable, left, list, entries>>

------------------------------------------------------------------------------
(* The filings *)

\* A Map has one entry for a key at most.
Holds(k) == \E i \in DOMAIN entries : entries[i].key = k
PlaceOf(k) == CHOOSE i \in DOMAIN entries : entries[i].key = k
EntryOf(k) == entries[PlaceOf(k)]

\* The entries but that of k: an expired one is deleted, a new one goes in anew.
Others(k) ==
  IF Holds(k) THEN SubSeq(entries, 1, PlaceOf(k) - 1) \o SubSeq(entries, PlaceOf(k) + 1, Len(entries))
              ELSE entries

\* Fault: an entry never ages.
HitAnyAge(k) == Holds(k)

\* get finds an entry younger than the time to live ...
Hit(k) == Holds(k) /\ now < EntryOf(k).at + FilingsTtl

\* Fault: an entry written again keeps its old one too.
PutAgain(e) ==
  LET written == Append(entries, e) IN
  SubSeq(written, (IF Len(written) > Max THEN Len(written) - Max ELSE 0) + 1, Len(written))

\* set: the key's entry goes last, and the oldest make room.
Put(e) ==
  LET written == Append(Others(e.key), e) IN
  SubSeq(written, (IF Len(written) > Max THEN Len(written) - Max ELSE 0) + 1, Len(written))

\* An anonymous reader's /filings that the cache does not hold is read, its expired entry dropped;
\* anyone else's is read in any case.
AskFilings(r, k, anonymous) ==
  /\ reading[r] = NotAsking
  /\ anonymous => ~Hit(k)
  /\ entries' = IF anonymous THEN Others(k) ELSE entries
  /\ reading' = [reading EXCEPT ![r] = [on |-> "filings", key |-> k, keeps |-> anonymous, since |-> now]]
  /\ UNCHANGED <<now, indexable, left, list, build>>

\* The reads are back: what an anonymous reader asked for is kept.
ReadFilings(r) ==
  LET w == reading[r] IN
  /\ w.on = "filings"
  /\ entries' = IF w.keeps THEN Put([key |-> w.key, at |-> now, since |-> w.since]) ELSE entries
  /\ reading' = [reading EXCEPT ![r] = NotAsking]
  /\ UNCHANGED <<now, indexable, left, list, build>>

FailFilings(r) ==
  /\ reading[r].on = "filings"
  /\ reading' = [reading EXCEPT ![r] = NotAsking]
  /\ UNCHANGED <<now, indexable, left, list, build, entries>>

------------------------------------------------------------------------------

\* Time passes; nothing under way takes longer than Slow.
Tick ==
  /\ now < MaxTime
  /\ build # Nothing => now < build.since + Slow
  /\ \A r \in Readers : reading[r].on = "filings" => now < reading[r].since + Slow
  /\ now' = now + 1
  /\ UNCHANGED <<indexable, left, list, build, entries, reading>>

ServingNext ==
  \/ \E p \in Pages : Publish(p) \/ Retract(p) \/ Weigh(p)
  \/ \E r \in Readers : AskList(r) \/ ReadFilings(r) \/ FailFilings(r)
  \/ \E r \in Readers, k \in Keys, anonymous \in BOOLEAN : AskFilings(r, k, anonymous)
  \/ FinishBuild \/ FailBuild
  \/ Tick

ServingSpec == ServingInit /\ [][ServingNext]_servingVars

------------------------------------------------------------------------------
(* Properties *)

\* Whatever memory may still serve, now, dates from within its time to live and the longest read: no
\* page is named to crawlers that left the index before (discovery.js, shared; pages.js, showFilings).
ServedIsRecent ==
  /\ Fresh => \A p \in list.named : p \in indexable \/ now < left[p] + ListTtl + Slow
  /\ build # Nothing => \A p \in build.named : p \in indexable \/ now <= left[p] + Slow
  /\ \A k \in Keys : Hit(k) => now < EntryOf(k).since + FilingsTtl + Slow

\* However many ask at once for whatever forms and pages, the cache holds at most its bound, one entry
\* for a key, the last written last: the one that goes is the oldest (ttl-cache.js, set).
CacheBounded ==
  /\ Len(entries) <= Max
  /\ \A i, j \in DOMAIN entries : i < j => entries[i].key # entries[j].key /\ entries[i].at <= entries[j].at

\* Nobody awaits a build that does not run: one that ended, well or not, let everyone go, and whoever
\* came after it began anew (discovery.js, shared).
NobodyForgotten == \A r \in Readers : reading[r].on = "build" => build # Nothing

==============================================================================
