---------------------------- MODULE RegistryProofs ----------------------------
(***************************************************************************)
(* No key of an instrument is ever lost, and SEC's list makes one           *)
(* instrument per company, for any tickers, CIKs, names and editors.        *)
(***************************************************************************)
EXTENDS Registry, TLAPS

Holders == Symbols \cup {None}

\* What a writer has decided is of the right kind, and only the sync creates companies of the
\* list: none that has an instrument of the list already.
Decided(p, w) ==
  /\ w.do \in Inserts => w.of \in Symbols /\ w.key \in Ciks \cup {None}
  /\ w.do = "list" => p = Sync /\ w.key \in Ciks /\ \A s \in Symbols : company[s] # w.key
  /\ w.do = "ticker" => w.of \in Symbols /\ w.key \in Symbols
  /\ w.do \in {"cik", "give"} => w.of \in Symbols /\ w.key \in Ciks

\* The alias of a CIK outlives the column: whatever an instrument has, or was created for, is
\* an alias of some instrument.
Aliases ==
  /\ \A s \in Symbols : ins[s].cik # None => ciks[ins[s].cik] # None
  /\ \A s \in Symbols : company[s] # None => ciks[company[s]] # None

RegistryInv ==
  /\ TypeOK
  /\ Aliases
  /\ \A p \in Procs : Decided(p, work[p])
  /\ OnePerCompany

\* Nothing of what names an instrument goes away in a step.
Kept ==
  /\ \A c \in Ciks : ciks[c] # None => ciks'[c] # None
  /\ \A s \in Symbols : ins[s].listed => ins'[s].listed
  /\ \A s \in Symbols : tickers[s] # None => tickers'[s] # None
  /\ \A s \in Symbols : names[s] \subseteq names'[s]

\* An alias is added or left alone; none changes hands (instruments.js, ON CONFLICT DO NOTHING).
LEMMA AliasKept ==
  ASSUME NEW K, NEW a \in [K -> Holders], NEW key \in K \cup {None}, NEW s \in Symbols,
         NEW b, b = Aliased(a, key, s)
  PROVE  /\ b \in [K -> Holders]
         /\ \A k \in K : a[k] # None => b[k] # None
         /\ key \in K /\ key # None => b[key] # None
<1> USE RegistryAssumption DEF Holders
<1>1. CASE key # None /\ a[key] = None
  <2>1. key \in K /\ b = [a EXCEPT ![key] = s]
    BY <1>1 DEF Aliased
  <2> QED
    BY <2>1
<1>2. CASE ~(key # None /\ a[key] = None)
  <2>1. b = a
    BY <1>2 DEF Aliased
  <2> QED
    BY <1>2, <2>1
<1> QED
  BY <1>1, <1>2

\* A CIK resolves if some instrument has it, in its column or as an alias (resolve).
LEMMA CikResolves ==
  ASSUME TypeOK, NEW c \in Ciks
  PROVE  /\ CikHolder(c) \in Holders
         /\ CikHolder(c) # None <=> (ciks[c] # None \/ \E s \in Symbols : ins[s].cik = c)
<1>1. CASE \E s \in Symbols : ins[s].cik = c
  <2>1. CikHolder(c) \in Symbols
    BY <1>1 DEF CikHolder
  <2> QED
    BY <1>1, <2>1, RegistryAssumption DEF Holders
<1>2. CASE ~ \E s \in Symbols : ins[s].cik = c
  <2>1. CikHolder(c) = ciks[c]
    BY <1>2 DEF CikHolder
  <2> QED
    BY <1>2, <2>1 DEF TypeOK, Holders
<1> QED
  BY <1>1, <1>2

LEMMA TickerResolves ==
  ASSUME TypeOK, NEW s \in Symbols
  PROVE  TickerHolder(s) \in Holders
  BY DEF TickerHolder, TypeOK, Holders

\* With the aliases a CIK resolves if, and only if, it is one.
LEMMA CikIsAlias ==
  ASSUME TypeOK, Aliases, NEW c \in Ciks
  PROVE  CikHolder(c) # None <=> ciks[c] # None
  BY CikResolves, RegistryAssumption DEF Aliases

LEMMA InitInv == Init => RegistryInv
<1> SUFFICES ASSUME Init PROVE RegistryInv
  OBVIOUS
<1>1. TypeOK
  BY DEF Init, TypeOK, Row, NoRow, Work, Idle, Inserts
<1>2. Aliases /\ OnePerCompany
  BY DEF Init, Aliases, OnePerCompany, NoRow
<1>3. \A p \in Procs : Decided(p, work[p])
  BY DEF Init, Decided, Idle, Inserts
<1> QED
  BY <1>1, <1>2, <1>3 DEF RegistryInv

\* A decision changes nothing but what its writer has decided.
LEMMA DecideKeeps ==
  ASSUME RegistryInv, NEW p \in Procs, NEW do, NEW of, NEW key, Decide(p, do, of, key),
         do \in Inserts \cup {"ticker", "cik", "give"}, of \in Holders, key \in Symbols \cup Ciks \cup {None},
         NEW w, w = [do |-> do, of |-> of, key |-> key], Decided(p, w)
  PROVE  RegistryInv' /\ Kept
<1>1. /\ work' = [work EXCEPT ![p] = w]
      /\ UNCHANGED <<ins, tickers, ciks, names, company>>
  BY DEF Decide
<1>2. w \in Work
  BY DEF Work, Holders
<1>3. TypeOK'
  BY <1>1, <1>2 DEF RegistryInv, TypeOK
<1>4. \A q \in Procs : Decided(q, work[q])'
  <2> SUFFICES ASSUME NEW q \in Procs PROVE Decided(q, work[q])'
    OBVIOUS
  <2>1. work'[q] = IF q = p THEN w ELSE work[q]
    BY <1>1 DEF RegistryInv, TypeOK
  <2>2. Decided(q, work[q])
    BY DEF RegistryInv
  <2> QED
    BY <1>1, <2>1, <2>2 DEF Decided
<1>5. Aliases' /\ OnePerCompany'
  BY <1>1 DEF RegistryInv, Aliases, OnePerCompany
<1>6. Kept
  BY <1>1 DEF Kept
<1> QED
  BY <1>3, <1>4, <1>5, <1>6 DEF RegistryInv

\* What an editor's request decides (create, addAlias).
LEMMA EditorDecides ==
  ASSUME RegistryInv, NEW p \in Editors, EditorStep(p)
  PROVE  RegistryInv' /\ Kept
<1> USE RegistryAssumption
<1>1. p \in Procs /\ p # Sync
  BY DEF Procs
<1>2. ASSUME NEW s \in Symbols, NEW c \in Ciks \cup {None}, Create(p, s, c)
      PROVE  RegistryInv' /\ Kept
  <2> PICK w : w = [do |-> "create", of |-> s, key |-> c]
    OBVIOUS
  <2>1. Decided(p, w)
    BY <1>1 DEF Decided, Inserts
  <2> QED
    BY <1>1, <1>2, <2>1, DecideKeeps DEF Create, Inserts, Holders
<1>3. ASSUME NEW s \in Symbols, NEW key \in Symbols, AddTicker(p, s, key)
      PROVE  RegistryInv' /\ Kept
  <2> PICK w : w = [do |-> "ticker", of |-> s, key |-> key]
    OBVIOUS
  <2>1. Decided(p, w)
    BY <1>1 DEF Decided, Inserts
  <2> QED
    BY <1>1, <1>3, <2>1, DecideKeeps DEF AddTicker, Inserts, Holders
<1>4. ASSUME NEW s \in Symbols, NEW key \in Ciks, AddCik(p, s, key)
      PROVE  RegistryInv' /\ Kept
  <2> PICK w : w = [do |-> "cik", of |-> s, key |-> key]
    OBVIOUS
  <2>1. Decided(p, w)
    BY <1>1 DEF Decided, Inserts
  <2> QED
    BY <1>1, <1>4, <2>1, DecideKeeps DEF AddCik, Inserts, Holders
<1> QED
  BY <1>2, <1>3, <1>4 DEF EditorStep

\* Names are only added (addAlias of a name, registerInstrument's update).
LEMMA NamesKeep ==
  ASSUME RegistryInv, NEW s \in Symbols, NEW n \in Names,
         names' = [names EXCEPT ![s] = @ \cup {n}],
         UNCHANGED <<ins, tickers, ciks, company, work>>
  PROVE  RegistryInv' /\ Kept
<1>1. names' \in [Symbols -> SUBSET Names] /\ \A t \in Symbols : names[t] \subseteq names'[t]
  BY DEF RegistryInv, TypeOK
<1>2. TypeOK'
  BY <1>1 DEF RegistryInv, TypeOK
<1>3. Aliases' /\ OnePerCompany' /\ \A q \in Procs : Decided(q, work[q])'
  BY DEF RegistryInv, Aliases, OnePerCompany, Decided
<1>4. Kept
  BY <1>1 DEF Kept
<1> QED
  BY <1>2, <1>3, <1>4 DEF RegistryInv

\* What the sync does with an item of the feed (registerInstrument, instrumentFor): a company is
\* decided to be new only while no CIK resolves to it, hence to no instrument of the list.
LEMMA SyncDecides ==
  ASSUME RegistryInv, NEW i \in Items, Register(i)
  PROVE  RegistryInv' /\ Kept
<1> USE RegistryAssumption
<1>1. Sync \in Procs /\ TypeOK /\ Aliases
  BY DEF Procs, RegistryInv
<1>2. Listed(i) => i.cik \in Ciks /\ i.symbol \in Symbols /\ i.name \in Names
  BY DEF Listed, Items
<1>3. CASE RegisterKnown(i)
  <2> PICK have : have = CikHolder(i.cik)
    OBVIOUS
  <2> PICK key : key = i.symbol
    OBVIOUS
  <2>1. have \in Symbols /\ key \in Symbols /\ Decide(Sync, "ticker", have, key)
    BY <1>1, <1>2, <1>3, CikResolves DEF RegisterKnown, Holders
  <2> PICK w : w = [do |-> "ticker", of |-> have, key |-> key]
    OBVIOUS
  <2>2. Decided(Sync, w)
    BY <2>1 DEF Decided, Inserts
  <2> QED
    BY <1>1, <2>1, <2>2, DecideKeeps DEF Inserts, Holders
<1>4. CASE RegisterName(i)
  <2> PICK have : have = CikHolder(i.cik)
    OBVIOUS
  <2>1. have \in Symbols /\ i.name \in Names
    BY <1>2, <1>4 DEF RegisterName
  <2> QED
    BY <1>4, <2>1, NamesKeep DEF RegisterName
<1>5. CASE RegisterHeld(i)
  <2> PICK have : have = TickerHolder(i.symbol)
    OBVIOUS
  <2> PICK key : key = i.cik
    OBVIOUS
  <2>1. have \in Symbols /\ key \in Ciks /\ Decide(Sync, "give", have, key)
    BY <1>1, <1>2, <1>5, TickerResolves DEF RegisterHeld, Holders
  <2> PICK w : w = [do |-> "give", of |-> have, key |-> key]
    OBVIOUS
  <2>2. Decided(Sync, w)
    BY <2>1 DEF Decided, Inserts
  <2> QED
    BY <1>1, <2>1, <2>2, DecideKeeps DEF Inserts, Holders
<1>6. CASE RegisterNew(i)
  <2> PICK s : s = i.symbol
    OBVIOUS
  <2> PICK key : key = i.cik
    OBVIOUS
  <2>1. /\ s \in Symbols /\ key \in Ciks /\ Decide(Sync, "list", s, key)
        /\ CikHolder(key) = None
    BY <1>2, <1>6 DEF RegisterNew, Unmatched
  <2>2. ciks[key] = None
    BY <1>1, <2>1, CikIsAlias
  <2>3. \A t \in Symbols : company[t] # key
    BY <1>1, <2>1, <2>2 DEF Aliases
  <2> PICK w : w = [do |-> "list", of |-> s, key |-> key]
    OBVIOUS
  <2>4. Decided(Sync, w)
    BY <2>1, <2>3 DEF Decided, Inserts
  <2> QED
    BY <1>1, <2>1, <2>4, DecideKeeps DEF Inserts, Holders
<1>7. CASE RegisterCurrency(i)
  <2> PICK s : s = i.symbol
    OBVIOUS
  <2>1. s \in Symbols /\ Decide(Sync, "currency", s, None)
    BY <1>7 DEF RegisterCurrency, Quoted, Items
  <2> PICK w : w = [do |-> "currency", of |-> s, key |-> None]
    OBVIOUS
  <2>2. Decided(Sync, w)
    BY <2>1 DEF Decided, Inserts
  <2> QED
    BY <1>1, <2>1, <2>2, DecideKeeps DEF Inserts, Holders
<1> QED
  BY <1>3, <1>4, <1>5, <1>6, <1>7 DEF Register

\* Setting the CIK of an instrument and its alias, with whatever names and decisions come with it
\* (update): the old CIK stays an alias.
LEMMA CikSet ==
  ASSUME RegistryInv, NEW s \in Symbols, NEW c \in Ciks \cup {None},
         NEW r, r = [ins[s] EXCEPT !.cik = c],
         ins' = [ins EXCEPT ![s] = r], ciks' = Aliased(ciks, c, s),
         UNCHANGED <<tickers, company>>,
         names' \in [Symbols -> SUBSET Names], \A t \in Symbols : names[t] \subseteq names'[t],
         work' \in [Procs -> Work], \A q \in Procs : work'[q] = work[q] \/ work'[q] = Idle
  PROVE  RegistryInv' /\ Kept
<1> USE RegistryAssumption
<1>0. TypeOK /\ Aliases
  BY DEF RegistryInv
<1>1. r \in Row /\ r.cik = c /\ r.listed = ins[s].listed
  BY <1>0 DEF TypeOK, Row
<1>2. /\ ciks' \in [Ciks -> Holders]
      /\ \A k \in Ciks : ciks[k] # None => ciks'[k] # None
      /\ c # None => ciks'[c] # None
  <2>1. ciks \in [Ciks -> Holders]
    BY <1>0 DEF TypeOK, Holders
  <2> PICK b : b = Aliased(ciks, c, s)
    OBVIOUS
  <2> QED
    BY <2>1, AliasKept
<1>3. ins' \in [Symbols -> Row] /\ \A t \in Symbols : ins'[t] = IF t = s THEN r ELSE ins[t]
  BY <1>0, <1>1 DEF TypeOK
<1>4. TypeOK'
  BY <1>0, <1>2, <1>3 DEF TypeOK, Holders
<1>5. Aliases'
  <2>1. \A t \in Symbols : ins'[t].cik # None => ciks'[ins'[t].cik] # None
    BY <1>0, <1>1, <1>2, <1>3 DEF Aliases, TypeOK, Row
  <2>2. \A t \in Symbols : company'[t] # None => ciks'[company'[t]] # None
    BY <1>0, <1>2 DEF Aliases, TypeOK
  <2> QED
    BY <2>1, <2>2 DEF Aliases
<1>6. \A q \in Procs : Decided(q, work[q])'
  <2> SUFFICES ASSUME NEW q \in Procs PROVE Decided(q, work[q])'
    OBVIOUS
  <2>1. CASE work'[q] = Idle
    BY <2>1 DEF Decided, Idle, Inserts
  <2>2. CASE work'[q] = work[q]
    BY <2>2 DEF RegistryInv, Decided
  <2> QED
    BY <2>1, <2>2
<1>7. OnePerCompany'
  BY DEF RegistryInv, OnePerCompany
<1>8. Kept
  BY <1>1, <1>2, <1>3 DEF Kept
<1> QED
  BY <1>4, <1>5, <1>6, <1>7, <1>8 DEF RegistryInv

\* Giving up what it decided, a writer keeps everything (Done).
LEMMA DoneKeeps ==
  ASSUME RegistryInv, NEW p \in Procs, Done(p)
  PROVE  /\ work' \in [Procs -> Work]
         /\ \A q \in Procs : work'[q] = IF q = p THEN Idle ELSE work[q]
<1>1. Idle \in Work
  BY DEF Idle, Work
<1> QED
  BY <1>1 DEF Done, RegistryInv, TypeOK

\* An editor's update.
LEMMA EditKeeps ==
  ASSUME RegistryInv, NEW s \in Symbols, NEW c \in Ciks \cup {None}, NEW n \in Keyed, Edit(s, c, n)
  PROVE  RegistryInv' /\ Kept
<1> PICK r : r = [ins[s] EXCEPT !.cik = c]
  OBVIOUS
<1>1. n \subseteq Names
  BY DEF Keyed
<1>2. names' \in [Symbols -> SUBSET Names] /\ \A t \in Symbols : names[t] \subseteq names'[t]
  BY <1>1 DEF Edit, RegistryInv, TypeOK
<1>3. work' \in [Procs -> Work] /\ \A q \in Procs : work'[q] = work[q]
  BY DEF Edit, RegistryInv, TypeOK
<1> QED
  BY <1>2, <1>3, CikSet DEF Edit

\* The sync's update of an instrument without a CIK.
LEMMA GiveKeeps ==
  ASSUME RegistryInv, GiveCik
  PROVE  RegistryInv' /\ Kept
<1> PICK w : w = work[Sync]
  OBVIOUS
<1> PICK s, c : s = w.of /\ c = w.key
  OBVIOUS
<1> PICK r : r = [ins[s] EXCEPT !.cik = c]
  OBVIOUS
<1>1. Sync \in Procs /\ s \in Symbols /\ c \in Ciks
  BY DEF Procs, RegistryInv, Decided, GiveCik
<1>2. /\ work' \in [Procs -> Work]
      /\ \A q \in Procs : work'[q] = work[q] \/ work'[q] = Idle
  BY <1>1, DoneKeeps DEF GiveCik
<1>3. CASE CikTaken(c, s)
  <2>1. UNCHANGED <<ins, tickers, ciks, names, company>>
    BY <1>3 DEF GiveCik
  <2>2. TypeOK' /\ Aliases' /\ OnePerCompany'
    BY <1>2, <2>1 DEF RegistryInv, TypeOK, Aliases, OnePerCompany
  <2>3. \A q \in Procs : Decided(q, work[q])'
    BY <1>2, <2>1 DEF RegistryInv, Decided, Idle, Inserts
  <2> QED
    BY <2>1, <2>2, <2>3 DEF RegistryInv, Kept
<1>4. CASE ~CikTaken(c, s)
  <2>1. ins' = [ins EXCEPT ![s] = r] /\ ciks' = Aliased(ciks, c, s)
    BY <1>4 DEF GiveCik
  <2>2. UNCHANGED <<tickers, company, names>>
    BY DEF GiveCik
  <2> QED
    BY <1>1, <1>2, <2>1, <2>2, CikSet DEF RegistryInv, TypeOK
<1> QED
  BY <1>3, <1>4

\* A new instrument: only the sync makes one for a company of the list, one that has none.
LEMMA InsertKeeps ==
  ASSUME RegistryInv, NEW p \in Procs, NEW n \in Keyed, Insert(p, n)
  PROVE  RegistryInv' /\ Kept
<1> USE RegistryAssumption
<1> PICK w : w = work[p]
  OBVIOUS
<1> PICK s, c : s = w.of /\ c = w.key
  OBVIOUS
<1> PICK by : by = (w.do = "list")
  OBVIOUS
<1> PICK r : r = [listed |-> TRUE, bySync |-> by, cik |-> c]
  OBVIOUS
<1> PICK for : for = IF w.do = "list" THEN c ELSE None
  OBVIOUS
<1>0. TypeOK /\ Aliases
  BY DEF RegistryInv
<1>1. s \in Symbols /\ c \in Ciks \cup {None} /\ for \in Ciks \cup {None} /\ Decided(p, w)
  BY DEF RegistryInv, Decided, Insert
<1>2. /\ ins' = [ins EXCEPT ![s] = r]
      /\ tickers' = Aliased(tickers, s, s)
      /\ ciks' = Aliased(ciks, c, s)
      /\ names' = [names EXCEPT ![s] = @ \cup n]
      /\ company' = [company EXCEPT ![s] = for]
      /\ Done(p)
  BY DEF Insert
<1>3. r \in Row /\ r.listed = TRUE /\ r.cik = c
  <2>1. by \in BOOLEAN
    OBVIOUS
  <2> QED
    BY <1>1, <2>1 DEF Row
<1>4. ins' \in [Symbols -> Row] /\ \A t \in Symbols : ins'[t] = IF t = s THEN r ELSE ins[t]
  BY <1>0, <1>1, <1>2, <1>3 DEF TypeOK
<1>5. /\ ciks' \in [Ciks -> Holders]
      /\ \A k \in Ciks : ciks[k] # None => ciks'[k] # None
      /\ c # None => ciks'[c] # None
  <2>1. ciks \in [Ciks -> Holders]
    BY <1>0 DEF TypeOK, Holders
  <2> PICK b : b = Aliased(ciks, c, s)
    OBVIOUS
  <2> QED
    BY <1>1, <1>2, <2>1, AliasKept
<1>6. /\ tickers' \in [Symbols -> Holders]
      /\ \A k \in Symbols : tickers[k] # None => tickers'[k] # None
  <2>1. tickers \in [Symbols -> Holders]
    BY <1>0 DEF TypeOK, Holders
  <2> PICK b : b = Aliased(tickers, s, s)
    OBVIOUS
  <2> QED
    BY <1>1, <1>2, <2>1, AliasKept
<1>7. names' \in [Symbols -> SUBSET Names] /\ \A t \in Symbols : names[t] \subseteq names'[t]
  BY <1>0, <1>1, <1>2 DEF TypeOK, Keyed
<1>8. /\ company' \in [Symbols -> Ciks \cup {None}]
      /\ \A t \in Symbols : company'[t] = IF t = s THEN for ELSE company[t]
  BY <1>0, <1>1, <1>2 DEF TypeOK
<1>9. work' \in [Procs -> Work] /\ \A q \in Procs : work'[q] = IF q = p THEN Idle ELSE work[q]
  BY <1>2, DoneKeeps
<1>10. TypeOK'
  BY <1>4, <1>5, <1>6, <1>7, <1>8, <1>9 DEF TypeOK, Holders
<1>11. Aliases'
  <2>1. \A t \in Symbols : ins'[t].cik # None => ciks'[ins'[t].cik] # None
    BY <1>0, <1>3, <1>4, <1>5 DEF Aliases, TypeOK, Row
  <2>2. \A t \in Symbols : company'[t] # None => ciks'[company'[t]] # None
    BY <1>0, <1>5, <1>8 DEF Aliases, TypeOK
  <2> QED
    BY <2>1, <2>2 DEF Aliases
<1>12. \A q \in Procs : Decided(q, work[q])'
  <2> SUFFICES ASSUME NEW q \in Procs PROVE Decided(q, work[q])'
    OBVIOUS
  <2>1. CASE q = p
    BY <1>9, <2>1 DEF Decided, Idle, Inserts
  <2>2. CASE q # p
    <3>1. work'[q] = work[q] /\ Decided(q, work[q])
      BY <1>9, <2>2 DEF RegistryInv
    <3>2. work[q].do = "list" => \A t \in Symbols : company'[t] # work[q].key
      BY <1>1, <1>8, <2>2, <3>1 DEF Decided
    <3> QED
      BY <3>1, <3>2 DEF Decided
  <2> QED
    BY <2>1, <2>2
<1>13. OnePerCompany'
  <2>1. for # None => \A t \in Symbols : company[t] # for
    BY <1>1 DEF Decided
  <2> QED
    BY <1>8, <2>1 DEF RegistryInv, OnePerCompany
<1>14. Kept
  BY <1>3, <1>4, <1>5, <1>6, <1>7 DEF Kept
<1> QED
  BY <1>10, <1>11, <1>12, <1>13, <1>14 DEF RegistryInv

\* An alias, or a refusal.
LEMMA AliasOrDropKeeps ==
  ASSUME RegistryInv, NEW p \in Procs, InsertAlias(p) \/ Drop(p)
  PROVE  RegistryInv' /\ Kept
<1> USE RegistryAssumption
<1> PICK w : w = work[p]
  OBVIOUS
<1> PICK s, key : s = w.of /\ key = w.key
  OBVIOUS
<1>0. TypeOK /\ Aliases /\ Decided(p, w)
  BY DEF RegistryInv
<1>1. UNCHANGED <<ins, names, company>> /\ Done(p)
  BY DEF InsertAlias, Drop
<1>2. work' \in [Procs -> Work] /\ \A q \in Procs : work'[q] = IF q = p THEN Idle ELSE work[q]
  BY <1>1, DoneKeeps
<1>3. /\ tickers' \in [Symbols -> Holders]
      /\ \A k \in Symbols : tickers[k] # None => tickers'[k] # None
  <2>1. tickers \in [Symbols -> Holders]
    BY <1>0 DEF TypeOK, Holders
  <2>2. CASE tickers' = tickers
    BY <2>1, <2>2
  <2>3. CASE tickers' # tickers
    <3>1. w.do = "ticker" /\ tickers' = Aliased(tickers, key, s)
      BY <2>3 DEF InsertAlias, Drop
    <3>2. s \in Symbols /\ key \in Symbols
      BY <1>0, <3>1 DEF Decided
    <3> PICK b : b = Aliased(tickers, key, s)
      OBVIOUS
    <3> QED
      BY <2>1, <3>1, <3>2, AliasKept
  <2> QED
    BY <2>2, <2>3
<1>4. /\ ciks' \in [Ciks -> Holders]
      /\ \A k \in Ciks : ciks[k] # None => ciks'[k] # None
  <2>1. ciks \in [Ciks -> Holders]
    BY <1>0 DEF TypeOK, Holders
  <2>2. CASE ciks' = ciks
    BY <2>1, <2>2
  <2>3. CASE ciks' # ciks
    <3>1. w.do = "cik" /\ ciks' = Aliased(ciks, key, s)
      BY <2>3 DEF InsertAlias, Drop
    <3>2. s \in Symbols /\ key \in Ciks
      BY <1>0, <3>1 DEF Decided
    <3> PICK b : b = Aliased(ciks, key, s)
      OBVIOUS
    <3> QED
      BY <2>1, <3>1, <3>2, AliasKept
  <2> QED
    BY <2>2, <2>3
<1>5. TypeOK'
  BY <1>0, <1>1, <1>2, <1>3, <1>4 DEF TypeOK, Holders
<1>6. Aliases'
  <2>1. \A t \in Symbols : ins'[t].cik # None => ciks'[ins'[t].cik] # None
    BY <1>0, <1>1, <1>4 DEF Aliases, TypeOK, Row
  <2>2. \A t \in Symbols : company'[t] # None => ciks'[company'[t]] # None
    BY <1>0, <1>1, <1>4 DEF Aliases, TypeOK
  <2> QED
    BY <2>1, <2>2 DEF Aliases
<1>7. \A q \in Procs : Decided(q, work[q])'
  BY <1>1, <1>2 DEF RegistryInv, Decided, Idle, Inserts
<1>8. OnePerCompany' /\ Kept
  BY <1>1, <1>3, <1>4 DEF RegistryInv, OnePerCompany, Kept
<1> QED
  BY <1>5, <1>6, <1>7, <1>8 DEF RegistryInv

\* Every step keeps the invariant, and every key.
LEMMA NextKeeps ==
  ASSUME RegistryInv, [Next]_vars
  PROVE  RegistryInv' /\ Kept
<1>1. CASE UNCHANGED vars
  <2>1. TypeOK' /\ Aliases' /\ OnePerCompany' /\ Kept
    BY <1>1 DEF vars, RegistryInv, TypeOK, Aliases, OnePerCompany, Kept
  <2>2. \A q \in Procs : Decided(q, work[q])'
    BY <1>1 DEF vars, RegistryInv, Decided
  <2> QED
    BY <2>1, <2>2 DEF RegistryInv
<1>2. ASSUME NEW p \in Editors, EditorStep(p) PROVE RegistryInv' /\ Kept
  BY <1>2, EditorDecides
<1>3. ASSUME NEW s \in Symbols, NEW n \in Names, AddName(s, n) PROVE RegistryInv' /\ Kept
  BY <1>3, NamesKeep DEF AddName
<1>4. ASSUME NEW s \in Symbols, NEW c \in Ciks \cup {None}, NEW n \in Keyed, Edit(s, c, n)
      PROVE  RegistryInv' /\ Kept
  BY <1>4, EditKeeps
<1>5. ASSUME NEW i \in Items, Register(i) PROVE RegistryInv' /\ Kept
  BY <1>5, SyncDecides
<1>6. ASSUME NEW p \in Procs, Write(p) PROVE RegistryInv' /\ Kept
  BY <1>6, InsertKeeps, AliasOrDropKeeps DEF Write
<1>7. CASE GiveCik
  BY <1>7, GiveKeeps
<1> QED
  BY <1>1, <1>2, <1>3, <1>4, <1>5, <1>6, <1>7 DEF Next

\* What is kept is what resolves (resolve).
LEMMA KeptResolves ==
  ASSUME RegistryInv, RegistryInv', Kept
  PROVE  /\ \A c \in Ciks : CikHolder(c) # None => CikHolder(c)' # None
         /\ \A s \in Symbols : Arrives(s) => Arrives(s)'
         /\ \A n \in Names : NameHolders(n) \subseteq NameHolders(n)'
<1> USE RegistryAssumption
<1>1. ASSUME NEW c \in Ciks, CikHolder(c) # None PROVE CikHolder(c)' # None
  <2>1. ciks'[c] # None
    BY <1>1, CikIsAlias DEF RegistryInv, Kept
  <2>2. CASE \E s \in Symbols : ins'[s].cik = c
    <3>1. (CHOOSE s \in Symbols : ins'[s].cik = c) \in Symbols
      BY <2>2
    <3> QED
      BY <2>2, <3>1 DEF CikHolder
  <2>3. CASE ~ \E s \in Symbols : ins'[s].cik = c
    BY <2>1, <2>3 DEF CikHolder
  <2> QED
    BY <2>2, <2>3
<1>2. ASSUME NEW s \in Symbols, Arrives(s) PROVE Arrives(s)'
  BY <1>2 DEF Arrives, TickerHolder, Kept
<1>3. ASSUME NEW n \in Names PROVE NameHolders(n) \subseteq NameHolders(n)'
  BY DEF NameHolders, Kept
<1> QED
  BY <1>1, <1>2, <1>3

LEMMA AlwaysInv == Spec => []RegistryInv
<1>1. Init => RegistryInv
  BY InitInv
<1>2. RegistryInv /\ [Next]_vars => RegistryInv'
  BY NextKeeps
<1> QED
  BY <1>1, <1>2, PTL DEF Spec

------------------------------------------------------------------------------

\* Every variable keeps its type (instruments.js, ingest.js).
THEOREM TypeCorrect == Spec => []TypeOK
<1>1. RegistryInv => TypeOK
  BY DEF RegistryInv
<1> QED
  BY <1>1, AlwaysInv, PTL

\* SEC's list makes one instrument per company (ingest.js, registerInstrument).
THEOREM CompaniesOnce == Spec => []OnePerCompany
<1>1. RegistryInv => OnePerCompany
  BY DEF RegistryInv
<1> QED
  BY <1>1, AlwaysInv, PTL

\* A key that names an instrument names one for ever (instruments.js, update, addAlias, resolve).
THEOREM KeysKept == Spec => NeverLost
<1>1. RegistryInv /\ RegistryInv' /\ [Next]_vars =>
        [/\ \A c \in Ciks : CikHolder(c) # None => CikHolder(c)' # None
         /\ \A s \in Symbols : Arrives(s) => Arrives(s)'
         /\ \A n \in Names : NameHolders(n) \subseteq NameHolders(n)']_vars
  BY NextKeeps, KeptResolves
<1> QED
  BY <1>1, AlwaysInv, PTL DEF Spec, NeverLost

==============================================================================
