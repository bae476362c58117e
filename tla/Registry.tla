------------------------------- MODULE Registry -------------------------------
(***************************************************************************)
(* Which instrument a ticker, a CIK or a name names (domain/instruments.js) *)
(* while editors create, edit and alias instruments, and the sync registers *)
(* the companies of SEC's list and the currencies of the rates it reads     *)
(* (domain/ingest.js, domain/mapping.js).  Every writer looks first and     *)
(* writes in a later statement, so each has two steps here; the unique      *)
(* indexes decide at the second.  A page of the sync is one item.           *)
(*                                                                         *)
(* A symbol is unique, is never changed, and instruments are never deleted: *)
(* the symbol stands for the instrument.  Keys are normalised already; the  *)
(* name and the exchange a page displays are left out, the keys are not.    *)
(***************************************************************************)
EXTENDS Naturals

CONSTANTS
  Symbols,  \* tickers: each may be an instrument's symbol, or an alias of one
  Ciks,     \* SEC's company keys
  Names,    \* normalised names, which instruments may share
  Editors,  \* requests of editors
  Sync,     \* the worker's sync, one run at a time
  None

ASSUME RegistryAssumption ==
  /\ None \notin Symbols \cup Ciks \cup Names
  /\ Sync \notin Editors

VARIABLES
  ins,      \* trade_instruments, by symbol
  tickers,  \* the ticker aliases: ticker -> instrument, or None (a unique index)
  ciks,     \* the cik aliases, likewise
  names,    \* the name aliases of each instrument
  company,  \* history: the CIK of SEC's list an instrument was created for
  work      \* what each request, and the sync, has decided to write

vars == <<ins, tickers, ciks, names, company, work>>

Procs == Editors \cup {Sync}

\* A name has one key, or none (normName drops every letter that is not A-Z, 0-9).
Keyed == {{}} \cup {{n} : n \in Names}

\* bySync: created_by is the sync itself (svc:trade), not a person and not nobody.
Row == [listed: BOOLEAN, bySync: BOOLEAN, cik: Ciks \cup {None}]

NoRow == [listed |-> FALSE, bySync |-> FALSE, cik |-> None]

\* create, list, currency: insert the instrument `of` with the CIK `key`, for an editor, for SEC's
\* list or for a rate; ticker, cik: make `key` an alias of `of`; give: set the CIK of `of`.
Inserts == {"create", "list", "currency"}

Work == [do: Inserts \cup {"nothing", "ticker", "cik", "give"},
         of: Symbols \cup {None}, key: Symbols \cup Ciks \cup {None}]

Idle == [do |-> "nothing", of |-> None, key |-> None]

TypeOK ==
  /\ ins \in [Symbols -> Row]
  /\ tickers \in [Symbols -> Symbols \cup {None}]
  /\ ciks \in [Ciks -> Symbols \cup {None}]
  /\ names \in [Symbols -> SUBSET Names]
  /\ company \in [Symbols -> Ciks \cup {None}]
  /\ work \in [Procs -> Work]

Init ==
  /\ ins = [s \in Symbols |-> NoRow]
  /\ tickers = [s \in Symbols |-> None]
  /\ ciks = [c \in Ciks |-> None]
  /\ names = [s \in Symbols |-> {}]
  /\ company = [s \in Symbols |-> None]
  /\ work = [p \in Procs |-> Idle]

------------------------------------------------------------------------------
(* Resolution *)

\* bySymbol, then the ticker alias.
TickerHolder(s) == IF ins[s].listed THEN s ELSE tickers[s]

\* byCik, then the cik alias.
CikHolder(c) ==
  IF \E s \in Symbols : ins[s].cik = c THEN CHOOSE s \in Symbols : ins[s].cik = c ELSE ciks[c]

\* /i/:ticker is the instrument's page, or a redirect to the one that has the ticker as an alias.
Arrives(s) == TickerHolder(s) # None

\* One holder is an answer, several are candidates.
NameHolders(n) == {s \in Symbols : n \in names[s]}

\* Fault: the old key is given up for the new one.
Moved(aliases, key, s) ==
  [k \in DOMAIN aliases |-> IF k = key THEN s ELSE IF aliases[k] = s THEN None ELSE aliases[k]]

\* ON CONFLICT DO NOTHING: the first holder of an alias keeps it.
Aliased(aliases, key, s) ==
  IF key # None /\ aliases[key] = None THEN [aliases EXCEPT ![key] = s] ELSE aliases

\* The unique index on cik refuses the write.
CikTaken(c, s) == c # None /\ \E t \in Symbols \ {s} : ins[t].cik = c

------------------------------------------------------------------------------
(* Items of the feed *)

Items == [kind: {"instrument", "rate"}, cik: Ciks \cup {None}, symbol: Symbols \cup {None},
          name: Names \cup {None}]

\* What an item states is all there is: a listing needs ticker, CIK and name.
Listed(i) == i.kind = "instrument" /\ None \notin {i.cik, i.symbol, i.name}

\* A rate names the currency it quotes.
Quoted(i) == i.kind = "rate" /\ i.symbol # None

\* resolveKeys: neither the CIK nor the ticker an item states names an instrument.
Unmatched(i) ==
  /\ i.cik # None => CikHolder(i.cik) = None
  /\ i.symbol # None => TickerHolder(i.symbol) = None

------------------------------------------------------------------------------
(* Writers look ... *)

Decide(p, do, of, key) ==
  /\ work[p].do = "nothing"
  /\ work' = [work EXCEPT ![p] = [do |-> do, of |-> of, key |-> key]]
  /\ UNCHANGED <<ins, tickers, ciks, names, company>>

\* create: a ticker alias of another instrument is not shadowed.
NotShadowed(s) == tickers[s] \in {None, s}

Create(p, s, c) == NotShadowed(s) /\ Decide(p, "create", s, c)

\* addAlias: the symbol or the CIK column of another instrument is refused, its alias is not.
AddTicker(p, s, key) ==
  /\ ins[s].listed
  /\ ~(ins[key].listed /\ key # s)
  /\ Decide(p, "ticker", s, key)

AddCik(p, s, key) == ins[s].listed /\ ~CikTaken(key, s) /\ Decide(p, "cik", s, key)

\* A name may be shared: there is nothing to look at.
AddName(s, n) ==
  /\ ins[s].listed
  /\ names' = [names EXCEPT ![s] = @ \cup {n}]
  /\ UNCHANGED <<ins, tickers, ciks, company, work>>

\* Fault: the CIK changes and no alias is kept for it.
EditColumnOnly(s, c, n) ==
  /\ ins[s].listed
  /\ ~CikTaken(c, s)
  /\ ins' = [ins EXCEPT ![s].cik = c]
  /\ names' = [names EXCEPT ![s] = @ \cup n]
  /\ UNCHANGED <<tickers, ciks, company, work>>

\* update by an editor, one transaction: the form posts every field, an empty CIK clears it.
\* Only the new CIK and the new name become aliases; the old ones stay.
Edit(s, c, n) ==
  /\ ins[s].listed
  /\ ~CikTaken(c, s)
  /\ ins' = [ins EXCEPT ![s].cik = c]
  /\ ciks' = Aliased(ciks, c, s)
  /\ names' = [names EXCEPT ![s] = @ \cup n]
  /\ UNCHANGED <<tickers, company, work>>

\* registerInstrument, a CIK Trade knows: another share class becomes a ticker alias ...
RegisterKnown(i) ==
  LET have == CikHolder(i.cik) IN
  /\ Listed(i) /\ have # None
  /\ have # i.symbol /\ tickers[i.symbol] # have
  /\ ~ins[i.symbol].listed
  /\ Decide(Sync, "ticker", have, i.symbol)

\* ... and SEC's name is kept current on the instrument the sync created under this symbol.
RegisterName(i) ==
  LET have == CikHolder(i.cik) IN
  /\ Listed(i) /\ have = i.symbol
  /\ ins[have].bySync
  /\ work[Sync].do = "nothing"
  /\ names' = [names EXCEPT ![have] = @ \cup {i.name}]
  /\ UNCHANGED <<ins, tickers, ciks, company, work>>

\* An editor's equity without a CIK that holds the ticker is this company (an instrument of another
\* kind is skipped: the kind, which editors change, is left out, and skipping is always possible).
RegisterHeld(i) ==
  LET have == TickerHolder(i.symbol) IN
  /\ Listed(i) /\ CikHolder(i.cik) = None
  /\ have # None /\ ins[have].cik = None
  /\ Decide(Sync, "give", have, i.cik)

RegisterNew(i) ==
  /\ Listed(i) /\ Unmatched(i)
  /\ Decide(Sync, "list", i.symbol, i.cik)

\* A rate whose currency no instrument has registers it.
RegisterCurrency(i) ==
  /\ Quoted(i) /\ Unmatched(i)
  /\ Decide(Sync, "currency", i.symbol, None)

------------------------------------------------------------------------------
(* ... and write. *)

Done(p) == work' = [work EXCEPT ![p] = Idle]

\* conflictGuard: the unique indexes refuse the symbol or the CIK.
Refused(w) == ins[w.of].listed \/ CikTaken(w.key, w.of)

\* create, one transaction: the row and its aliases.  Nobody saw its name before.
Insert(p, n) ==
  LET w == work[p] IN
  /\ w.do \in Inserts
  /\ ~Refused(w)
  /\ ins' = [ins EXCEPT ![w.of] =
               [listed |-> TRUE, bySync |-> w.do = "list", cik |-> w.key]]
  /\ tickers' = Aliased(tickers, w.of, w.of)
  /\ ciks' = Aliased(ciks, w.key, w.of)
  /\ names' = [names EXCEPT ![w.of] = @ \cup n]
  /\ company' = [company EXCEPT ![w.of] = IF w.do = "list" THEN w.key ELSE None]
  /\ Done(p)

\* Nothing is written.  The indexes refuse it, or a ticker alias that was added meanwhile is not
\* shadowed: a request answers 409, the sync counts a skip, a rate resolves its keys once more.  Or
\* the statement fails otherwise: a request answers an error, the sync's item is undone and counted
\* as failed, and its cursor goes on.
Drop(p) ==
  /\ work[p].do # "nothing"
  /\ Done(p)
  /\ UNCHANGED <<ins, tickers, ciks, names, company>>

\* addAlias answers success whether the alias was free or not.
InsertAlias(p) ==
  LET w == work[p] IN
  /\ w.do \in {"ticker", "cik"}
  /\ tickers' = IF w.do = "ticker" THEN Aliased(tickers, w.key, w.of) ELSE tickers
  /\ ciks' = IF w.do = "cik" THEN Aliased(ciks, w.key, w.of) ELSE ciks
  /\ Done(p)
  /\ UNCHANGED <<ins, names, company>>

\* update(have, { cik }): whatever the column holds by now is overwritten, unless the CIK is taken.
GiveCik ==
  LET w == work[Sync] IN
  /\ w.do = "give"
  /\ IF CikTaken(w.key, w.of)
       THEN UNCHANGED <<ins, ciks>>
       ELSE /\ ins' = [ins EXCEPT ![w.of].cik = w.key]
            /\ ciks' = Aliased(ciks, w.key, w.of)
  /\ Done(Sync)
  /\ UNCHANGED <<tickers, names, company>>

EditorStep(p) ==
  \/ \E s \in Symbols, c \in Ciks \cup {None} : Create(p, s, c)
  \/ \E s, key \in Symbols : AddTicker(p, s, key)
  \/ \E s \in Symbols, key \in Ciks : AddCik(p, s, key)

Register(i) ==
  RegisterKnown(i) \/ RegisterName(i) \/ RegisterHeld(i) \/ RegisterNew(i) \/ RegisterCurrency(i)

Write(p) ==
  \/ \E n \in Keyed : Insert(p, n)
  \/ Drop(p)
  \/ InsertAlias(p)

Next ==
  \/ \E p \in Editors : EditorStep(p)
  \/ \E s \in Symbols, n \in Names : AddName(s, n)
  \/ \E s \in Symbols, c \in Ciks \cup {None}, n \in Keyed : Edit(s, c, n)
  \/ \E i \in Items : Register(i)
  \/ \E p \in Procs : Write(p)
  \/ GiveCik

Spec == Init /\ [][Next]_vars

------------------------------------------------------------------------------
(* Properties *)

\* SEC's list makes one instrument per company, however editors change and alias its CIKs while
\* the sync registers it (ingest.js, "one instrument per CIK").
OnePerCompany ==
  \A s, t \in Symbols : company[s] # None /\ company[s] = company[t] => s = t

\* A key that named an instrument keeps naming one: a CIK, which filings state, and a ticker, which
\* links to /i/:ticker state, find an instrument after every edit, and a name only gains candidates.
\* (Whether that instrument is archived, and takes no filing, is left out: instruments.js, create,
\* update and resolve.)
NeverLost ==
  [][/\ \A c \in Ciks : CikHolder(c) # None => CikHolder(c)' # None
     /\ \A s \in Symbols : Arrives(s) => Arrives(s)'
     /\ \A n \in Names : NameHolders(n) \subseteq NameHolders(n)']_vars

==============================================================================
