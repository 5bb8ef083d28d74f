------------------------------ MODULE LedgerPage ------------------------------
(***************************************************************************)
(* The /ledger pages (internal/web/ledger_handlers.go, ledger_view.go),    *)
(* the JSON API and the trip pages that write entries beside them          *)
(* (api_handlers.go, handlers.go), and the cost basis the trip pages price *)
(* with (costs.go).                                                        *)
(*                                                                         *)
(* A ledger page holds the handlers' mutex from its edit until it is       *)
(* rendered, with six statements.  The API and the trip pages do not take  *)
(* it.  The cost basis is cached behind a mutex of its own, which is held  *)
(* while it is fetched; the pages discard it when they edit contracts or   *)
(* dues, book or unbook, the API does not.                                 *)
(***************************************************************************)
EXTENDS CostBasis, Allocation
Seqs == INSTANCE SequencesExt

CONSTANTS
  Clients, Nobody,
  Tables,               \* contents of the database to start from
  NoContract,           \* a NULL contract_id
  ContractRows,         \* what may be typed into a contract form,
  EntryRows,            \* an entry form (useYear 0: left blank)
  DuesRows,             \* and a dues form, or sent to the API
  Charges,              \* the rows a booking may insert
  Jobs,                 \* what clients may ask for
  Today,                \* the date
  costBasisTTL, recentActivityLimit, spentByYearLimit, duesPreviewYears,
  MaxSends, MaxEdits,   \* bounds: requests in all, edits among them,
  MaxTime               \* ticks of the clock

ASSUME LimitsAssumption ==
  /\ {costBasisTTL, recentActivityLimit, spentByYearLimit} \subseteq Nat \ {0}
  /\ {duesPreviewYears, MaxSends, MaxEdits, MaxTime} \subseteq Nat

ASSUME ClientsAssumption == Nobody \notin Clients

ASSUME TablesAssumption ==
  \A t \in Tables :
    t = [contracts |-> t.contracts, dues |-> t.dues, entries |-> t.entries, rows |-> t.rows]

Date == [year : Int, month : 1..12]
ContractRow == [annual : Int, month : 1..12, term : Int, price : Int, closing : Int]
EntryRow ==
  [date : Date, useYear : Int, contract : Int \cup {NoContract}, allotted : Int, used : Int]
Entry ==
  [id : Int, date : Date, contract : Int \cup {NoContract}, useYear : Int,
   allotted : Int, used : Int]

\* Finitely many rows.  Ids are handed out once; dues are of calendar years.
ContractsTyped(contracts) ==
  /\ contracts \in [DOMAIN contracts -> ContractRow]
  /\ DOMAIN contracts \subseteq Int /\ IsFiniteSet(DOMAIN contracts)
DuesTyped(dues) ==
  /\ dues \in [DOMAIN dues -> Int]
  /\ DOMAIN dues \subseteq Nat /\ IsFiniteSet(DOMAIN dues)
EntriesTyped(entries, rows) ==
  /\ entries \subseteq Entry /\ IsFiniteSet(entries) /\ rows \in Int
  /\ \A e \in entries : e.id <= rows
  /\ \A e, f \in entries : e.id = f.id => e = f

ASSUME RowsAssumption ==
  /\ ContractRows \subseteq ContractRow /\ EntryRows \subseteq EntryRow
  /\ \A rows \in Charges : rows \in Seq(EntryRow)
  /\ \A row \in DuesRows : row.year \in Nat /\ row.rate \in Int
  /\ Today \in Date
  /\ \A t \in Tables : /\ ContractsTyped(t.contracts) /\ DuesTyped(t.dues)
                       /\ EntriesTyped(t.entries, t.rows)

VARIABLES
  db,       \* [contracts, dues, entries, rows]: rows numbers the rows inserted
  now,      \* the time
  mu,       \* who holds ledgerHandlers.mu
  costs,    \* the costProvider
  pc,       \* where each client's request is
  job,      \* [via, op] of the request
  saw,      \* the tables each statement of its page saw
  got,      \* the contracts its fetch of the basis has read
  sent,     \* [requests, edits] so far
  past      \* for the properties only: see Past

vars == <<db, now, mu, costs, pc, job, saw, got, sent, past>>

\* changed: when contracts or dues last changed.  missed: they changed, and
\* the change was not followed by Invalidate, since the last fetch began.
\* mixed: clients whose page had been read in part when someone wrote who does
\* not take its mutex, the API or a trip page.
Past == [changed : Int, missed : BOOLEAN, mixed : SUBSET Clients]

CostEdits == {"addContract", "updateContract", "deleteContract", "upsertDues", "deleteDues"}
EntryEdits == {"addEntry", "updateEntry", "deleteEntry"}
TripEdits == {"bookTrip", "unbookTrip", "removeStay", "deleteTrip"}

\* One statement each, in the order of buildLedgerView.
ViewReads == <<"entries", "summaries", "contracts", "dues", "basisContracts", "basisDues">>

At(r, label) == pc[r] = label

\* A request that is answered is forgotten.
Nothing == [via |-> "page", op |-> "view"]
Goto(r, label) ==
  /\ pc' = [pc EXCEPT ![r] = label]
  /\ job' = IF label = "idle" THEN [job EXCEPT ![r] = Nothing] ELSE job
ByApi(r) == job[r].via = "api"
ByPage(r) == job[r].via = "page"

-----------------------------------------------------------------------------
(* Requests and the page's mutex. *)

Send(r) ==
  /\ At(r, "idle") /\ sent.requests < MaxSends
  /\ \E j \in Jobs :
       /\ sent' = [requests |-> sent.requests + 1,
                   edits |-> sent.edits + (IF j.op = "view" THEN 0 ELSE 1)]
       /\ sent'.edits <= MaxEdits
       /\ job' = [job EXCEPT ![r] = j]
       /\ pc' = [pc EXCEPT ![r] = CASE j.via = "page" -> "lock"
                                    [] j.via = "planner" -> "costs" [] OTHER -> "edit"]
  /\ UNCHANGED <<db, now, mu, costs, saw, got, past>>

MutantMayLock == TRUE  \* no mutex
MayLock == mu = Nobody

\* A page to look at, or a form that does not parse, is rendered at once.
Lock(r) ==
  /\ At(r, "lock") /\ MayLock
  /\ mu' = r
  /\ Goto(r, IF job[r].op \in CostEdits \cup EntryEdits THEN "edit" ELSE "render")
  /\ UNCHANGED <<db, now, costs, saw, got, sent, past>>

-----------------------------------------------------------------------------
(* The edits: one statement each. *)

Editing(r, op) == At(r, "edit") /\ job[r].op = op

Reading(r) == At(r, "render") /\ DOMAIN saw[r] # {}

\* A trip that is deleted answers with a redirect, which shows no costs.
Discards(r) == ~ByApi(r) /\ job[r].op \in (CostEdits \cup TripEdits) \ {"deleteTrip"}

\* After a statement or transaction that was executed: the pages discard the
\* cost basis, if they do so after this edit, and are rendered; everyone else
\* is answered.  When its own answer is lost, a page shows the error instead.
Executed(r) ==
  /\ \E lost \in BOOLEAN :
       LET discards == Discards(r) /\ ~lost IN
       /\ lost => Discards(r)
       /\ Goto(r, IF discards THEN "invalidate" ELSE IF ByPage(r) THEN "render" ELSE "idle")
       /\ past' = [changed |-> IF job[r].op \in CostEdits THEN now ELSE past.changed,
                   missed  |-> past.missed \/ (job[r].op \in CostEdits /\ ~discards),
                   mixed   |-> past.mixed \cup
                                 (IF ByPage(r) THEN {} ELSE {q \in Clients : Reading(q)})]
  /\ UNCHANGED <<now, mu, costs, saw, got, sent>>

\* A year left blank is the year of the date.
Typed(id, row) ==
  [id |-> id, date |-> row.date, contract |-> row.contract,
   useYear |-> IF row.useYear = 0 THEN row.date.year ELSE row.useYear,
   allotted |-> row.allotted, used |-> row.used]

\* The foreign key of entry.contract_id.
References(row) == row.contract \in DOMAIN db.contracts \cup {NoContract}

AddEntry(r) ==
  /\ Editing(r, "addEntry")
  /\ \E row \in EntryRows :
       References(row) /\ db' = [db EXCEPT !.entries = @ \cup {Typed(db.rows + 1, row)},
                                            !.rows = @ + 1]
  /\ Executed(r)

UpdateEntry(r) ==
  /\ Editing(r, "updateEntry")
  /\ \/ \E e \in db.entries, row \in EntryRows :
          References(row) /\ db' = [db EXCEPT !.entries = (@ \ {e}) \cup {Typed(e.id, row)}]
     \/ UNCHANGED db
  /\ Executed(r)

DeleteEntry(r) ==
  /\ Editing(r, "deleteEntry")
  /\ \/ \E e \in db.entries : db' = [db EXCEPT !.entries = @ \ {e}]
     \/ UNCHANGED db
  /\ Executed(r)

\* A booking commits a row for every lot it draws from, none when the trip is
\* booked already.
BookTrip(r) ==
  /\ Editing(r, "bookTrip")
  /\ \E rows \in Charges :
       /\ \A i \in DOMAIN rows : References(rows[i])
       /\ db' = [db EXCEPT !.entries = @ \cup {Typed(db.rows + i, rows[i]) : i \in DOMAIN rows},
                           !.rows = @ + Len(rows)]
  /\ Executed(r)

\* One commit too.  Which rows the stays are charged with is left open.
RemoveCharges(r) ==
  /\ \E op \in TripEdits \ {"bookTrip"} : Editing(r, op)
  /\ \E charged \in SUBSET db.entries : db' = [db EXCEPT !.entries = @ \ charged]
  /\ Executed(r)

With(f, x, y) == [z \in DOMAIN f \cup {x} |-> IF z = x THEN y ELSE f[z]]
Without(f, x) == [z \in DOMAIN f \ {x} |-> f[z]]

\* The API knows neither price nor term.
ContractOf(r, row) ==
  IF ByApi(r) THEN [row EXCEPT !.term = 0, !.price = 0, !.closing = 0] ELSE row

AddContract(r) ==
  /\ Editing(r, "addContract")
  /\ \E row \in ContractRows :
       db' = [db EXCEPT !.contracts = With(@, db.rows + 1, ContractOf(r, row)),
                       !.rows = @ + 1]
  /\ Executed(r)

\* Not offered by the API.
UpdateContract(r) ==
  /\ Editing(r, "updateContract")
  /\ \/ \E c \in DOMAIN db.contracts, row \in ContractRows :
          db' = [db EXCEPT !.contracts[c] = row]
     \/ UNCHANGED db
  /\ Executed(r)

\* ON DELETE SET NULL on its entries.
DeleteContract(r) ==
  /\ Editing(r, "deleteContract")
  /\ \/ \E c \in DOMAIN db.contracts :
          db' = [db EXCEPT !.contracts = Without(@, c),
                           !.entries = {IF e.contract = c THEN [e EXCEPT !.contract = NoContract]
                                        ELSE e : e \in @}]
     \/ UNCHANGED db
  /\ Executed(r)

\* A rate that is not positive is rejected.
UpsertDues(r) ==
  /\ Editing(r, "upsertDues")
  /\ \E row \in DuesRows :
       row.rate > 0 /\ db' = [db EXCEPT !.dues = With(@, row.year, row.rate)]
  /\ Executed(r)

DeleteDues(r) ==
  /\ Editing(r, "deleteDues")
  /\ \/ \E y \in DOMAIN db.dues : db' = [db EXCEPT !.dues = Without(@, y)]
     \/ UNCHANGED db
  /\ Executed(r)

\* The store or the database refuses, or the statement fails unexecuted.
RejectEdit(r) ==
  /\ At(r, "edit")
  /\ Goto(r, IF ByPage(r) THEN "render" ELSE "idle")
  /\ UNCHANGED <<db, now, mu, costs, saw, got, sent, past>>

\* A trip page may fail before it comes to the costs.
Invalidate(r) ==
  /\ At(r, "invalidate") /\ costs.mu = Nobody
  /\ costs' = [costs EXCEPT !.ok = FALSE]
  /\ \E label \in IF ByPage(r) THEN {"render"} ELSE {"costs", "idle"} : Goto(r, label)
  /\ UNCHANGED <<db, now, mu, saw, got, sent, past>>

-----------------------------------------------------------------------------
(* Rendering. *)

ReadView(r) ==
  LET done == DOMAIN saw[r] IN
  /\ At(r, "render") /\ Cardinality(done) < Len(ViewReads)
  /\ saw' = [saw EXCEPT ![r] = With(@, ViewReads[Cardinality(done) + 1], db)]
  /\ UNCHANGED <<db, now, mu, costs, pc, job, got, sent, past>>

MutantReleased(r) == IF Cardinality(DOMAIN saw[r]) < Len(ViewReads) THEN mu ELSE Nobody
Released(r) == Nobody

\* The page is answered, or a statement failed and 500 is; either way the
\* mutex is given back.
Finish(r) ==
  /\ mu' = Released(r)
  /\ saw' = [saw EXCEPT ![r] = << >>]
  /\ past' = [past EXCEPT !.mixed = @ \ {r}]
  /\ Goto(r, "idle")
  /\ UNCHANGED <<db, now, costs, got, sent>>

Show(r) == At(r, "render") /\ Cardinality(DOMAIN saw[r]) = Len(ViewReads) /\ Finish(r)
FailView(r) == At(r, "render") /\ Cardinality(DOMAIN saw[r]) < Len(ViewReads) /\ Finish(r)

-----------------------------------------------------------------------------
(* The cost basis of a trip page. *)

MutantFresh == costs.ok /\ now - costs.fetchedAt <= costBasisTTL
Fresh == costs.ok /\ now - costs.fetchedAt < costBasisTTL

MutantFetcher(r) == Nobody  \* fetched without the mutex
Fetcher(r) == r

Basis(r) ==
  /\ At(r, "costs") /\ costs.mu = Nobody
  /\ IF Fresh
     THEN Goto(r, "idle") /\ UNCHANGED <<costs, past>>
     ELSE /\ costs' = [costs EXCEPT !.mu = Fetcher(r), !.began = now]
          /\ past' = [past EXCEPT !.missed = FALSE]
          /\ Goto(r, "fetchContracts")
  /\ UNCHANGED <<db, now, mu, saw, got, sent>>

FetchContracts(r) ==
  /\ At(r, "fetchContracts")
  /\ got' = [got EXCEPT ![r] = db.contracts]
  /\ Goto(r, "fetchDues")
  /\ UNCHANGED <<db, now, mu, costs, saw, sent, past>>

FetchDues(r) ==
  /\ At(r, "fetchDues")
  /\ costs' = [costs EXCEPT !.mu = Nobody, !.ok = TRUE, !.fetchedAt = now,
                            !.basis = NewCostBasis(got[r], db.dues)]
  /\ got' = [got EXCEPT ![r] = << >>]
  /\ Goto(r, "idle")
  /\ UNCHANGED <<db, now, mu, saw, sent, past>>

\* The page is shown without costs.
FailFetch(r) ==
  /\ pc[r] \in {"fetchContracts", "fetchDues"}
  /\ costs' = [costs EXCEPT !.mu = Nobody, !.ok = FALSE]
  /\ got' = [got EXCEPT ![r] = << >>]
  /\ Goto(r, "idle")
  /\ UNCHANGED <<db, now, mu, saw, sent, past>>

Tick ==
  /\ now < MaxTime
  /\ now' = now + 1
  /\ UNCHANGED <<db, mu, costs, pc, job, saw, got, sent, past>>

\* All requests are answered and the bounds are reached.
Done == sent.requests = MaxSends /\ now = MaxTime /\ (\A r \in Clients : At(r, "idle")) /\ UNCHANGED vars

Init ==
  /\ db \in Tables
  /\ now = 0 /\ mu = Nobody
  /\ sent = [requests |-> 0, edits |-> 0]
  /\ costs = [mu |-> Nobody, ok |-> FALSE, basis |-> ZeroBasis, fetchedAt |-> 0, began |-> 0]
  /\ pc = [r \in Clients |-> "idle"]
  /\ job = [r \in Clients |-> Nothing]
  /\ saw = [r \in Clients |-> << >>]
  /\ got = [r \in Clients |-> << >>]
  /\ past = [changed |-> 0, missed |-> FALSE, mixed |-> {}]

Handle(r) ==
  \/ Lock(r) \/ Invalidate(r) \/ ReadView(r) \/ Show(r) \/ FailView(r)
  \/ AddEntry(r) \/ UpdateEntry(r) \/ DeleteEntry(r) \/ BookTrip(r) \/ RemoveCharges(r)
  \/ AddContract(r) \/ UpdateContract(r) \/ DeleteContract(r)
  \/ UpsertDues(r) \/ DeleteDues(r) \/ RejectEdit(r)
  \/ Basis(r) \/ FetchContracts(r) \/ FetchDues(r) \/ FailFetch(r)

Next == (\E r \in Clients : Send(r) \/ Handle(r)) \/ Tick \/ Done

Spec == Init /\ [][Next]_vars

-----------------------------------------------------------------------------
(* What a page shows. *)

Saw(r, x) == saw[r][x]
PageBasis(r) == NewCostBasis(Saw(r, "basisContracts").contracts, Saw(r, "basisDues").dues)

\* Ordered by date, then by id.
ListedBefore(e, f) ==
  LET day(x) == 12 * x.date.year + x.date.month
  IN  day(e) < day(f) \/ (day(e) = day(f) /\ e.id < f.id)
ListEntries(entries) ==
  [i \in 1..Cardinality(entries) |->
     CHOOSE e \in entries : Cardinality({f \in entries : ListedBefore(f, e)}) = i - 1]

RunningBalance(list) ==
  LET upto[i \in 0..Len(list)] ==
        IF i = 0 THEN 0 ELSE upto[i - 1] + list[i].allotted - list[i].used
  IN  upto

Total(entries) == RunningBalance(ListEntries(entries))[Cardinality(entries)]

UseYearSummaries(entries) ==
  [y \in {e.useYear : e \in entries} |->
     LET rows == {e \in entries : e.useYear = y}
     IN  [allotted |-> SignedSum([e \in rows |-> e.allotted], rows),
          used     |-> SignedSum([e \in rows |-> e.used], rows)]]

EntryCost(basis, e) == Cost(basis, e.used, e.useYear, e.contract)

\* PriceSummaries: an entry of a year without a summary is dropped.
SummaryCost(basis, entries, y) ==
  LET rows == {e \in entries : e.useYear = y}
  IN  SignedSum([e \in rows |-> EntryCost(basis, e).cents], rows)
TotalCost(basis, entries) ==
  SignedSum([e \in entries |-> EntryCost(basis, e).cents], entries)

\* The newest entries, newest first.
recentEntries(list) ==
  LET n == Smaller(recentActivityLimit, Len(list))
  IN  Seqs!Reverse(SubSeq(list, Len(list) - n + 1, Len(list)))

\* The newest use years, newest first, without future years nothing is spent in.
spentByYear(summaries, current) ==
  LET kept == {y \in DOMAIN summaries : y <= current \/ summaries[y].used # 0}
      rank(y) == Cardinality({z \in kept : z >= y})
  IN  [i \in 1..Smaller(spentByYearLimit, Cardinality(kept)) |->
         CHOOSE y \in kept : rank(y) = i]

CurrentYear(basis) == UseYearForDate(Today, basis.month)

\* The stored rates and the years projected beyond the last of them.
duesRows(dues) ==
  LET last == CHOOSE y \in DOMAIN dues : \A z \in DOMAIN dues : z <= y
  IN  [y \in DOMAIN dues \cup
         (IF DOMAIN dues = {} THEN {} ELSE last + 1..last + duesPreviewYears) |->
           y \notin DOMAIN dues]

\* The rates of the contracts' table.
contractRows(contracts) ==
  [c \in {d \in DOMAIN contracts : HasPrice(contracts[d])} |-> PricePerPointYear(contracts[c])]

\* The balance at the blended rate; it may be negative.
balanceValue(basis, balance) ==
  PointCost(balance, basis.blended, DuesFor(basis, CurrentYear(basis)).rate)

-----------------------------------------------------------------------------
(* Correctness. *)

Locked == {"edit", "invalidate", "render"}

\* Only the holder of a mutex is where it must be held, one holder at most,
\* and nothing in the cache comes from the future.
TypeOK ==
  /\ sent.requests <= MaxSends /\ sent.edits <= MaxEdits /\ now \in 0..MaxTime
  /\ past \in Past
  /\ \A r \in Clients : ByPage(r) /\ pc[r] \in Locked <=> mu = r
  /\ \A r \in Clients : pc[r] \in {"fetchContracts", "fetchDues"} <=> costs.mu = r
  /\ costs.ok /\ costs.mu = Nobody => costs.began <= costs.fetchedAt /\ costs.fetchedAt <= now

CurrentBasis == NewCostBasis(db.contracts, db.dues)

(***************************************************************************)
(* Once Invalidate has returned, no trip page prices with what was there   *)
(* before the edit: a fetch that overlaps the edit holds the mutex, so it  *)
(* is discarded after it.  Edits nobody invalidates for are excepted.      *)
(***************************************************************************)
CacheCurrent ==
  costs.ok /\ costs.mu = Nobody /\ ~past.missed
    /\ (\A r \in Clients : At(r, "invalidate") => job[r].op \notin CostEdits)
    => costs.basis = CurrentBasis

\* The request of r is answered with the basis in the cache.
Served(r) == pc[r] \in {"costs", "fetchDues"} /\ pc'[r] = "idle" /\ costs'.ok

(***************************************************************************)
(* Any edit, by the API or with its answer lost too, reaches the trip      *)
(* pages within the time a basis is cached, plus the time it took to fetch *)
(* one.                                                                    *)
(***************************************************************************)
EditsReachTripPages ==
  [][\A r \in Clients : Served(r) /\ costs'.basis # CurrentBasis =>
       now - past.changed < costBasisTTL + (costs'.fetchedAt - costs'.began)]_vars

(***************************************************************************)
(* Once a ledger page has begun to read, only an API call or a trip page   *)
(* can write.  When neither did, the page adds up, although six statements *)
(* read it: the balance is the sum of the use years, the cost of the years *)
(* the cost of the entries, the recent rows lead from an earlier balance   *)
(* to the last, every contract is shown at the rate it is priced with, and *)
(* exactly the years that are not stored are projected.                    *)
(***************************************************************************)
ViewAddsUp ==
  \A r \in Clients : At(r, "render") /\ Cardinality(DOMAIN saw[r]) = Len(ViewReads)
                   /\ r \notin past.mixed =>
    LET entries == Saw(r, "entries").entries
        list == ListEntries(entries)
        balance == RunningBalance(list)
        summaries == UseYearSummaries(Saw(r, "summaries").entries)
        years == DOMAIN summaries
        basis == PageBasis(r)
        recent == recentEntries(list)
        spent == spentByYear(summaries, CurrentYear(basis))
        shown == {spent[i] : i \in DOMAIN spent}
    IN  /\ Total(entries) = SignedSum([y \in years |-> summaries[y].allotted], years)
                              - SignedSum([y \in years |-> summaries[y].used], years)
        /\ SignedSum([y \in years |-> SummaryCost(basis, entries, y)], years)
             = TotalCost(basis, entries)
        /\ balance[Len(list)] - balance[Len(list) - Len(recent)] =
             SignedSum([e \in entries |-> e.allotted], {recent[i] : i \in DOMAIN recent})
               - SignedSum([e \in entries |-> e.used], {recent[i] : i \in DOMAIN recent})
        /\ \A y \in years : summaries[y].used > 0 /\ y \notin shown =>
             Len(spent) = spentByYearLimit /\ \A z \in shown : z > y
        /\ LET rates == contractRows(Saw(r, "contracts").contracts)
           IN  \A c \in DOMAIN rates : RateFor(basis, c) = rates[c]
        /\ LET rows == duesRows(Saw(r, "dues").dues)
           IN  \A y \in DOMAIN rows : rows[y] = DuesFor(basis, y).projected

(***************************************************************************)
(* What an entry cost, and what the balance is worth, is right to half a   *)
(* cent, negative balances included.                                       *)
(***************************************************************************)
NearestCent(cents, micros) == 2 * Absolute(cents * microsPerCent - micros) <= microsPerCent
PricedToTheCent ==
  LET basis == CurrentBasis
      balance == Total(db.entries)
  IN  Known(basis) =>
        /\ \A e \in {f \in db.entries : f.used > 0} :
             NearestCent(EntryCost(basis, e).cents,
                         e.used * (RateFor(basis, e.contract) + DuesFor(basis, e.useYear).rate))
        /\ NearestCent(balanceValue(basis, balance),
                       balance * (basis.blended + DuesFor(basis, CurrentYear(basis)).rate))

(***************************************************************************)
(* The blended rate lies among the rates of the priced contracts, however  *)
(* many contracts have no price yet.                                       *)
(***************************************************************************)
BlendedAmongRates ==
  LET basis == CurrentBasis
      rates == {basis.rates[c] : c \in DOMAIN basis.rates}
  IN  rates # {} => (\E a, b \in rates : a <= basis.blended /\ basis.blended <= b)

(***************************************************************************)
(* Projected dues follow the trend of the stored ones: when they grow, a   *)
(* year before the first is no dearer and a year after a stored one no     *)
(* cheaper; when they shrink, the other way round.                         *)
(***************************************************************************)
DuesFollowTrend ==
  LET basis == CurrentBasis
      stored == DOMAIN basis.dues
      Rate(y) == DuesFor(basis, y).rate
  IN  \A first \in stored :
        /\ basis.growth >= duesGrowthBase =>
             /\ \A y \in first..first + duesPreviewYears : y + 1 \notin stored => Rate(y) <= Rate(y + 1)
             /\ (\A y \in stored : first <= y) =>
                  \A y \in first - duesPreviewYears..first - 1 : Rate(y) <= Rate(y + 1)
        /\ basis.growth <= duesGrowthBase =>
             /\ \A y \in first..first + duesPreviewYears : y + 1 \notin stored => Rate(y) >= Rate(y + 1)
             /\ (\A y \in stored : first <= y) =>
                  \A y \in first - duesPreviewYears..first - 1 : Rate(y) >= Rate(y + 1)

=============================================================================
