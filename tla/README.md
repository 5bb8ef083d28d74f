# lineleader: a TLA+ model of the points ledger and trip booking

lineleader searches Disney Vacation Club point charts, keeps a ledger of the
points of several contracts, and plans trips whose stays are paid for from that
ledger. The server is one Go process that answers HTML and JSON requests
concurrently against one Postgres database; a command line client calls the
JSON API.

This directory models that code. Paths below are relative to the repository.

## Inventory

| Component | State | Operations | Hard behaviour | What makes it correct | Modules |
|---|---|---|---|---|---|
| Point allocator (`internal/ledger/allocation.go`, `types.go`) | none: a pure function of contracts, lots, draws | `AllocateStayPoints`, `UseYearForDate` | use years that start in different months, several rows for one lot, overdrawn lots | all or nothing, expiring points first, no lot below zero, result independent of the input order | `Allocation`, `AllocationWalk` |
| Trip booking (`trip_book.go`, `trip_accounting.go`, `trip.go`) | tables `trip`, `trip_stay`, `trip_stay_entry`, `entry`, `contract` | `BookTrip`, `UnbookTrip`, `DeleteTrip`, `DeleteStay`, `AddStay` | SERIALIZABLE with a bounded retry against READ COMMITTED transactions of two statements, row locks taken one after the other, deadlocks, stale snapshots, cascades | no lot overspent, a stay paid exactly once, all stays or none, draws legal when they commit, no usage row nobody can reverse | `Booking`, `TripLedger` |
| Import (`trip_import.go`) | the same tables | `ImportBookedTrip` | entries of several stays checked one by one and linked later | only unlinked usage of the right sum is claimed | `Booking` |
| Ledger rows (`entries.go`, `store.go`) | `entry`, `contract` | add, update, delete; `ON DELETE SET NULL` | edits by hand while a booking runs | links never dangle, what a booking has locked does not change | `Booking`, `LedgerPage` |
| Funding previews (`trip_accounting.go`) | none | `PreviewStayFunding`, `PreviewTripFunding`, `shortfall` | binary search over the allocator; unlocked reads | no page asks for more points than a stay needs (it may ask for too few, see Findings); the preview is what the booking then does | `Funding` |
| Trip budget (`budget.go`, `web/render.go`) | none | `BudgetForUseYear`, `TripBudget`, `searchBudgetFor`, `deriveTripStatus` | overrides, use years of other contracts, clamps, reads from different moments | what booking does to what remains; a page never promises too much | `Funding` |
| Yearly distribution (`distribute.go`) | `entry` | `DistributeNextYear` from the page (mutex) and the API (none) | several statements, no transaction, no unique key | at most one allocation per contract and year; every contract that is due advances | `Distribute` |
| Trip pages (`web/handlers.go`) | `trip` columns | update, budget override, filters, add by row number | read-modify-write of all columns without a transaction; a page that is out of date | an undisturbed edit changes only its own column; the stay added is the one shown; deleted trips stay deleted | `TripPages` |
| Stay search (`dvc/search.go`, `dvc/store.go`) | parsed charts | `Search` | seasons with gaps, the limit of nights, ties sorted unstably | every result affordable and gapless; row numbers mean the same twice | `StaySearch` |
| Global filters (`web/global_filters.go`, `dvc/config.go`) | exclusions in memory and in a file | toggle, save, load | the file write fails after the change in memory; restarts | file and memory agree unless a save failed | `TripPages` |
| Cost of points (`cost.go`, `money.go`, `dues.go`, `web/costs.go`) | a cached cost basis | `NewCostBasis`, `DuesFor`, `Cost`, `Basis`, `Invalidate` | a cache with a time to live beside writers that do not invalidate it; rounding; projections in both directions | no page prices from before an edit that invalidated; any edit shows in time | `CostBasis`, `LedgerPage` |
| Ledger pages and API (`web/ledger_handlers.go`, `ledger_view.go`, `api_handlers.go`) | `entry`, `contract`, `dues`, a mutex | every edit, the page and its numbers | six statements outside a transaction; an API and trip pages that write without the mutex | the numbers of one page add up | `LedgerPage` |
| Chart parser (`dvc/parser.go`) | none | parse PDF text | layout | golden tests | none |
| Login, server (`web/auth.go`, `server.go`, `cmd/server`) | signed cookie | middleware, shutdown | expiry | only HTTP plumbing | none |
| SQLite to Postgres (`cmd/ledger-migrate`) | two databases | check empty, copy | the check runs before the transaction | copies all or nothing | none |
| Client (`ledgerclient`, `cmd/dvc`) | none | API calls | none | | none |
| Scripts (`scripts`, `deploy`) | files, docker tags | release, rollout | | | none |

How they interact: the web handlers and API handlers call the `Store`
(`internal/ledger`) and share only the database with each other, apart from
`ledgerHandlers.mu`, the cost cache and the global filter file. Booking calls
the allocator with a snapshot it has locked; the previews call it with one they
have not. Budget and cost read what booking wrote. `PROJECT.json` lists the
hazards at their lines.

## Modules

| Module | What it is |
|---|---|
| `Sums` | `SUM(...)` of the ledger queries: sums of weights over finite sets, defined by counting so that the provers can work with them; `SignedSum` where corrections may be negative |
| `Allocation` | `AllocateStayPoints` in closed form: candidates, order, need, draws |
| `AllocationWalk` | the same function as its loops: collect, sort, draw, return |
| `Booking` | the requests around a booking as interleaved transactions on the tables |
| `TripLedger` | what booking promises: atomic bookings within the room of the lots |
| `Funding` | extends `Booking` with a trip page that reads the tables statement by statement: status, budget, preview |
| `Distribute` | the yearly distribution as its statements, from the page and from the API |
| `StaySearch` | `dvc.Search` over point charts, as operators |
| `TripPages` | the handlers of trips and of the global filters, on top of `StaySearch` |
| `CostBasis` | rates, dues, projections, prices and rounding, as operators |
| `LedgerPage` | ledger pages, the API and the trip pages that write entries beside them, and the cached cost basis, on top of `CostBasis` |
| `MC*` | small instances for TLC |
| `AllocationProofs` | lemmas about sums, least elements, orders and the allocator, which the other proofs use |
| `AllocationWalkProofs` | `AllocationWalk`: the loops compute the closed form; every point is accounted for, expiring points go first |
| `BookingProofs` | `Booking`: types, "either every unbooked stay or none", paid retries, link integrity, "failures leave nothing", no stranded usage without deletions, draws are eligible when they commit |
| `BookingRaceProofs` | `Booking`: no overspending, no double charge, the refinement of `TripLedger` |
| `FundingProofs` | `Funding`: previews are exact, no page asks for more points than needed, the status of stays is right, what a booking does to Remaining |
| `DistributeProofs` | `Distribute`: types; nothing posted twice and nobody passed over, from the page |
| `TripPagesProofs` | `StaySearch` and `TripPages`: what a search lists, and every safety property of the pages |
| `LedgerPageProofs` | `CostBasis` and `LedgerPage`: rounding, prices, the blended rate and projected dues; types; the cached cost basis is current and shows every edit in time; the parts of a page add up |

Definitions named `Mutant...` are what a slip in the code would make of the
definition after them; each is used to see that a property notices it, and
none is part of a model.

### Allocation and AllocationWalk

`Allocation` says what the loops compute, over sets: the lots with a positive
balance in use year uy-1, uy or uy+1 of their own contract, drawn by
disposition and contract id, each giving what is still needed or all it has.
`AllocationWalk` has the loops: `in` holds the arguments, `remaining` the map
built from lots and consumed draws, `candidates` the list that is collected,
sorted and then consumed, `need` and `result` the draws. `Collect` is one turn
of the first loop, `Draw` one of the second.

### Booking

`db` is the committed tables. Each request has a job (`job`), a position (`pc`)
and, while a transaction is open, what only it can see (`tx`: the snapshot, the
uncommitted entries and links, the entries it is deleting, whether another
booking has committed since) and the row locks it holds (`tx.locks`). A
statement that locks several rows takes them in steps of their own:

- `BookBegin` .. `BookCommit` are `bookTripOnce`; `Retry` is `BookTrip`'s loop.
  `LockLots` locks one row: the contracts in the order of their ids, then the
  lots. `ReadUsage` is the reads that follow. `FundStay` is one turn of the loop
  over the stays, with the aggregate check, the allocator, the inserts and links.
- `DeleteEntries`, `LockRow` for every row, `DeleteRest`, `LockRow` again and
  `DeleteCommit` are the two statements of `DeleteTrip` and `DeleteStay` and their
  commit; `UnbookTrip` has the first statement only.
- `ImportCheck` reads and checks one entry of one stay of `ImportBookedTrip`;
  `ImportInsert`, `ImportLink` for every link and `ImportCommit` follow.
- `EditEntry` locks the row, `EditCommit` checks the contract and ends;
  `DeleteContract` locks the contract, `LockRow` each entry that names it, and
  `ContractCommit` ends.
- the others take their locks in one step: `AddStay`, `AddEntry`, `DeleteEntry`
  and `UpdateContract` (of which only the use year month matters here).

What Postgres does is modelled from how the code uses it. A SERIALIZABLE
transaction reads the snapshot of its first statement; locking a row that was
changed or deleted since fails with SQLSTATE 40001; of two overlapping
bookings that write, the second to commit fails with 40001, because each
inserts entries the other's sums have read. This is the weakest guarantee the
code relies on; Postgres may also fail a booking earlier or without need (an
edit of a contract that leaves its month alone does), which shows only as one
more retry and is not modelled. READ COMMITTED
statements see what is committed when they run.

A row lock has a strength; `Compatible` is the part of Postgres' conflict table
that is needed. A transaction keeps its locks until it ends, and waits for the
next (`Free`) while it holds them. The rows of a statement without ORDER BY come
in any order (`NextLocks`), so requests can wait for each other in a circle
(`Circles`). Postgres then picks one of the circle and rolls it back with
SQLSTATE 40P01 (`Victim`), which `BookTrip` does not retry. Besides, any open
transaction may be rolled back at any time (`Abort`): a client that goes away, a
lost connection, a crash of the server.

Data that no property tells apart is left out: names, descriptions, tags and
dates of entries, resorts and rooms of stays. An entry's kind is reduced to
whether its numbers make it a lot row or a usage row. Ids of entries carry who
inserted them, for which stay and against which lot; only the properties look
inside. Points typed by hand are natural numbers.

`LinkedTo(d, s) # {}` is `TripStay.Booked`, `ToFund` the stays the loop still
has to reach, `Left` the lots less the consumed list, `Available` the function
of that name with the unattributed usage.

### TripLedger

Live stays, the draws that pay for them, and the room of each lot. `Book` pays
for stays of one trip in full, in one step, within the room; `Unbook` takes
draws back; `AddStay` adds a stay. `Booking` implements it under the mapping
`live <- db.stays`, `draws <-` the linked usage rows, `room <-` allotted points
less unlinked usage.

### Funding

`page` is the trip page being put together: its trip, and for every statement
that has run the tables as that statement saw them (`page.saw`). `Read` runs
the next one, in the order of `buildTripPageView`: the trip, the three
statements of `ListStays` (stays, links, used points), the two of `TripBudget`
(contracts, summaries) and, when a stay is unbooked, the four of
`PreviewTripFunding` (contracts, lots, consumed, unattributed usage).
`Booking`'s requests run between them. What the page shows is defined from
`page.saw`: `Status`, `PartiallyBooked`, `ShownRemaining` (`searchBudgetFor`),
`PreviewTripFunding` with the loop that stops at the first stay that is short,
`shortfall` with its binary search, and `FundingLines`.

### Distribute

`contracts` and `posted` (the allocation entries that name a contract) are the
committed tables, `mu` the mutex of the ledger page's handlers, `run` the locals
of each `distributeUpTo`: its cap, the contracts still to go and the target
year. Every statement is a step of its own because there is no transaction:
`Begin` (clock and `ListContracts`), `LatestAllocationYear`,
`CountAllocationFor`, `AddAllocation`. Any of them but the count may fail
(`Fail`); the count's error is dropped by the code and read as zero. The other
requests are one statement each and wait for the mutex when they come from the
page. `found` is a history variable that only `EveryContractAdvanced` reads.

### StaySearch and TripPages

`StaySearch` gives the result of `Search` as a sequence: every stay of an
offered column inside the window, long enough, no longer than the limit,
without a gap in the rates and within the budget, ordered by points and
check-in. The Go code sorts with `sort.Slice`, which is not stable; stays that
tie are ordered by `Tie(n, stay)`, a parameter that may depend on how many
there are.

In `TripPages` each client sends one request at a time (`Send`) from the page
it was shown last, which may be long out of date. A handler that edits a trip
is `GetTrip` (the row, 404, or 409 for a filter toggled on a trip that
inherits), `Edit` (the column) and `Save` (every column back); the page that
follows is `ListStays`, `TripBudget`, `ShowTrip`. Adding a stay by its row
number ends in `InsertStay` instead, which searches again. `Fail` is a
statement that fails. What the `Store` does to book, unbook and delete is one
step each here (`Booking` has their insides) and only moves points between the
stays and `total`, the ledger's budget. `ToggleGlobal` and `SaveConfig` are the
two halves of a toggle under `globalFilters.mu`; the second may fail. The file
is replaced by a rename, so it is never half written. `Restart` loses the
requests and the memory and reads the file.

### CostBasis and LedgerPage

`CostBasis` is `cost.go` and `money.go` over integers: `divRound`, the rate of
a contract, the blended rate, the growth of dues, projections forwards and
backwards, and the price of points.

In `LedgerPage` a request comes from a ledger page (it takes
`ledgerHandlers.mu`, edits, invalidates the cache when it edited contracts or
dues, and renders with six reads: `Lock`, the edit, `Invalidate`, `ReadView`,
`Show`), from the API (the edit alone), from a trip page that books, unbooks or
deletes, or is a trip page that needs the cost basis (`Basis`, `FetchContracts`,
`FetchDues` under `costProvider.mu`). Trip pages write entries without
`ledgerHandlers.mu`: `BookTrip` commits the rows of one booking together
(`Charges` are what a booking may commit), `RemoveCharges` deletes any of the
rows together, which stands for unbooking and for the deletion of stays and
trips; which rows belong to which stay is `Booking`'s business. A distribution
is for a ledger page a sequence of `AddEntry`; an import writes no entry. `saw`
holds what each read saw, from which running balance, summaries, costs, recent
entries, spending by year, dues rows and contract rows are defined. An edit
whose answer is lost is executed and not followed by `Invalidate`; a statement
may fail. Points may be negative, in forms and through the API: corrections are
entries too, which is why the sums of a page are `SignedSum`s. `past` is a
history variable for the properties: when contracts or dues last changed,
whether a change was not followed by `Invalidate`, and into the reading of whose
page the API or a trip page wrote.

## Runs

`PROJECT.json` lists the properties of each run.

| Run | Instance | Shows |
|---|---|---|
| `allocation_walk` | two contracts (April, December) and a deleted one, lists of up to 3 of 8 lot rows, 4 consumed lists, 2 dates, 4 prices | loops and closed form agree; every point is accounted for; expiring points go first |
| `booking_race` | 4 requests, each one of book trip 1, book trip 2, unbook trip 1, add a stay; three ledgers: scarce points, points spoken for by old usage, and a stay booked before | no overspending, no double charge, all or nothing, nothing left by failures, retries bounded by rivals, refinement of `TripLedger` |
| `booking_by_hand` | 3 requests out of two bookings, delete trip, delete stay, import of one or two stays, add, edit and delete entries, edit and delete the contract; two ledgers | keys hold and links never dangle; what a booking has drawn is legal by the contracts it commits beside |
| `booking_answered` | 3 requests that hold rows while they wait: book, delete a trip, unbook, edit an entry, delete a contract; two contracts | every deadlock is broken and every request answered; bookings alone never wait in a circle |
| `booking_stranded` | book and delete the same trip | **violated**: the booking's usage rows survive the trip |
| `import_mismatch` | an import, an edit and a deletion | **violated**: an imported stay is paid for with other points than its price |
| `funding` | a page, two requests out of bookings, an unbooking, a stay added and entries edited; two contracts, three trips (one use year; an earlier start than its stay; an override), three ledgers (a lot the budget does not count; borrowing beyond a year's allotment; points that cannot be drawn) | the preview is what a booking from the same tables does; no page asks for more points than needed; what the page says of stays holds; Remaining is never too high; what booking does to it is exactly what the budget cannot see |
| `remaining_moves` | one trip with an override and points of its own use year | **violated**: booking moves Remaining |
| `distribute_page` | 3 requests: distributions and edits of allocations from the page, contracts deleted from page and API; three contracts, of which one is up to date, one has no allocation and one lags; a new year may begin | no year posted twice; every contract due is advanced, whatever is skipped, and whatever an earlier distribution posted before it failed; the mutex is always given back |
| `distribute_api` | one or two distributions, page and API | **violated**: both post the same year |
| `trip_pages` | two clients, three requests, two trips, two resorts of five days with a gap and a tie, pages of 3 rows, one restart | undisturbed edits change their column only; filters of a trip that inherits stay empty; a row number adds the stay that was shown; deleted trips stay deleted; the filter file is what is in memory unless a save failed |
| `ledger_page` | two clients, three requests of which one edits, books, unbooks or deletes, three ledgers (one contract without a price; nothing priced; two prices, falling dues with a gap and an overdrawn balance), entries that correct others with negative points, a cache that lives for one of two ticks | cached prices are current or old only within the bound; pages add up unless a writer without their mutex came between their reads; prices are right to half a cent; the blended rate lies among the rates; projected dues follow the trend |

Bounds. In the booking runs, three stays of prices 2, 1, 2 over lots of 1, 2 and 1 points make
every conflict appear: enough for any two stays but not for three, and every
stay of two points spills into a second lot. Three lots are the three
dispositions. Two rival bookings are the race the code is written for; four
requests let a booking lose to two rivals, so that it needs its third attempt,
and let an unbooking free points in between. Stays that may be added or
imported are limited to the ids the instance supplies (`AddStay`); entries are
limited because each request runs one job. Requests are symmetric.
Imported stays compete for two usage rows: stays 5 and 6 are one import, 7 another. A contract's month may move from
April to January, which puts a January stay's banked lot out of its reach.
In `distribute_page` a second
distribution can follow a first that failed after some contracts, with an edit
or a deletion in between.

In `funding` two requests suffice: the page's reads are the third actor, and
every property relates the page to one request or to two moments between which
one committed. In `trip_pages` three requests (`MaxSends`) are the longest
chain a property needs: one client sees a page, the other changes dates,
filters or stays, and the first clicks; `TripIds` and `StayIds` bound the rows.
Every client starts with a page in hand, which saves the requests that would
open it. `MaxNights` is 2 instead of 30, `maxResultRows` 3, so that both cut
something off. In `ledger_page` one edit (`MaxEdits`) beside two pages is
enough for every race with the cache, whose life (`costBasisTTL`) is one tick
out of `MaxTime`; `recentActivityLimit` and `spentByYearLimit` are 2 so that
both cut. TLC computes with 32 bits, so micros per cent and the base of the
growth are 10 and 20 instead of 10 000 and 1 000 000; rounding then happens at
nearly every division. `Done` and `Idle` are enabled only when everybody is
answered and the bounds are reached.

`booking_answered` has two contracts, so that a booking waits for the second
while it holds the first, and the rows that pay for stay 3 have been edited to
allot points too, so that bookings lock them as lots while an unbooking deletes
them and a deleted contract changes them (`WaitTables`). It uses no symmetry,
since it checks liveness. `Charges` of `ledger_page` are a booking that
inserts nothing and one that inserts two rows.

Fairness. `FairSpec` assumes weak fairness of each request's own steps: handlers
keep running, Postgres grants a row lock once it is free, and a freed
`sync.Mutex` goes to a waiter. Of `Booking` it also assumes that a deadlock does
not last: `Victim(r)` is enabled only for a request that waits in a circle, and
after `deadlock_timeout` Postgres rolls one of the circle back. `Abort` and
`Fail` are not fair, so nobody is answered merely because every transaction
might be cut off. Deadlock is checked in all runs but `allocation_walk`, which
stops when the function returns: `Idle` is enabled only when every request is
answered. In `Booking` an open transaction can always be aborted, so there it is
`EveryRequestAnswered`, not the deadlock check, that finds requests waiting for
each other for good. `AllocationWalk`, `TripPages`, `Funding` and `LedgerPage`
check safety only.

What the properties except. `CacheCurrent` says nothing while an edit that
nobody invalidates for (by the API, or with its answer lost) is younger than
the last fetch; `EditsReachTripPages` bounds how long that can last. `ViewAddsUp`
excepts a page between whose reads the API wrote or a trip page booked, unbooked
or deleted, since none of them takes the ledger page's mutex: such a page can
disagree with itself, say in its balance and its summaries, until it is loaded
again. `ShortByIsNeeded` claims less than the number's comment (see Findings).
`AddedAsShown` holds as long as dates and filters are those of the page, and is
weaker when only the budget moved, which shortens or lengthens the list at its
end. `ShownAsPaid` and `RemainingErrsLow` hold while the ledger sees bookings
and added stays only: an unbooking between two reads really can show a page
that never was. `EditsConfined` excepts an edit that another one overtook: the
columns are written back as they were read, so the last one wins, and the code
promises no more.

## Proofs

Every theorem below is checked by TLAPS for all values of the constants that
satisfy the named assumptions, not for the instances of the runs.

### The allocator and sums (`AllocationProofs`)

The library's induction theorems take an operator as a parameter, which is out
of the prover's reach, so `LeastNumber` and `LargestNumber` (a nonempty set of
naturals has a least element, a finite one a largest) stand in for them: an
argument by induction is about the least counterexample. Where the property can
be written as a set of numbers, or of subsets, `Induction` and `SetInduction` say
the same in the usual form, and `Recursion` that a recursive definition over
numbers has a function that satisfies it. From these and the library's cardinality theorems follow the laws of sums
(`SumDisjoint`, `SumMonotone`, `SumCongruent`, `SumRenamed`, `SumScaled`), that every draw
takes between one point and what its lot has left (`DrawsWithinLots`), and that
the draws of a fundable stay add up to its price (`DrawsAddUp`): the lot at
which the need ends is the last in the drawing order to give anything, and the
lots before it give all they have. `EveryPlaceTaken` says that in a finite set
with a strict total order every place is taken; it is what gives a definition
by `CHOOSE` of "the i-th" a value.

### The loops of the allocator (`AllocationWalkProofs`)

`WalkComputesAllocation == Spec => []WalkMatchesAllocation`: for every list of
lots and of earlier draws, in any order and with any number of rows for a lot,
the loops return the draws of the closed form in its order, or its error and no
draw. So what `AllocationProofs` says of the closed form, and what `Booking`
does with it, holds of the loops. `EveryPointAccounted`, `ExpiringPointsFirst`
and `WalkTypes` state the other invariants of the run.

All four follow from `WalkInv`, which TLC was given on the run's instance before
it was proved. While the first loop runs (`Collecting`), the candidates are the
lots that can be drawn from among the rows looked at, each once. `SortedInOrder`
says what `sort.Slice` makes of them: the order is strict and total on
candidates, because a use year and a contract are a lot, so an unstable sort has
one result. While the second loop runs (`ToCome`, `Drawing`), every lot drawn
from comes before all that are still to come and has given what the closed form
says, all but the last have nothing left, and the need is the price less what
the lots drawn from had (`NeedRight`). `HeadNeeds` joins the two: before the next
lot come exactly those drawn from, so that the loop's need is the closed form's.
At the end either nothing is needed, and a lot not reached would find nothing
needed (`PaidInFull`), or every lot the stay can use is drawn and is not enough
(`RunsShort`). `InputsAssumption` says what Go's types say, and that months are
months; points may be zero or negative, lots overdrawn, contracts unknown.

### Booking

All of it assumes `RowsAssumption` (prices are positive, which is the CHECK of
`trip_stay`; stays have a trip; contracts are numbers and NULL is none of them;
check-ins are dates) and `DatabasesAssumption` (the tables a run starts from
obey the schema's keys and hold rows entered before any request).

- `TypeCorrect == Spec => []TypeOK`. The invariant proved is `TypeInv`: the
  types, that the sets of entries are finite (a sum over an infinite set would
  have no value and the allocator's draws no type), and that a booking at its
  start has attempts left, without which `BookBegin` could begin a fourth.
- `LinksSound == Spec => []LinkIntegrity`, `FailuresLeaveNothing == Spec =>
  []FailureLeavesNothing` rest on `LinkInv`. It builds on `LockInv`, which says
  that a lock is granted only when it is free (`Exclusive`: no two transactions
  hold conflicting locks), and adds to both properties what an open transaction
  holds: `OwnRows` (the rows of a booking carry its own id, so no other commit can
  bring the same id), `OwnLinks` (its links lead to its own rows, from
  stays that exist and that it holds against deletion), `ImportLinks`
  (an import links no entry twice, and what it has locked is still free to link)
  and `GoneRows` (a deletion that has come to its second statement holds the
  entries of the first). `OpInv` says which job is where.
- `DrawsStayEligible == Spec => DrawnWhereEligible` follows from `DrawInv` in the
  state before the commit: every contract a booking has locked (`Holds`), and once
  it funds stays that is all of its snapshot, is as the snapshot has it
  (`ContractsHeld`: checked by `LockLots` row by row, kept because an edit or a
  deletion waits for the lock), and the rows inserted so far are eligible by the
  snapshot (`EligibleRows`). Neither half is enough alone.
- `AllOrNothing == Spec => BookingAllOrNothing` follows from the guards of the
  commit and needs `TypeInv` only.
- `RetriesArePaidFor == Spec => []RetriesPaidFor`. `RetryInv` looks one attempt
  ahead: an open attempt that is going to be lost, because the tables are no
  longer its snapshot or it has been overtaken, and an attempt about to begin,
  are already paid for by a request that is done. Only finitely many are, so
  they can be counted even when there are infinitely many requests.
- `UsageStaysLinked == NoDeletions => (Spec => []NoStrandedUsage)`. Without
  deletions of trips or stays no usage row loses its link. With them it does
  (`booking_stranded`), so the hypothesis says exactly which requests break it.
- `StaysFundedAtOnce == NoImports => (Spec => StayFundedAtOnce)`, for every mix of
  bookings, deletions and edits. `PaidInv` says of an open booking that what it
  has inserted for each stay it has reached adds up to the stay's price
  (`DrawsAddUp`), and nothing for the others; `ChargeInv` that it knows the links
  of its stays unless it has been overtaken, so that a commit finds its stays
  still without links. An import may do otherwise (`import_mismatch`).
- `LotsNotOverdrawn`, `LedgersNotOverspent ==
  TripJobs /\ AllSolvent => (Spec => []...)`: for any number of requests that
  book, unbook, delete and extend trips, over ledgers in the black. The invariant
  is `MoneyInv`: beside the property itself (`InTheBlack`), that every open
  booking sees the lots there are, sees every row there is unless it was
  overtaken, and has not overspent what it sees (`Funds`). It is the second of
  these that the commit needs: what it sees is at least what is spent. Edits by
  hand are left out because they may overspend a lot on purpose.
- `BookingImplements == BookJobs /\ AllSolvent /\ AllSettled =>
  (Spec => ImplementsTripLedger)`. `InitRefines` maps initial states,
  `StepRefines` every step: a booking's commit to `Book` (`CommitIsBook`), the
  commit of an unbooking to `Unbook` (`DeleteIsUnbook`), `AddStay` to `AddStay`
  (`AddIsAdd`), and anything else to a stutter. The invariant `LedgerInv` joins
  `MoneyInv` and `ChargeInv` and adds that an unbooking takes all entries of a
  stay or none (`GoneWhole`) and that every draw is of something from a lot that
  exists (`RowsReal`). The links of `db` and the draws of `TripLedger` are related
  by `MappedSums`: sums over linked pairs are sums over draws, because the links
  are unique. Deletions are left out: with them, usage is stranded, and the
  abstract ledger would see its room shrink.

`AllSolvent` and `AllSettled` say what a ledger is that no rule has been broken in
yet: no lot and not the whole is overspent, linked rows are usage, and booked
stays are paid for with draws from lots that exist. `RaceTablesAssumption` of
`MCBooking` has TLC evaluate both on the ledgers of `booking_race`.

### Funding

`FundingAssumption` says that trips have dates, that overrides and annual points
are natural numbers, and that the tables one starts from have finitely many
stays and contracts. The theorems assume nothing about the jobs: bookings race
with imports, deletions and edits by hand. The two about a ledger that sees
bookings only have that condition (`OnlyBookings`) in the property itself.

Most rests on `NumbersInv`, which joins three invariants and a consequence of
`OnlyBookings`: `TablesInv` (`LinkInv`, and that sums over the tables are
numbers), `PageInv` (a page has run the first statements of `Reads` and no other,
and each saw sound tables) and `KnownInv`.

- `PagesCorrect == FundingSpec => []PageTypeOK` and `NeverAskedTooMuch ==
  FundingSpec => []ShortByIsNeeded`: fewer points than a page asks for do not fund
  the stay, and, where the ledger as a whole has enough, those it asks for do. `Turns` are the decisions of the preview
  stay by stay (`AreTurns`; `Recursion` gives them a value), and `Deciding` what
  holds after each: finitely many draws with points, for stays already passed,
  and one stay at most that is short. `ShortfallExact` is about the binary search
  alone: funding is monotone in the price, so the search ends at the most that
  can be funded, which is what the lots can give (`Capacity`), for every price
  and every balance.
- `StaysShownAsPaid == FundingSpec => []ShownAsPaid` and `RemainingNeverHigh ==
  FundingSpec => []RemainingErrsLow`. `Grown(d, e)` says what bookings make of
  tables: the contracts are the same, new rows are usage, and a stay has gained
  links only if it had none. It is transitive, so each statement of a page saw
  what the one before it saw, grown (`InTurn`). Links are read before used
  points, and what a stay that had links was charged does not change any more
  (`PaidForGood`); a booking that falls between the stays and the summaries is
  counted twice, never not at all.
- `RemainingMovesUp == FundingSpec => BookingMovesRemaining`, with imports and
  edits among the other requests. `KnownInv` says that a booking that is not
  overtaken knows every link of the stays in its snapshot, because links of other
  stays come from imports, and an import inserts stays nobody has seen
  (`Unseen`). So the stays it reaches really were unbooked (`ReachedUnbooked`),
  the price of the unbooked stays falls by what its rows use (`CommitBooks`), and
  the budget falls by the points of its rows that are of counted use years, less
  what the clamp at zero hides (`CommitByYear`, `CommitMovesRemaining`).
- `PreviewsAreExact == FundingSpec => PreviewIsWhatBookingDoes`. `LoopInv` says of
  an open booking that it reaches the stays in the order they are listed and
  draws for each from what the earlier ones have left (`PaidInTurn`), and that
  its snapshot has no row of its own (`Apart`). A booking whose snapshot is what
  every statement of the page saw then does, turn by turn, what the preview
  decides: after i stays its rows and the preview's draws take the same points
  from every lot (`Matches`, `TurnMatches`), so the next stay is funded by both
  or by neither (`SameDecision`). `LinesAdd` groups the draws into the lines a
  page shows. Others may change the tables between the page and the commit: the
  booking then fails or works on its snapshot.

### Distribute

`DistributeTypes == Spec => []TypeOK`, and
`PageNeverDoublePosts == PageOnly => (Spec => NoDoublePost)`,
`PageAdvancesEveryContract == PageOnly => (Spec => EveryContractAdvanced)`, for
any number of distributions and edits. `PageOnly` says that every request but
the deletion of a contract comes through the page; `distribute_api` shows what
happens otherwise. `WalkInv` has three parts: the mutex is held by whoever walks
and by nobody else (`Holds`); the allocations of a contract still to go are those
that were found at the beginning, and a contract passed has its year
(`Progress`); the year about to be posted is after every one posted
(`Chosen`). Deleting a contract takes away the contract and its allocations
together, which is why it may come from anywhere, even between the count and the
insert. Failed statements, among them a failed count that reads as zero, are
steps of the proof like all others.

### StaySearch and TripPages

`SearchListsAll`: a search lists every stay that matches, each once, in the order
of the sort, for all charts (`EveryPlaceTaken`: each row has a stay).
`SameRowSameKey`: with another budget a row that is still there shows a
stay of the same points and check-in, because a budget cuts the list off at its
end (`CutOffAtTheEnd`), whatever the unstable sort does to ties. They assume
`ChartsAssumption` (finitely many columns, rates that are not negative) and
`TieAssumption` (stays that tie are put in some order).

Of `TripPages` every safety property is proved for any number of clients, trips
and requests, under `FormsAssumption` (what forms may contain) and
`StartAssumption` (the trips one starts with are rows, and none hides filters):

- `TripPagesTypes` (`TypeInv` adds what each position of a request implies about
  what it has read and been asked);
- `ToggledIsSaved` (`SaveInv`: whoever holds the mutex is about to save exactly
  what is in memory);
- `InheritingHidesNothing` (`CleanInv`: the row in a handler's hands hides nothing
  either, and who toggles has fetched a trip that overrides; otherwise a late
  write could undo a reset);
- `EditsTouchNothingElse` (`EditInv`: the row about to be saved differs from the
  row read in the columns of the request only);
- `DeletedStaysDeleted` (`IdInv`: ids are handed out once, and a stay has a trip);
- `AddedWasClicked` (`ClickInv`: the number a client sent is a row of the page it
  still looks at; the rest is `SameRowSameKey`).

### CostBasis and LedgerPage

`RoundsToNearest` and `PointCostNearest` say for every amount that `divRound`
gives a nearest whole number and that a price is right to half a cent
(`ScalesAssumption`: the scales are positive).

`CacheStaysCurrent == Spec => []CacheCurrent` says that no trip page is priced
with contracts or dues from before an edit once `Invalidate` has returned.
`CacheCurrent` only speaks of moments when nobody fetches, so `CacheInv` adds who
fetches and what they hold: `FetcherHolds` (the provider's mutex belongs to
whoever is between `Basis` and `FetchDues`) and `ReadIsCurrent` (what a fetch has
read of the contracts is what they are, unless an `Invalidate` is pending or was
missed). It is the mutex that makes an `Invalidate` wait for a fetch that had
read before the edit. It assumes `ClientsAssumption` and `TablesAssumption`
(nobody is no client; the tables have their four parts).

`PageTypes == Spec => []TypeOK` and `EditsShowInTime == Spec =>
EditsReachTripPages` rest on `PageInv`, which adds to `CacheInv` who holds the
page's mutex (`PageHolds`: a page from its edit on, and never the API), the order
of the moments (`Clock`: nothing comes from the future, and a cached basis was
begun before it was had) and, for the bound, `Aged`: whenever the cache, or what a
fetch has read so far, is not what the tables say now, contracts or dues changed
after that fetch began. A basis is served only while it is younger than its time
to live, so what it does not show changed less than that time, and the time the
fetch took, ago. No `Invalidate` is used for this, which is why it holds of edits
through the API too.

`DataInv` says what the tables hold: finitely many rows, whose months are months,
with ids handed out once, and dues of calendar years; every edit keeps it
(`RowsAssumption` says so of the rows one starts from and may type, which is what
the schema's types, `ParseMonth` and `UpsertDuesRate` ensure). What is derived from such tables:

- `BlendedStaysAmongRates == Spec => []BlendedAmongRates`: the sum of points times
  rates is at least the lowest rate times the sum of points, and at most the
  highest (`SumScaled`), and rounding stays on its side of a whole number
  (`RoundsWithin`).
- `DuesAlwaysFollowTrend == Spec => []DuesFollowTrend`: one year of growth moves
  every rate the way the growth says, through the rounding (`OneYear`), so the
  compounded rates do (`YearOn`, over the two recursive functions of
  `compoundDues`), and neighbouring years that are not stored come from the same
  stored one (`NextYear`).
- `AlwaysPricedToTheCent == Spec => []PricedToTheCent`: every rate and all dues
  are numbers (`RatesTyped`, `DuesForIs`), and so is the running balance, because
  every entry is listed at a place of its own (`EveryEntryListed`) and each
  balance is the one before it with the entry's points (`BalanceIs`).

`PagesAddUp == (stored dues are positive in every starting table) => (Spec =>
[]ViewAddsUp)`. `UpsertDuesRate` refuses any other rate, and a stored zero would
make the years after it look stored. The proof has two halves. `ViewInv` says what a
page has read: its statements run in their order, each once (`ReadInOrder`), only
a page that is being rendered has read anything, and unless the API or a trip
page wrote meanwhile the tables are still what each of them saw (`ReadsCurrent`): an edit
through another ledger page would need the mutex (`EditsApart`). So a page that is
complete shows one state of the tables (`AllRead`). The other half is about any
one state (`PageAgrees`): sums by use year are the sum (`SignedGroups`, for points
and for costs); the balance is what all entries moved and the recent rows are the
last of the list (`BalanceAddsUp`, `RecentIs`); a year with spending that is not
shown is older than every year that is (`SpentShown`); a year is projected exactly
if it is not stored (`ProjectedIs`).

TLC evaluates every assumption. The proofs changed the models in three places.
`AfterGet` of `TripPages` and `Status` of `Funding` had arms of a `CASE` that
overlap, where TLC takes the first and the logic either; their guards are
disjoint now, in the order in which the code tests them. The sums of `LedgerPage`
were sums of natural numbers, which for an entry with negative points is not what
`SUM` gives; the proof of `ViewAddsUp` could not be finished until they were
signed, and the run has such entries now. `Funding`'s `Decided` and `shortfall` are
written as functions that a proof can unfold.

### Only model-checked

Every safety property of a passing run is stated by a theorem but one:
`BookingsTakeTurns` is model-checked on two contracts. What else stays with TLC
is liveness (`EveryRequestAnswered`) and ENABLED, which the prover cannot do, and
the cases the hypotheses leave out: of `Booking`, `NoStrandedUsage` with
deletions, `StayFundedAtOnce` with imports and `NoDoublePost` outside the page
are refuted by the runs that expect a violation; overspending through edits by
hand is not forbidden at all; and deletions of trips and stays are not claimed to
implement `TripLedger`.

## Findings

- A booking that commits between the two statements of `DeleteTrip` (or
  `DeleteStay`) loses its stays and links to the cascade while its usage rows
  remain (`booking_stranded`). The comment at `trip_book.go:182` names exactly
  this as what the order of the statements is there to prevent.
- An import can link an entry that was edited after it was checked
  (`import_mismatch`), contrary to `README.md:352-354`.
- A distribution through the API takes no lock, so it and one from the page can
  post the same contract's year twice (`distribute_api`), although
  `distribute.go:36` calls it safe to trigger repeatedly. `hasAllocationFor`
  only makes the window smaller: without a rival, the year after the latest is
  never there.
- Booking a stay of a trip with a budget override raises its Remaining by the
  stay's price (`remaining_moves`): the stay is no longer subtracted as unbooked
  and the override does not know that its points are spent. `render.go:461-467`
  and `README.md:322-327` say that booking must not move this number.
- Not the subject of a run: a contract that lags several years behind advances
  one year per distribution, so a second one in the same year does post rows, as
  `distributeUpTo` says and `distribute.go:36` and `README.md:128` deny.
- Not the subject of a run: when the ledger as a whole has too little, a preview says a stay is short by what
  the whole ledger lacks (`trip_accounting.go:327-331`), although the lots it may
  draw from may lack more: with the points asked for it is then still short. The comment at `trip_accounting.go:238-241` calls the number how
  many additional points the stay would need. It is never more than that
  (`ShortByIsNeeded`).
- Not the subject of a run: a ledger page that is read while a trip is booked,
  unbooked or deleted, or the API writes, may show a balance and summaries of
  different moments (`ledger_view.go:237-258`, `handlers.go:486-543`). Nothing in
  the repository promises otherwise.
- Not the subject of a run: only SQLSTATE 40001 is retried (`trip_book.go`), so a
  booking that is rolled back to break a deadlock with an edit or a deletion is
  answered with an error. It leaves nothing behind and can be sent again.

## Not modelled

- The chart parser and the text tables: extraction and layout of text, without
  state; golden tests cover them.
- Login, cookies, routing and shutdown of the server, the command line client
  and the scripts: no shared state of their own. What a client or a server that
  goes away does to a transaction is `Abort` and `Fail`.
- The migration from SQLite: run once by hand against a database nobody else
  uses; its check that the target is empty is before its transaction.
- Formatting, parsing of forms beyond "it parses or not", labels and panels of
  the pages, and the lists of the API, each a single statement.
- Overspending through edits by hand, among them the deletion of a contract,
  whose usage then counts against the total only: the ledger is meant to be
  correctable, so no property forbids it.

## Plan

The plan is carried out as far as the tools reach. What could be added: the
decision of the chart parser about which cells are rates, which is text work
without state; entries with negative points in `Booking` and `Funding`, where
the typed points are natural numbers; and unbooking and deletion in an abstract
ledger whose room may shrink, which would extend the refinement to them.
