------------------------------- MODULE Funding -------------------------------
(***************************************************************************)
(* The trip page's numbers: the budget of a trip (internal/ledger/         *)
(* budget.go), what booking would draw (the previews of                    *)
(* trip_accounting.go) and what the page makes of both (internal/web/      *)
(* handlers.go, render.go), while requests of Booking change the tables.   *)
(*                                                                         *)
(* A page is put together from statements that each see the tables as they *)
(* are at that moment: no transaction, no lock.                            *)
(***************************************************************************)
EXTENDS Booking, Sequences

CONSTANTS
  Start,        \* trip.start_date
  Override,     \* trip.budget_override
  NoOverride,   \* a NULL budget_override
  Annual        \* contract.annual_points

ASSUME FundingAssumption ==
  /\ Start \in [Trips -> [year : Nat, month : 1..12]]
  /\ \A t \in Trips : Override[t] \in Nat \cup {NoOverride}
  /\ Annual \in [Contracts -> Nat]
  /\ \A d \in Databases : IsFiniteSet(d.stays) /\ IsFiniteSet(d.contracts)

\* The page being put together: its trip, and the tables each statement saw.
VARIABLE page

fundingVars == <<vars, page>>

\* GetTrip; the three statements of ListStays; the two of TripBudget; the
\* four of PreviewTripFunding, for a trip with an unbooked stay.
MutantStayReads == <<"trip", "stays", "used", "links">>
StayReads == <<"trip", "stays", "links", "used">>
BudgetReads == <<"contracts", "summaries">>
PreviewReads == <<"months", "lots", "consumed", "legacy">>
MutantReads == <<"trip">> \o BudgetReads \o Tail(StayReads) \o PreviewReads
Reads == StayReads \o BudgetReads \o PreviewReads

Closed == [trip |-> "none", saw |-> << >>]
Open == page.trip \in Trips
Reading == DOMAIN page.saw

-----------------------------------------------------------------------------
(* Stays of the trip and its status. *)

ShownStays == StaysOf(page.saw["stays"], page.trip)
ShownBooked(s) == Booked(page.saw["links"], s)
ShownUnbooked == {s \in ShownStays : ~ShownBooked(s)}

\* Linked entries whose points fall short of the stay's.
PartiallyBooked(s) == ShownBooked(s) /\ Paid(page.saw["used"], s) < Price[s]

Status ==
  CASE ShownStays = {} \/ ShownUnbooked = ShownStays -> "planning"
    [] ShownStays # {} /\ ShownUnbooked = {} -> "booked"
    [] OTHER -> "partly booked"

\* The last read before the page is shown.
LastRead == IF ShownUnbooked = {} THEN "summaries" ELSE "legacy"
Shown == Open /\ {"links", "used", "summaries"} \subseteq Reading /\ LastRead \in Reading

-----------------------------------------------------------------------------
(* The budget. *)

\* The month of the contract with the lowest id, January without contracts.
UseYearStartMonth(d) ==
  IF d.contracts = {} THEN 1
  ELSE d.months[CHOOSE c \in d.contracts : \A other \in d.contracts : c <= other]

InYear(d, y) == {e \in d.entries : e.useYear = y}
Net(d, y) == Allotted(InYear(d, y)) - Used(InYear(d, y))

\* What may be borrowed from the next use year.  Here and below, the entries
\* are those of d and the contracts those of k, which was read before.
MutantBorrowable(d, k, y) ==  \* the posted allotment is the base
  LET left == Net(d, y + 1) IN IF left < 0 THEN 0 ELSE left
Borrowable(d, k, y) ==
  LET left == SumOver(Annual, k.contracts) - Used(InYear(d, y + 1))
  IN  IF left < 0 THEN 0 ELSE left

BudgetForUseYear(d, k, y) == Net(d, y) + Net(d, y - 1) + Borrowable(d, k, y)

StartYear(t, k) == UseYearForDate(Start[t], UseYearStartMonth(k))

effectiveBudget(t, d, k) ==
  IF Override[t] # NoOverride THEN Override[t]
  ELSE BudgetForUseYear(d, k, StartYear(t, k))

\* The Remaining of a trip with these unbooked stays.
searchBudgetFor(t, unbooked, d, k) ==
  effectiveBudget(t, d, k) - SumOver(Price, unbooked)

ShownRemaining ==
  searchBudgetFor(page.trip, ShownUnbooked, page.saw["summaries"], page.saw["contracts"])
\* Had every statement of the page seen d.
RemainingIn(d, t) == searchBudgetFor(t, Unbooked(d, t), d, d)

-----------------------------------------------------------------------------
(* The funding preview. *)

\* Draws [stay, lot, rank, points] a preview has decided so far.
DrawnFrom(draws, lot) ==
  SumOver([d \in draws |-> d.points], {d \in draws : d.lot = lot})
MutantPreviewLeft(draws) ==  \* each stay decided on its own
  [lot \in LotsIn(page.saw["lots"]) |->
     Allotted(Against(LotRows(page.saw["lots"]), lot))
       - Used(Against(page.saw["consumed"].entries, lot))]
PreviewLeft(draws) ==
  [lot \in LotsIn(page.saw["lots"]) |->
     Allotted(Against(LotRows(page.saw["lots"]), lot))
       - Used(Against(page.saw["consumed"].entries, lot)) - DrawnFrom(draws, lot)]

PreviewAvailable(draws) ==
  Allotted(LotRows(page.saw["lots"]))
    - Used({e \in page.saw["consumed"].entries : e.contract # NoContract})
    - SumOver([d \in draws |-> d.points], draws)
    - Used({e \in page.saw["legacy"].entries : e.contract = NoContract})

PreviewMonths == MonthsIn(page.saw["months"])

\* How many points a stay lacks that its lots cannot fund: a binary search
\* for the most they can.
MutantShortfall(left, s) ==  \* the search begins at one point
  LET most[range \in (0..Price[s]) \X (0..Price[s])] ==
        LET lo == range[1]
            hi == range[2]
            mid == (lo + hi + 1) \div 2
        IN  IF lo >= hi THEN lo
            ELSE IF Fundable(PreviewMonths, left, CheckIn[s], mid)
                 THEN most[<<mid, hi>>] ELSE most[<<lo, mid - 1>>]
  IN  Price[s] - most[<<1, Price[s]>>]
shortfall(left, s) ==
  LET most[range \in (0..Price[s]) \X (0..Price[s])] ==
        LET lo == range[1]
            hi == range[2]
            mid == (lo + hi + 1) \div 2
        IN  IF lo >= hi THEN lo
            ELSE IF Fundable(PreviewMonths, left, CheckIn[s], mid)
                 THEN most[<<mid, hi>>] ELSE most[<<lo, mid - 1>>]
  IN  Price[s] - most[<<0, Price[s]>>]

\* The points a stay is short by, after the draws of the stays before it.
MutantShortBy(draws, s) ==  \* short when just enough is left
  IF Price[s] >= PreviewAvailable(draws) THEN Price[s] - PreviewAvailable(draws)
  ELSE shortfall(PreviewLeft(draws), s)
ShortBy(draws, s) ==
  IF Price[s] > PreviewAvailable(draws) THEN Price[s] - PreviewAvailable(draws)
  ELSE shortfall(PreviewLeft(draws), s)

CanDraw(draws, s) ==
  /\ Price[s] <= PreviewAvailable(draws)
  /\ Fundable(PreviewMonths, PreviewLeft(draws), CheckIn[s], Price[s])

DrawsFor(draws, s) ==
  {[stay |-> s, lot |-> d.lot, rank |-> d.rank, points |-> d.points] :
     d \in AllocateStayPoints(PreviewMonths, PreviewLeft(draws), CheckIn[s], Price[s])}

\* ListStays' order of the unbooked stays.
Listed ==
  [i \in 1..Cardinality(ShownUnbooked) |->
     CHOOSE s \in ShownUnbooked :
       Cardinality({u \in ShownUnbooked : ListedBefore(u, s)}) = i - 1]

\* The loop over the stays: it stops at the first that is short.
Undecided == [draws |-> {}, short |-> {}]
Decide(before, s) ==
  IF before.short # {} THEN before
  ELSE IF CanDraw(before.draws, s)
       THEN [before EXCEPT !.draws = @ \cup DrawsFor(@, s)]
       ELSE [before EXCEPT !.short = {s}]
Decided ==
  LET after[i \in 0..Len(Listed)] ==
        IF i = 0 THEN Undecided ELSE Decide(after[i - 1], Listed[i])
  IN  after[Len(Listed)]

PreviewTripFunding ==
  [fundable |-> Decided.short = {},
   draws    |-> Decided.draws,
   short    |-> {[stay |-> s, by |-> ShortBy(Decided.draws, s)] : s \in Decided.short}]

\* The lines of the page: the draws of all stays, one line for each lot and
\* disposition.
FundingLines ==
  LET draws == PreviewTripFunding.draws IN
  [line \in {<<d.lot, d.rank>> : d \in draws} |->
     SumOver([d \in draws |-> d.points], {d \in draws : <<d.lot, d.rank>> = line})]

-----------------------------------------------------------------------------
(* The page's request. *)

OpenPage(t) ==
  /\ page = Closed
  /\ page' = [trip |-> t, saw |-> << >>]
  /\ UNCHANGED vars

\* The next statement.  A trip that is gone is answered with 404.
Read ==
  LET x == Reads[Cardinality(Reading) + 1] IN
  /\ Open /\ ~Shown
  /\ page' = IF x = "trip" /\ page.trip \notin db.trips THEN Closed
             ELSE [page EXCEPT !.saw = [y \in Reading \cup {x} |->
                                           IF y = x THEN db ELSE page.saw[y]]]
  /\ UNCHANGED vars

\* A statement fails, or the member leaves the page.
ClosePage ==
  /\ Open
  /\ page' = Closed
  /\ UNCHANGED vars

FundingInit == Init /\ page = Closed

FundingNext ==
  \/ Next /\ UNCHANGED page
  \/ \E t \in Trips : OpenPage(t)
  \/ Read
  \/ ClosePage

FundingSpec == FundingInit /\ [][FundingNext]_fundingVars

-----------------------------------------------------------------------------
(* Correctness. *)

\* A page has a trip and what its statements saw; a preview that finds a stay
\* short names one stay and at least one missing point.
PageTypeOK ==
  /\ page = Closed \/ page.trip \in Trips
  /\ \A x \in Reading : page.saw[x] \in DB
  /\ Shown /\ ShownUnbooked # {} =>
       \A short \in PreviewTripFunding.short : short.stay \in ShownUnbooked /\ short.by \in Nat \ {0}

\* The page was shown and nothing changed while it was put together.
Steady(d) == Shown /\ \A x \in Reading : page.saw[x] = d

Rows(r) == tx[r].rows
ForPage(r) == job[r].op = "book" /\ job[r].trip = page.trip

(***************************************************************************)
(* The preview decides "exactly the way bookTripOnce's own loop would": a  *)
(* booking that finds the tables the page showed draws, lot by lot, what   *)
(* the lines of the page say, and is refused only for the stay it names.   *)
(***************************************************************************)
PreviewIsWhatBookingDoes ==
  [][\A r \in Requests :
       pc[r] = "fund" /\ ForPage(r) /\ Steady(tx[r].snap) /\ ShownUnbooked # {} =>
         /\ pc'[r] = "ok" =>
              /\ PreviewTripFunding.fundable
              /\ \A lot \in LotsIn(tx[r].snap) :
                   Used(Against(Rows(r), lot)) =
                     SumOver(FundingLines, {line \in DOMAIN FundingLines : line[1] = lot})
         /\ pc'[r] = "insufficient" =>
              \A s \in ToFund(r) :
                (\A u \in ToFund(r) \ {s} : ListedBefore(s, u))
                  <=> s \in {short.stay : short \in PreviewTripFunding.short}]_fundingVars

\* A stay could be funded if the ledger had so many more points in lots the
\* stay may draw from: what is there can pay the rest.
FundedWith(more, draws, s) ==
  LET rest == Price[s] - more
  IN  /\ rest <= PreviewAvailable(draws)
      /\ Fundable(PreviewMonths, PreviewLeft(draws), CheckIn[s], rest)

(***************************************************************************)
(* A page never asks for too much: fewer points than it says a stay is     *)
(* short by would not do.  And as long as the ledger as a whole has points *)
(* enough, though not where the stay may draw them, those points do, so    *)
(* ShortBy is "how many additional points it would need".  When the ledger *)
(* itself has too few, what the stay's lots lack may be more than ShortBy. *)
(***************************************************************************)
ShortByIsNeeded ==
  Shown /\ ShownUnbooked # {} =>
    \A short \in PreviewTripFunding.short :
      LET draws == PreviewTripFunding.draws IN
      /\ \A fewer \in 0..(short.by - 1) : ~FundedWith(fewer, draws, short.stay)
      /\ Price[short.stay] <= PreviewAvailable(draws)
           => FundedWith(short.by, draws, short.stay)

BookingCommits(r) == pc[r] = "fund" /\ pc'[r] = "ok"

\* Points a booking takes from use years the budget of t does not count.
Uncounted(r, t) ==
  LET y == StartYear(t, db)
  IN  Used({e \in Rows(r) : e.useYear \notin (y - 1)..(y + 1)})

\* How far the charges to the next use year exceed what may be borrowed.
Excess(d, t) ==
  LET over == Used(InYear(d, StartYear(t, d) + 1)) - SumOver(Annual, d.contracts)
  IN  IF over > 0 THEN over ELSE 0

(***************************************************************************)
(* What booking does to Remaining, the budget searches run against.  It    *)
(* stays as it is but for points the budget cannot see go: points of use   *)
(* years around other starts, points borrowed beyond the clamp at zero;    *)
(* and with an override, the whole price of what was booked.  It never     *)
(* falls: no booking makes a trip's remaining stays unaffordable.          *)
(***************************************************************************)
BookingMovesRemaining ==
  [][\A r \in Requests : BookingCommits(r) =>
       LET t == job[r].trip
           moved == RemainingIn(db', t) - RemainingIn(db, t)
       IN  t \in db.trips =>
             /\ moved >= 0
             /\ moved = IF Override[t] # NoOverride THEN Used(Rows(r))
                        ELSE Uncounted(r, t) + Excess(db', t) - Excess(db, t)]_fundingVars

(***************************************************************************)
(* "Booking therefore must not move this number" (searchBudgetFor).        *)
(***************************************************************************)
BookingLeavesRemaining ==
  [][\A r \in Requests : BookingCommits(r) =>
       RemainingIn(db', job[r].trip) = RemainingIn(db, job[r].trip)]_fundingVars

OnlyBookings == \A r \in Requests : job[r].op \in {"book", "addStay"}

(***************************************************************************)
(* The links of the stays and their points are read one after the other.   *)
(* While the ledger only sees bookings, a stay the page calls partially    *)
(* booked really lacks points, and one it calls booked does not.           *)
(***************************************************************************)
ShownAsPaid ==
  OnlyBookings /\ Shown =>
    /\ \A s \in ShownStays : ShownBooked(s) =>
         (PartiallyBooked(s) <=> Paid(db, s) < Price[s])
    /\ Status = "booked" => \A s \in ShownStays : Booked(db, s)

(***************************************************************************)
(* The stays are read before the ledger: a booking in between is counted   *)
(* twice on the page, never not at all, so a page never promises a search  *)
(* more points than the trip had.                                          *)
(***************************************************************************)
RemainingErrsLow ==
  OnlyBookings /\ Shown =>
    ShownRemaining <= searchBudgetFor(page.trip, ShownUnbooked, page.saw["links"],
                                      page.saw["links"])

=============================================================================
