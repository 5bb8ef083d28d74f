----------------------------- MODULE MCLedgerPage -----------------------------
(***************************************************************************)
(* A priced contract and one without a price, dues of 2024 and 2025, and   *)
(* four entries, one of a future use year and one charged to a use year    *)
(* that is not the year of its date; a ledger that has nothing priced; and *)
(* one overdrawn, with two priced contracts, falling dues and a gap in     *)
(* them.  Some entries are corrections: their points are negative.         *)
(***************************************************************************)
EXTENDS LedgerPage, TLC

Contract(annual, month, term, price, closing) ==
  [annual |-> annual, month |-> month, term |-> term, price |-> price, closing |-> closing]
Row(date, year, contract, allotted, used) ==
  [date |-> date, useYear |-> year, contract |-> contract, allotted |-> allotted, used |-> used]
On(year, month) == [year |-> year, month |-> month]
Numbered(rows) ==
  {[id |-> i - 10, date |-> rows[i].date, contract |-> rows[i].contract,
    useYear |-> rows[i].useYear, allotted |-> rows[i].allotted, used |-> rows[i].used] :
      i \in DOMAIN rows}

Priced == Contract(3, 4, 4, 50, 3)
Resale == Contract(4, 12, 3, 80, 0)
Unpriced == Contract(2, 12, 0, 0, 0)

MCTables ==
  {[contracts |-> (-2 :> Priced) @@ (-1 :> Unpriced),
    dues |-> (2024 :> 7) @@ (2025 :> 9),
    entries |-> Numbered(<<Row(On(2025, 4), 2025, -2, 3, 0), Row(On(2025, 4), 2024, -2, 0, 1),
                           Row(On(2025, 2), 2024, NoContract, 0, 3), Row(On(2025, 5), 2027, -1, 2, 0)>>),
    rows |-> 0],
   [contracts |-> (-1 :> Unpriced), dues |-> << >>,
    entries |-> Numbered(<<Row(On(2025, 4), 2025, -1, 2, 0)>>),
    rows |-> 0],
   [contracts |-> (-2 :> Priced) @@ (-1 :> Resale),
    dues |-> (2021 :> 9) @@ (2023 :> 8) @@ (2024 :> 5),
    entries |-> Numbered(<<Row(On(2023, 11), 2022, NoContract, 0, 1), Row(On(2025, 4), 2025, -1, 3, -1),
                           Row(On(2024, 12), 2020, -1, 0, 4)>>),
    rows |-> 0]}

MCContractRows == {Contract(1, 4, 2, 9, 0)}
MCEntryRows == {Row(On(2025, 3), 0, NoContract, 0, 3), Row(On(2025, 4), 2026, -2, -1, 2)}
MCCharges == {<< >>, <<Row(On(2025, 5), 2025, -2, 0, 1), Row(On(2025, 5), 2024, NoContract, 0, 2)>>}
MCDuesRows == {[year |-> 2026, rate |-> 5], [year |-> 2022, rate |-> 9], [year |-> 2025, rate |-> 0]}

Page(op) == [via |-> "page", op |-> op]
Api(op) == [via |-> "api", op |-> op]
MCJobs ==
  {Page(op) : op \in CostEdits \cup EntryEdits \cup {"view"}}
    \cup {Api(op) : op \in {"addContract", "deleteContract", "addEntry", "updateEntry", "deleteEntry"}}
    \cup {[via |-> "trip", op |-> op] : op \in TripEdits}
    \cup {[via |-> "planner", op |-> "view"]}

MCToday == On(2025, 6)

Symmetry == Permutations(Clients)

=============================================================================
