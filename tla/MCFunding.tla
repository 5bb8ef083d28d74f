------------------------------ MODULE MCFunding ------------------------------
(***************************************************************************)
(* Two contracts, with use years that start in April and in December, and  *)
(* three trips: t1 lies in one use year, t2 starts in an earlier use year  *)
(* than its stay, t3 has an override.  Stay 5 may be added to t1.          *)
(***************************************************************************)
EXTENDS Funding, TLC

CONSTANTS t1, t2, t3

MCTrips == {t1, t2, t3}
MCStays == 1..5
MCContracts == {1, 2}
MCTripOf == <<t1, t1, t2, t3, t1>>
MCPrice == <<2, 1, 3, 1, 1>>
MCCheckIn == <<[year |-> 2025, month |-> 6], [year |-> 2025, month |-> 5],
               [year |-> 2025, month |-> 10], [year |-> 2025, month |-> 6],
               [year |-> 2025, month |-> 7]>>
MCMonths == {}
MCAnnual == <<1, 0>>
MCStart == (t1 :> MCCheckIn[2]) @@ (t2 :> [year |-> 2025, month |-> 3]) @@ (t3 :> MCCheckIn[4])
MCOverride == (t1 :> NoOverride) @@ (t2 :> NoOverride) @@ (t3 :> 2)

LotRow(n, c, y, p) ==
  [id |-> <<Clerk, n, [contract |-> c, useYear |-> y]>>, contract |-> c,
   useYear |-> y, allotted |-> p, used |-> 0]
UsedRow(n, c, y, p) == [LotRow(n, c, y, 0) EXCEPT !.used = p]

Tables(stays, entries, links) ==
  [trips |-> MCTrips, stays |-> stays, contracts |-> MCContracts, months |-> <<4, 12>>,
   entries |-> entries, links |-> links]

\* Both contracts: for the second, June 2025 lies in use year 2024, so its
\* banked lot is one the budget of the trip does not count.
BothContracts ==
  Tables(1..4, {LotRow(1, 1, 2024, 1), LotRow(2, 1, 2025, 2), LotRow(3, 2, 2023, 1)}, {})
\* One current point: the rest must be borrowed, more than a year's allotment,
\* and an old entry without a contract has spent one more.
Borrowing ==
  Tables(1..4, {LotRow(1, 1, 2025, 1), LotRow(2, 1, 2026, 3),
                UsedRow(3, NoContract, 2025, 1)}, {})
\* Stay 1 is booked with two entries; the points that are left cannot be drawn.
Spent ==
  LET u == UsedRow(4, 1, 2024, 1)
      v == UsedRow(5, 1, 2025, 1)
  IN  Tables(1..4, {LotRow(1, 1, 2024, 1), LotRow(2, 1, 2025, 1), LotRow(3, 1, 2020, 2), u, v},
             {<<1, u.id>>, <<1, v.id>>})

MCDatabases == {BothContracts, Borrowing, Spent}
\* Nothing but the override can move the number here.
OverrideDatabases == {Tables(1..4, {LotRow(1, 1, 2025, 3)}, {})}

MCHandRows == {[contract |-> 1, useYear |-> 2025, allotted |-> 1, used |-> 0]}

Job(op, t) == [op |-> op, trip |-> t]
MCJobs == {Job("book", t) : t \in MCTrips} \cup
          {Job("unbook", t1), Job("addStay", t1), [op |-> "deleteEntry"], [op |-> "addEntry"]}
OverrideJobs == {Job("book", t3)}

Symmetry == Permutations(Requests)

=============================================================================
