------------------------------ MODULE MCBooking ------------------------------
(***************************************************************************)
(* A small portfolio for Booking: two trips and one contract whose use     *)
(* year starts in April.  Stays 1 and 2 belong to the first trip, stay 3   *)
(* to the second, 4 may be added to the first, 5 and 6 imported with one   *)
(* new trip, 7 with another.  Check-ins fall in use year 2025, so that a    *)
(* stay spills from the banked lot into the current one and then the       *)
(* borrowed one.                                                           *)
(***************************************************************************)
EXTENDS Booking, TLC

CONSTANTS t1, t2, t3, t4

MCTrips == {t1, t2, t3, t4}
MCStays == 1..7
MCContracts == {1}
MCTripOf == <<t1, t1, t2, t1, t3, t3, t4>>
MCPrice == <<2, 1, 2, 1, 1, 1, 2>>
MCCheckIn == <<[year |-> 2025, month |-> 6], [year |-> 2025, month |-> 5],
               [year |-> 2026, month |-> 1], [year |-> 2025, month |-> 7],
               [year |-> 2025, month |-> 8], [year |-> 2025, month |-> 8],
               [year |-> 2025, month |-> 9]>>
MCMonths == {1}

LotRow(n, c, y, p) ==
  [id |-> <<Clerk, n, [contract |-> c, useYear |-> y]>>, contract |-> c,
   useYear |-> y, allotted |-> p, used |-> 0]
UsedRow(n, c, y, p) == [LotRow(n, c, y, 0) EXCEPT !.used = p]

Tables(stays, entries, links) ==
  [trips |-> {t1, t2}, stays |-> stays, contracts |-> Contracts,
   months |-> [c \in Contracts |-> 4],
   entries |-> entries, links |-> links]

Lots == {LotRow(1, 1, 2024, 1), LotRow(2, 1, 2025, 2), LotRow(3, 1, 2026, 1)}

\* Enough for any two of the three stays; nothing booked yet.
Scarce == Tables({1, 2, 3}, Lots, {})
\* Two rows for the current lot, one point of which is spoken for by an old
\* entry that names no contract.
WithLegacy ==
  Tables({1, 3}, {LotRow(1, 1, 2025, 2), LotRow(2, 1, 2025, 1), LotRow(3, 1, 2026, 2),
                  UsedRow(4, NoContract, 2025, 1)}, {})
\* Stay 1 was booked earlier and has two entries.
WithBooked ==
  LET u == UsedRow(4, 1, 2024, 1)
      v == UsedRow(5, 1, 2025, 1)
  IN  Tables({1, 2, 3}, Lots \cup {u, v}, {<<1, u.id>>, <<1, v.id>>})
\* And there are two usage rows, entered by hand, that an import may claim.
WithHandUsage ==
  LET u == UsedRow(4, 1, 2025, 2)
  IN  Tables({1, 2, 3}, {LotRow(1, 1, 2024, 1), LotRow(2, 1, 2025, 3), u, UsedRow(6, 1, 2025, 1),
                         UsedRow(7, NoContract, 2025, 1)}, {<<1, u.id>>})

MCHandRows ==
  {[contract |-> 1, useYear |-> 2025, allotted |-> 0, used |-> 1],
   [contract |-> NoContract, useYear |-> 2025, allotted |-> 0, used |-> 1],
   [contract |-> 1, useYear |-> 2025, allotted |-> 1, used |-> 0]}

Book(t) == [op |-> "book", trip |-> t]
Unbook(t) == [op |-> "unbook", trip |-> t]
DeleteTrip(t) == [op |-> "deleteTrip", trip |-> t]
DeleteStay(s) == [op |-> "deleteStay", stay |-> s]
Plain(op) == [op |-> op]

RaceDatabases == {Scarce, WithLegacy, WithBooked}
RaceJobs == {Book(t1), Book(t2), Unbook(t1), [op |-> "addStay", trip |-> t1]}

\* What the theorems of BookingRaceProofs ask of the tables.
ASSUME RaceTablesAssumption == \A d \in RaceDatabases : Solvent(d) /\ Settled(d)

\* Everything that can happen to the ledger and to a trip around a booking.
HandDatabases == {WithHandUsage, Scarce}
HandJobs == {Book(t1), Book(t2), DeleteTrip(t1), DeleteStay(1), Plain("import"),
             Plain("addEntry"), Plain("editEntry"), Plain("deleteEntry"),
             Plain("deleteContract"), Plain("updateContract")}

\* Two contracts, so that there are rows to wait for while holding others.
\* Stay 3 is booked, and the two rows that pay for it were edited afterwards
\* to allot points as well, so that bookings lock them as lots.
WaitContracts == {1, 2}
WaitRows == {[contract |-> 2, useYear |-> 2025, allotted |-> 1, used |-> 0]}
WaitTables ==
  LET u == [LotRow(3, 1, 2025, 1) EXCEPT !.used = 1]
      v == [LotRow(4, 2, 2025, 1) EXCEPT !.used = 1]
  IN  Tables({1, 2, 3}, {LotRow(1, 1, 2025, 2), u, v}, {<<3, u.id>>, <<3, v.id>>})
WaitDatabases == {WaitTables}
WaitJobs == {Book(t1), DeleteTrip(t1), Unbook(t2), Plain("editEntry"), Plain("deleteContract")}

StrandDatabases == {Scarce}
StrandJobs == {Book(t1), DeleteTrip(t1)}

ImportDatabases == {WithHandUsage}
ImportJobs == {Plain("import"), Plain("editEntry"), Plain("deleteEntry")}

Symmetry == Permutations(Requests)

=============================================================================
