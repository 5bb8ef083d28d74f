SPECIFICATION Spec
CONSTANTS
  t1 = t1
  t2 = t2
  t3 = t3
  t4 = t4
  Trips <- MCTrips
  Stays <- MCStays
  Contracts <- MCContracts
  TripOf <- MCTripOf
  Price <- MCPrice
  CheckIn <- MCCheckIn
  HandMonths <- MCMonths
  NoContract = NoContract
  Clerk = Clerk
  Requests = {r1, r2, r3, r4}
  HandRows <- MCHandRows
  Databases <- RaceDatabases
  Jobs <- RaceJobs
SYMMETRY Symmetry
INVARIANTS TypeOK NoLotOverdrawn LedgerNotOverspent FailureLeavesNothing RetriesPaidFor NoStrandedUsage
PROPERTIES StayFundedAtOnce BookingAllOrNothing ImplementsTripLedger
