SPECIFICATION Spec
CONSTANTS
  t1 = t1
  t2 = t2
  t3 = t3
  t4 = t4
  Trips <- MCTrips
  Stays <- MCStays
  Contracts <- MCContracts
  TripOf <- MCTripOf
  Price <- MCPrice
  CheckIn <- MCCheckIn
  HandMonths <- MCMonths
  NoContract = NoContract
  Clerk = Clerk
  Requests = {r1, r2, r3}
  HandRows <- MCHandRows
  Databases <- HandDatabases
  Jobs <- HandJobs
SYMMETRY Symmetry
INVARIANT LinkIntegrity
PROPERTY DrawnWhereEligible
