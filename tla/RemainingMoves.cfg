SPECIFICATION FundingSpec
CONSTANTS
  t1 = t1
  t2 = t2
  t3 = t3
  Trips <- MCTrips
  Stays <- MCStays
  Contracts <- MCContracts
  TripOf <- MCTripOf
  Price <- MCPrice
  CheckIn <- MCCheckIn
  HandMonths <- MCMonths
  Annual <- MCAnnual
  Start <- MCStart
  Override <- MCOverride
  NoOverride = NoOverride
  NoContract = NoContract
  Clerk = Clerk
  Requests = {r1, r2}
  HandRows <- MCHandRows
  Databases <- OverrideDatabases
  Jobs <- OverrideJobs
SYMMETRY Symmetry
PROPERTY BookingLeavesRemaining
