SPECIFICATION FairSpec
CONSTANTS
  Requests = {r1, r2, r3}
  Jobs <- PageJobs
  Nobody = Nobody
  Clerk = Clerk
  FirstYear = 25
  LastYear = 26
  TypedYears = {24, 26}
  Databases <- MCDatabases
INVARIANT TypeOK
PROPERTIES NoDoublePost EveryContractAdvanced EveryRequestAnswered
