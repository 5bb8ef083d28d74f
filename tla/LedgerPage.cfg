SPECIFICATION Spec
CONSTANTS
  microsPerCent = 10
  duesGrowthBase = 20
  Clients = {c1, c2}
  Nobody = Nobody
  NoContract = NoContract
  Tables <- MCTables
  ContractRows <- MCContractRows
  EntryRows <- MCEntryRows
  DuesRows <- MCDuesRows
  Charges <- MCCharges
  Jobs <- MCJobs
  Today <- MCToday
  costBasisTTL = 1
  recentActivityLimit = 2
  spentByYearLimit = 2
  duesPreviewYears = 2
  MaxSends = 3
  MaxEdits = 1
  MaxTime = 2
SYMMETRY Symmetry
INVARIANTS TypeOK CacheCurrent PricedToTheCent BlendedAmongRates DuesFollowTrend ViewAddsUp
PROPERTIES EditsReachTripPages
