SPECIFICATION Spec
CONSTANTS
  BLT = BLT
  VWL = VWL
  studio = studio
  villa = villa
  None = None
  Invalid = Invalid
  Charts <- MCCharts
  MaxNights = 2
  Tie <- MCTie
  Clients = {c1, c2}
  TripIds = {1, 2}
  StayIds = {1, 2}
  Plans <- MCPlans
  Budgets <- MCBudgets
  Codes <- MCCodes
  maxResultRows = 3
  StartTrips <- MCStartTrips
  StartTotals = {3}
  MaxSends = 3
  MaxRestarts = 1
SYMMETRY Symmetry
INVARIANTS TypeOK InheritStoresNoFilters SavedUnlessFailed
PROPERTIES EditsConfined AddedAsShown DeletedForGood
