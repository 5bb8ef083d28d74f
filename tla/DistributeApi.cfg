SPECIFICATION Spec
CONSTANTS
  Requests = {r1, r2}
  Jobs <- AnyDoorJobs
  Nobody = Nobody
  Clerk = Clerk
  FirstYear = 25
  LastYear = 26
  TypedYears = {26}
  Databases <- MCDatabases
PROPERTY NoDoublePost
