\* startJoin never gets past its draft.
SPECIFICATION Spec
CONSTANTS
  c1 = c1
  alice = alice
  bob = bob
  s1 = s1
  NoId = NoId
  NoOne = NoOne
  Customers = {alice, bob}
  Circles <- OneCircle
  Duration <- OneSeat
  Contribution <- UnitFee
  Limit <- Wide
  Positions = {1}
  Joins = {j1}
  Verifies = {v1}
  Seeds = {}
  SeedOwner <- NoSeed
  SeedCircle <- NoSeed
  SeedPos <- NoSeed
  DraftModes = {FALSE}
  MayAbort = FALSE
  AdminActs = TRUE
  Hold = 1
  MaxClock = 4
  MaxCrashes = 0
SYMMETRY JoinSymmetry
PROPERTIES DraftSucceeds
CHECK_DEADLOCK FALSE
