\* Every reservation is settled, across a restart.
SPECIFICATION FairSpec
CONSTANTS
  c1 = c1
  alice = alice
  bob = bob
  s1 = s1
  NoId = NoId
  NoOne = NoOne
  Customers = {alice, bob}
  Circles <- OneCircle
  Duration <- OneSeat
  Contribution <- UnitFee
  Limit <- Wide
  Positions = {1}
  Joins = {j1, j2}
  Verifies = {v1}
  Seeds = {}
  SeedOwner <- NoSeed
  SeedCircle <- NoSeed
  SeedPos <- NoSeed
  DraftModes = {TRUE}
  MayAbort = TRUE
  AdminActs = TRUE
  Hold = 1
  MaxClock = 4
  MaxCrashes = 1
PROPERTIES ReservationSettled
CHECK_DEADLOCK FALSE
