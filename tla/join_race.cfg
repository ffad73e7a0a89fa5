\* Two requests for a circle of two positions, one of them seeded.
SPECIFICATION Spec
CONSTANTS
  c1 = c1
  alice = alice
  bob = bob
  s1 = s1
  NoId = NoId
  NoOne = NoOne
  Customers = {alice, bob}
  Circles <- OneCircle
  Duration <- TwoSeats
  Contribution <- UnitFee
  Limit <- Wide
  Positions = {1, 2, 3}
  Joins = {j1, j2}
  Verifies = {v1, v2}
  Seeds = {s1}
  SeedOwner <- SeedByAlice
  SeedCircle <- SeedInC1
  SeedPos <- SeedAt1
  DraftModes = {TRUE, FALSE}
  MayAbort = TRUE
  AdminActs = TRUE
  Hold = 1
  MaxClock = 4
  MaxCrashes = 0
SYMMETRY SeededSymmetry
INVARIANTS TypeOK OnePayoutPerSeat NeverOversold CountIsMembers SoldRowsStay
PROPERTIES DeletedOnlyAfterHold SaleSpec
CHECK_DEADLOCK FALSE
