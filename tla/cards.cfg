\* Five rows and two calls at a time.
SPECIFICATION Spec
CONSTANTS
  PaymentMethods = {c1, c2, c3, c4, c5}
  Calls = {k1, k2}
  NoCard = NoCard
SYMMETRY CardsSymmetry
INVARIANTS TypeOK DefaultsBounded
CHECK_DEADLOCK FALSE
