\* A customer and an admin, four rows, two sign-ins or refreshes at a time.
SPECIFICATION Spec
CONSTANTS
  Customers = {q1}
  Admins = {a1}
  Rows = {r1, r2, r3, r4}
  Calls = {k1, k2}
  Closers = {w1, w2}
  NoOne = NoOne
  NoRow = NoRow
SYMMETRY SessionsSymmetry
INVARIANTS TypeOK RowsOutliveCalls
PROPERTIES AccessSpec
CHECK_DEADLOCK FALSE
