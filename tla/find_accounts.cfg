\* Two sign-ins for one new address.
SPECIFICATION Spec
CONSTANTS
  Emails = {e1}
  Numbers = {n1}
  Accounts = {a1, a2}
  MaxCodes = 2
  MaxAttempts = 1
  Requests = {r1}
  Verifies = {v1, v2}
  MaxCalls = 2
  Named = {"login", "registration"}
  Nowhere = Nowhere
SYMMETRY SignInSymmetry
INVARIANTS OneAccountPerAddress
CHECK_DEADLOCK FALSE
