\* One address, one number, three account rows, three codes, two requests, two
\* verifications, of which two run at a time; visitors leave the purpose open.
SPECIFICATION Spec
CONSTANTS
  Emails = {e1}
  Numbers = {n1}
  Accounts = {a1, a2, a3}
  MaxCodes = 3
  MaxAttempts = 1
  Requests = {r1, r2}
  Verifies = {v1, v2}
  MaxCalls = 2
  Named = {}
  Nowhere = Nowhere
SYMMETRY SignInSymmetry
INVARIANTS TypeOK AttemptsBounded CooldownHolds AccountsPerAddress
PROPERTIES CodesSpec
CHECK_DEADLOCK FALSE
