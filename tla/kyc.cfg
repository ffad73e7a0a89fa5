\* One customer, two documents, two reviews and a submission at a time.
SPECIFICATION FairSpec
CONSTANTS
  q1 = q1
  d1 = d1
  d2 = d2
  NoOne = NoOne
  NoDoc = NoDoc
  Customers = {q1}
  Docs = {d1, d2}
  Owner <- OfQ1
  IdDoc <- First
  IncDoc <- Second
  Supplementary = {"UTILITY_BILL"}
  Submits = {s1}
  Reviews = {r1, r2}
INVARIANTS TypeOK UnderReviewIsComplete
PROPERTIES EligibilityIsDecided LastApprovalDecides
