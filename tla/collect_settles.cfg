\* Money taken under a late answer is booked.
SPECIFICATION FairSpec
CONSTANTS
  NoTx = NoTx
  Installments = {i1}
  Txs = {t1, t2}
  Requests = {w1, w2}
  Job = job
  References = {TRUE, FALSE}
  AdminActs = TRUE
  MaxFailures = 1
  MaxPosts = 1
PROPERTIES LateAnswerIsBooked LateAnswerWaits
CHECK_DEADLOCK FALSE
