\* Three transactions for one instalment, two requests, the job, one dying call.
SPECIFICATION Spec
CONSTANTS
  NoTx = NoTx
  Installments = {i1}
  Txs = {t1, t2, t3}
  Requests = {w1, w2}
  Job = job
  References = {TRUE}
  AdminActs = TRUE
  MaxFailures = 1
  MaxPosts = 1
SYMMETRY CollectSymmetry
INVARIANTS TypeOK SettledGetsPaid RetryScheduled
PROPERTIES BooksSpec
CHECK_DEADLOCK FALSE
