SPECIFICATION FairSpec
CONSTANTS
  t1 = t1  t2 = t2  t3 = t3  b1 = b1  b2 = b2
  Transaction = {t1, t2}
  Batch = {b1}
  Transient = {}
  Merging = {t1}
  MaxCounts <- NoLimit
  FaultKinds <- HistoryFaults
  MaxFaults = 2
  Flaky = TRUE
  Reentrant = {"do"}
  Balanced = TRUE
  MaxDepth = 4
INVARIANTS OnlyBatchesStayOpen
PROPERTIES KeepsHistory EveryCallReturns
