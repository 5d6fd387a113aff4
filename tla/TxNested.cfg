SPECIFICATION Spec
CONSTANTS
  t1 = t1  t2 = t2  t3 = t3  b1 = b1  b2 = b2
  Transaction = {t1, t2, t3}
  Batch = {b1, b2}
  Transient = {t3}
  Merging = {t1}
  MaxCounts <- Limits
  FaultKinds <- UndoFaults
  MaxFaults = 1
  Flaky = FALSE
  Reentrant = {"do"}
  Balanced = TRUE
  MaxDepth = 4
INVARIANTS StacksMatchDocument TreesAreWhole LoopNeverPeeksEmpty ListenerTracksStacks
PROPERTIES UndoRestoresState RedoFromSameState
