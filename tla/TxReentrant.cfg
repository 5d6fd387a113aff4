SPECIFICATION Spec
CONSTANTS
  t1 = t1  t2 = t2  t3 = t3  b1 = b1  b2 = b2
  Transaction = {t1, t2}
  Batch = {b1}
  Transient = {}
  Merging = {}
  MaxCounts <- TwoLimits
  FaultKinds <- AllFaults
  MaxFaults = 1
  Flaky = TRUE
  Reentrant = {"do", "undo", "redo"}
  Balanced = FALSE
  MaxDepth = 3
SYMMETRY Symmetry
INVARIANTS TypeOK StackBound ItemOwnedOnce UndoNeverDuringDo DosAccounted
CHECK_DEADLOCK FALSE
