SPECIFICATION Spec
CONSTANTS
  root = root  sub = sub  f1 = f1  f2 = f2
  File = {f1, f2}
  Dir = {root, sub}
  Root = root
  Home = root
  DirOf <- Places
  XCheck = TRUE
  Attempts = 1
  Old = {f1}
  Refusable = {}
  MaxLosses = 1
  MaxRefusals = 0
  MaxQueue = 9
INVARIANTS DoneMeansStored
CHECK_DEADLOCK FALSE
