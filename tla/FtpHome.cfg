SPECIFICATION FairSpec
CONSTANTS
  root = root  sub = sub  f1 = f1  f2 = f2
  File = {f1, f2}
  Dir = {root, sub}
  Root = root
  Home = sub
  DirOf <- Places
  XCheck = TRUE
  Attempts = 1
  Old = {}
  Refusable = {}
  MaxLosses = 0
  MaxRefusals = 0
  MaxQueue = 9
PROPERTIES UploadAnswered
CHECK_DEADLOCK FALSE
