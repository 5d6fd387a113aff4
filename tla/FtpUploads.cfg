SPECIFICATION LiveSpec
CONSTANTS
  root = root  sub = sub  f1 = f1  f2 = f2
  File = {f1, f2}
  Dir = {root, sub}
  Root = root
  Home = root
  DirOf <- Places
  XCheck = TRUE
  Attempts = 1
  Old = {}
  Refusable = {"welcome", "USER", "PASS", "PASV", "STOR", "MKD", "TYPE", "SIZE"}
  MaxLosses = 1
  MaxRefusals = 1
  MaxQueue = 18
INVARIANTS TypeOK ReplyIsForHead DoneMeansStored UploadPursued TransferPrepared BeliefsHold ReconnectTimed NothingLeft
PROPERTIES UploadEnds
CHECK_DEADLOCK FALSE
