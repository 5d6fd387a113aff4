SPECIFICATION FairSpec
CONSTANTS
  MaxPlaces = 3
  MaxWords <- Limits
  MaxActions = 5
  MaxWaiting = 1
INVARIANTS MarksCounted MarksSettled
PROPERTIES ChecksEnd
CHECK_DEADLOCK FALSE
