SPECIFICATION Spec
CONSTANTS
  Venues = {"generic"}
  Kinds = {"taker", "maker"}
  Lots = 2
  Retries = 2
INVARIANTS
  FateIsKnownOnReturn
CHECK_DEADLOCK FALSE
