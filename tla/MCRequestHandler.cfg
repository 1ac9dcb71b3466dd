SPECIFICATION Spec
CONSTANTS
  Response <- MCResponse
  Key = {"a", "b"}
  MaxRetries = 1
INVARIANTS BodyOnce EventsKept JsonPieces
CHECK_DEADLOCK FALSE
