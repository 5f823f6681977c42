SPECIFICATION Spec
CONSTANTS
  RequestCap = 1
  ResponseCap = 1
  MaxTurns = 2
  MaxPieces = 1
  Agreements = {"plain", "fresh"}
  MaxOversize = 1
  Impatient = TRUE
  Backlog = 1
  MaxTurnEvents = 3
  MaxLog = 4
  MaxPrompts = 2
  MaxRequests = 2
  Overtaking = FALSE
  MaxSize = 2
  InFlight = 1
  Requests = {"conversation", "message", "stream", "socket", "other"}
  Interim = FALSE
INVARIANT
  NoTurnLost
CHECK_DEADLOCK FALSE
