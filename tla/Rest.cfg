SPECIFICATION MCSpec
CONSTANTS
  Browsers = {b1, b2}
  MaxTokens = 2
  Ttl = 2
  MaxIssued = 4
  MaxNow = 4
  Clients = {b1, b2}
  Sockets = {s1, s2}
  Addresses = {a1, a2, a3}
  Web = {w1}
  Events = events
  NotFound = notFound
  None = None
  MaxRequestBody = 1
  MaxBody = 2
  MaxHeld = 2
  Boundary <- MCBoundary
  Letters = {"b", "x"}
  FileChunkSize = 3
  FirstLength = 5
  SecondLength = 2
SYMMETRY Alike
INVARIANTS
  SessionsInOrder
  RequestsAreGuarded
  SessionsAreWhole
  UploadsArriveAsSent
PROPERTIES
  SessionEndsForAReason
  RunsAreLeftAlone
