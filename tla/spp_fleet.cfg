\* Three vehicles of one kind and one of another, in a table for three; all may
\* restart, and the definitions of both kinds fill defs_buffer.
SPECIFICATION Spec
CONSTANTS
  c1 = c1
  c2 = c2
  c3 = c3
  c4 = c4
  NoClient = NoClient
  Clients = {c1, c2, c3, c4}
  DefaultClient = NoClient
  PropertyList <- FleetList
  ListId <- FleetId
  AppProps = {}
  StreamProps = {}
  StreamCountAtBoot = {0}
  SPP_TOKEN_MAX_RESERVED = 2
  SPP_PENDING_REQUESTS_MAX = 1
  SPP_CONNECTIONS_MAX = 3
  SPP_STREAM_MAX_COUNT = 1
  DefsBufferSize = 3
  MaxInFlight = 1
  Lossy = FALSE
  MaxHostBoots = 1
  MaxClientBoots = 2
SYMMETRY SameKind
INVARIANTS RegisteredOnce SameListSameRange
PROPERTIES OnlyLastRangeIsExposed
CHECK_DEADLOCK FALSE
