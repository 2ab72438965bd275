\* The server starts up to three times, before or after the vehicle.
SPECIFICATION FairSpec
CONSTANTS
  c1 = c1
  c2 = c2
  c3 = c3
  c4 = c4
  NoClient = NoClient
  Clients = {c1}
  DefaultClient = c1
  PropertyList <- OneList
  ListId <- AllZero
  AppProps = {}
  StreamProps = {}
  StreamCountAtBoot = {0}
  SPP_TOKEN_MAX_RESERVED = 5
  SPP_PENDING_REQUESTS_MAX = 2
  SPP_CONNECTIONS_MAX = 2
  SPP_STREAM_MAX_COUNT = 2
  DefsBufferSize = 8
  MaxInFlight = 3
  Lossy = FALSE
  MaxHostBoots = 3
  MaxClientBoots = 1
PROPERTIES PropertyListArrives
CHECK_DEADLOCK FALSE
