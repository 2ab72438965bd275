\* One vehicle on a reliable line and a server that is restarted once; tokens
\* roll over, are given out again while in use, and the request window overflows.
SPECIFICATION FairSpec
CONSTANTS
  c1 = c1
  c2 = c2
  c3 = c3
  c4 = c4
  NoClient = NoClient
  Clients = {c1}
  DefaultClient = NoClient
  PropertyList <- OneList
  ListId <- AllZero
  AppProps = {"imu"}
  StreamProps = {}
  StreamCountAtBoot = {0}
  SPP_TOKEN_MAX_RESERVED = 3
  SPP_PENDING_REQUESTS_MAX = 2
  SPP_CONNECTIONS_MAX = 2
  SPP_STREAM_MAX_COUNT = 2
  DefsBufferSize = 4
  MaxInFlight = 5
  Lossy = FALSE
  MaxHostBoots = 2
  MaxClientBoots = 1
INVARIANTS ReuseNeedsFullLine PendingIsInFlight ReadyMeansAllReceived
PROPERTIES ConnectingEnds
CHECK_DEADLOCK FALSE
