\* The vehicle and its server both restart, over a radio that drops messages.
SPECIFICATION Spec
CONSTANTS
  c1 = c1
  c2 = c2
  c3 = c3
  c4 = c4
  NoClient = NoClient
  Clients = {c1}
  DefaultClient = c1
  PropertyList <- OneList
  ListId <- AllZero
  AppProps = {"unknown"}
  StreamProps = {"imu", "esc_pwm"}
  StreamCountAtBoot = {0}
  SPP_TOKEN_MAX_RESERVED = 3
  SPP_PENDING_REQUESTS_MAX = 2
  SPP_CONNECTIONS_MAX = 2
  SPP_STREAM_MAX_COUNT = 2
  DefsBufferSize = 3
  MaxInFlight = 1
  Lossy = TRUE
  MaxHostBoots = 2
  MaxClientBoots = 2
INVARIANTS TypeOK PendingCountExact RangesAreWritten FirstRunStreamsMatch FirstRunStreamTablesSuffice
CHECK_DEADLOCK FALSE
