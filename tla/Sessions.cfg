\* Two logins, two streams, two updates, days enough for an eviction.
CONSTANTS
  Sessions = {1, 2}
  Streams = {1, 2}
  Descriptions = {"phone"}
  ServerDevice = "server"
  BufferSize = 1
  QuietDays = 0
  MaxDay = 1
  MaxUpdates = 2
  Local = Local
  None = None
SPECIFICATION FairSpec
INVARIANTS TypeOK UpdatesConserved LoginNamesItsDevice
PROPERTIES EvictedWasIdle UpdatesDelivered
CHECK_DEADLOCK FALSE
