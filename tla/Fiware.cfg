SPECIFICATION FiwareSpec
CONSTANTS
  Pallets = {1, 2}
  FilePallets = {1}
  BufferMap = FALSE
  ChunkSize = 1
  MaxRetries = 1
  MaxFaults = 1
  MaxEvents = 2
  MaxRestarts = 1
PROPERTIES AlertLogged GeometryNeverOlder
CHECK_DEADLOCK FALSE
