SPECIFICATION Spec
CONSTANTS
  Agvs = {1, 2}
  Ids = {1, 2}
  Configs = {{"buffering", "service"}, {"service", "wait"}, {}}
  ChunkSize = 1
  MaxMessages = 2
  MaxFaults = 1
PROPERTIES NeverOlder InsertsArrive OrdersArrive
CHECK_DEADLOCK FALSE
