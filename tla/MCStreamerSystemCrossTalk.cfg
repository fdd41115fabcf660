SPECIFICATION SystemSpec
CONSTANTS
  Player = player
  Streams = {cam1, cam2}
  Devices = {cam1, cam2}
  Values <- MCValues
  Absent = Absent
  Empty = Empty
  Null = Null
  NoConn = NoConn
  Workers <- MCWorkers
  Main = main
  Updates <- MCUpdates
  Commands = {"live", "off"}
  Sparse = FALSE
  MaxConns = 2
  MaxRequests = 0
  MaxAlarms = 0
  MaxDeaths = 0
  MaxInterrupts = 0
  MaxCameraFailures = 0
  MaxStreamErrors = 0
INVARIANTS OrdersReachTheirDevice
CHECK_DEADLOCK FALSE
