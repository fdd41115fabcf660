SPECIFICATION SystemSpec
CONSTANTS
  Player = player
  Streams = {cam1, cam2}
  Devices = {cam1, cam2}
  Values <- MCValues
  Absent = Absent
  Empty = Empty
  Null = Null
  NoConn = NoConn
  Workers <- MCWorkers
  Main = main
  Updates <- MCUpdates
  Commands = {"live", "local", "off"}
  Sparse = TRUE
  MaxConns = 1
  MaxRequests = 2
  MaxAlarms = 0
  MaxDeaths = 0
  MaxInterrupts = 0
  MaxCameraFailures = 0
  MaxStreamErrors = 0
INVARIANTS SystemTypeOK SomeoneHasTheTurn AckMatchesReport OrdersReachTheirDevice
PROPERTIES ObeyedBeforeAck ImplementsCameraSession
CHECK_DEADLOCK FALSE
