SPECIFICATION FairSystem
CONSTANTS
  Player = player
  Streams = {cam1}
  Devices = {cam1}
  Values <- MCValues
  Absent = Absent
  Empty = Empty
  Null = Null
  NoConn = NoConn
  Workers <- MCWorkers
  Main = main
  Updates <- MCUpdates
  Commands = {"live", "off"}
  Sparse = TRUE
  MaxConns = 1
  MaxRequests = 1
  MaxAlarms = 0
  MaxDeaths = 0
  MaxInterrupts = 0
  MaxCameraFailures = 0
  MaxStreamErrors = 0
PROPERTIES OffCompletes
CHECK_DEADLOCK FALSE
