SPECIFICATION SystemSpec
CONSTANTS
  Player = player
  Streams = {cam1}
  Devices = {cam1}
  Values <- MCValues
  Absent = Absent
  Empty = Empty
  Null = Null
  NoConn = NoConn
  Workers <- MCWorkers
  Main = main
  Updates <- MCUpdates
  Commands = {"live", "off"}
  Sparse = TRUE
  MaxConns = 2
  MaxRequests = 0
  MaxAlarms = 0
  MaxDeaths = 1
  MaxInterrupts = 1
  MaxCameraFailures = 0
  MaxStreamErrors = 0
PROPERTIES ImplementsStatusFiles
CHECK_DEADLOCK FALSE
