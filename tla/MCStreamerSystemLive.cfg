SPECIFICATION FairSystem
CONSTANTS
  Player = player
  Streams = {cam1}
  Devices = {cam1}
  Values <- MCValues
  Absent = Absent
  Empty = Empty
  Null = Null
  NoConn = NoConn
  Workers <- MCWorkers
  Main = main
  Updates <- MCUpdates
  Commands = {"live", "local", "off"}
  Sparse = TRUE
  MaxConns = 1
  MaxRequests = 1
  MaxAlarms = 1
  MaxDeaths = 0
  MaxInterrupts = 0
  MaxCameraFailures = 1
  MaxStreamErrors = 1
INVARIANTS PipelineMatchesStatus
PROPERTIES CommandsEnd StatusCatchesUp
CHECK_DEADLOCK FALSE
