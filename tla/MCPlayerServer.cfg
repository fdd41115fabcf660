SPECIFICATION FairPlayers
CONSTANTS
  Streams = {myStream}
  MyStream = myStream
  Values <- MCValues
  Absent = Absent
  Empty = Empty
  Null = Null
  Player = player
  Workers = {player}
  Main = main
  Updates <- MCUpdates
  DeviceUpdates <- MCReports
  TestPlayers = {test}
  Browsers = {browser}
  Requests <- MCRequests
  MaxClicks = 1
  MaxReports = 1
  MaxAlarms = 0
  MaxDeaths = 1
INVARIANTS PlayerTypeOK AckedIsStored AnswersMatchRequests
PROPERTIES ImplementsAtomicStatus RecoversUnlessTorn EveryRequestIsServed TestPlayerEnds
CHECK_DEADLOCK FALSE
