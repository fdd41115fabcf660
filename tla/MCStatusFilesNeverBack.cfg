SPECIFICATION FairSpec
CONSTANTS
  Streams = {s1}
  Values <- MCValues
  Absent = Absent
  Empty = Empty
  Null = Null
  Workers = {handler1, handler2}
  Main = main
  Updates <- AckUpdates
  MaxAlarms = 0
  MaxDeaths = 0
PROPERTIES ServerComesBack
