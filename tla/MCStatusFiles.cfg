SPECIFICATION Spec
CONSTANTS
  Streams = {s1}
  Values <- MCValues
  Absent = Absent
  Empty = Empty
  Null = Null
  Workers = {handler, player}
  Main = main
  Updates <- MCUpdates
  MaxAlarms = 1
  MaxDeaths = 1
SYMMETRY WorkerSymmetry
INVARIANTS TypeOK NoTornAtRest CompleteDocuments
PROPERTIES AtomicWhenFresh CrashNeedsOverlap
