SPECIFICATION FairOta
CONSTANTS
  Clients = {c1, c2}
  None = None
  MaxVersion = 3
  Unparsable = {2}
  MaxMishaps = 1
INVARIANTS OtaTypeOK RecordIsInstalled
PROPERTIES UpToDate
CHECK_DEADLOCK FALSE
