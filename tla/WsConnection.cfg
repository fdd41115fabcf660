SPECIFICATION FairWs
CONSTANTS
  Idle = TRUE
  MaxSends = 1
  MaxCuts = 1
INVARIANTS WsTypeOK OneWriter
PROPERTIES ImplementsFrameChannel CloseCompletes EndsAreReleased
CHECK_DEADLOCK FALSE
