SPECIFICATION FairPipeline
CONSTANTS
  Control = control
  GstThreads = {g1, g2}
  MaxBuilds = 3
  MaxFailures = 1
  MaxErrors = 1
  Prompt = TRUE
INVARIANTS PipelineTypeOK StatusTellsPipeline PlayingIsWatched OneHoldsTheCamera
PROPERTIES StopEndsThread
CHECK_DEADLOCK FALSE
