SPECIFICATION PipelineSpec
CONSTANTS
  Control = control
  GstThreads = {g1, g2}
  MaxBuilds = 3
  MaxFailures = 0
  MaxErrors = 0
  Prompt = TRUE
INVARIANTS CleansUpNicely
CHECK_DEADLOCK FALSE
