CONSTANTS
  Task <- TwoTasks
  Call = {c1}
  Msg = {}
  Stopper = {k1}
  Viewer = {}
  Gen = {}
  MaxLog = 0
  Lag = 1
  NoCall = NoCall
  File = {f1}
  Handler = {}
  MaxEvents = 1
  MaxCrash = 0
  Faults = {"sidecar"}
  SecondStart = FALSE
  NoTask = NoTask
  NoFile = NoFile
SPECIFICATION EndingSpec
PROPERTIES RunsEnd
CHECK_DEADLOCK FALSE
