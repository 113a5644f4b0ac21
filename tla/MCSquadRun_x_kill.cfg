CONSTANTS
  Task <- OneTask
  Call = {}
  Msg = {}
  Stopper = {k1}
  Viewer = {}
  Gen = {}
  MaxLog = 0
  Lag = 1
  NoCall = NoCall
  File = {}
  Handler = {}
  MaxEvents = 0
  MaxCrash = 0
  Faults = {}
  SecondStart = FALSE
  NoTask = NoTask
  NoFile = NoFile
SPECIFICATION Spec
PROPERTY KillSwitchWins
CHECK_DEADLOCK FALSE
