CONSTANTS
  Task <- OneTask
  Call = {c1, c2}
  Msg = {}
  Stopper = {k1}
  Viewer = {}
  Gen = {}
  MaxLog = 0
  Lag = 1
  NoCall = NoCall
  File = {f1}
  Handler = {h1}
  MaxEvents = 0
  MaxCrash = 1
  Faults = {}
  SecondStart = FALSE
  NoTask = NoTask
  NoFile = NoFile
SPECIFICATION SafeSpec
INVARIANTS StatusTellsTheEnding WrittenOnlyIfApproved
PROPERTIES RunHasItsLifecycle
SYMMETRY RunSymmetry
CHECK_DEADLOCK FALSE
