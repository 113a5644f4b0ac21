CONSTANTS
  Task <- OneTask
  Call = {c1}
  Msg = {}
  Stopper = {}
  Viewer = {}
  Gen = {}
  MaxLog = 0
  Lag = 1
  NoCall = NoCall
  File = {f1}
  Handler = {h1}
  MaxEvents = 0
  MaxCrash = 0
  Faults = {}
  SecondStart = FALSE
  NoTask = NoTask
  NoFile = NoFile
SPECIFICATION Spec
INVARIANT LedgerApprovalsAreReal
CHECK_DEADLOCK FALSE
