CONSTANTS
  Task <- OneTask
  Call = {c1}
  Msg = {m1}
  Stopper = {}
  Viewer = {}
  Gen = {}
  MaxLog = 0
  Lag = 1
  NoCall = NoCall
  File = {f1}
  Handler = {h1}
  MaxEvents = 1
  MaxCrash = 1
  Faults = {"store", "ledger", "sidecar", "provider"}
  SecondStart = TRUE
  NoTask = NoTask
  NoFile = NoFile
SPECIFICATION SafeSpec
INVARIANTS FactsFollowRow
CHECK_DEADLOCK FALSE
