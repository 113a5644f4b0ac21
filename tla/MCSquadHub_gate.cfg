CONSTANTS
  Task = {t1}
  Call = {c1, c2, c3}
  Msg = {}
  Stopper = {k1, k2}
  Viewer = {}
  Gen = {}
  MaxLog = 0
  Lag = 1
  NoCall = NoCall
SPECIFICATION HubSpec
PROPERTIES GateIsHumanGate GatesStayLive
CHECK_DEADLOCK FALSE
