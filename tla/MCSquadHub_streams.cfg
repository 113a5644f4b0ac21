CONSTANTS
  Task = {t1}
  Call = {}
  Msg = {m1, m2}
  Stopper = {k1}
  Viewer = {v1}
  Gen = {g1, g2}
  MaxLog = 1
  Lag = 2
  NoCall = NoCall
SPECIFICATION HubSpec
INVARIANTS StreamHasNoGap GuidanceGoesToOneTurn
PROPERTY StoppedStreamsEnd
CHECK_DEADLOCK FALSE
