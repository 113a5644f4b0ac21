CONSTANTS
  CsTask = {t1, t2}
  Nobody = Nobody
SPECIFICATION SocketSpec
INVARIANT CallsReachOwnTask
CHECK_DEADLOCK FALSE
