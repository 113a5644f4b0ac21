CONSTANTS
  Conn = {c1, c2, c3}
  Local = local
  Tenant = {local, other}
  NoTenant = NoTenant
  Fact = {f1}
  OldSizes = {1, 2}
  NoFile = TRUE
  MaxRows = 3
  NoConn = NoConn
  PgConn = {c1, c2, c3}
  PgTenant = {t1, t2}
  MaxTries = 2
  MaxCalls = 4
  Token = {k1}
  BrTenant = {t1, local}
  BrLocal = local
  Request = {r1, r2}
  NoToken = NoToken
  Host = {localhost, partner, elsewhere}
  NoHost = NoHost
  Loopback = {localhost}
  TrustedHosts = {partner}
  AbsTtl = 3
  IdleTtl = 2
  MaxNow = 4
  PfTenant = {t1, t2}
  Caller = {c1, c2, c3}
  MaxUsers = 1
  MaxCustoms = 1
  Pin = {"p", "", "none"}
  NoPin = "none"
  MaxSquads = 1
  Memory = {m1, m2, m3}
  Long = {m1, m2}
  Similar = {m1, m3}
  OfOne = {m1, m2}
  TopK = 1
  MaxLoads = 3
  Call = {c1, c2, c3}
  Chat = {"x"}
  Priced = {"x"}
  LosesEvents = FALSE
  Temperature = {"none", "half", "one"}
  NoKey = "one"
  Providers = 2
  Rate = 1
  Window = 2
  MaxWait = 2
  MaxClock = 2
  MaxDeltas = 1
  Run = {r1, r2}
  NoRun = NoRun
  ConfiguredSteps <- MCConfiguredSteps
  DefaultSteps <- MCDefaultSteps
  PpConn = {d1, d2}
  PpTenant = {t1, t2}
  Key = {1}
  Value = {v, w}
  Absent = Absent
  MaxOps = 3
  RsConn = {d1, d2}
  RsTenant = {u1, u2}
  RsLocal = u1
  NoOwner = NoOwner
  RsTask = {"sq1"}
  MaxSaves = 2
SYMMETRY Symmetric
SPECIFICATION StoresSpec
INVARIANTS ChainsAreWhole VerificationIsExact
  PgChainIsWhole SessionsAreEnforced TrailIsTrue RecallIsUpToDate
  TurnsAreSound UsageIsReal SavesAreWhole CallsLookAtomic PollsTellTheRun
PROPERTIES HistoryIsKept
CHECK_DEADLOCK FALSE
