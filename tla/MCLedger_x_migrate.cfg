CONSTANTS
  Conn = {c1, c2}
  Local = local
  Tenant = {local, other}
  NoTenant = NoTenant
  Fact = {f1}
  OldSizes = {0}
  NoFile = FALSE
  MaxRows = 4
  NoConn = NoConn
SPECIFICATION Spec
INVARIANT ChainsAreWhole
CHECK_DEADLOCK FALSE
