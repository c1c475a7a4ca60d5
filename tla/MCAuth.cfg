CONSTANTS
  HttpCalls = {http1, http2}
  StreamCalls = {stream1}
  SignIns = {signin1}
  Logins = {login1}
  Logouts = {logout1}
  LogoutAlls = {all1}
  Revokes = {revoke1}
  MaxSessions = 2
  MaxEvents = 1
  MaxCalls = 2
SPECIFICATION FairSpec
INVARIANTS
  TypeOK
  LimitAtRest
  PresentsOwnToken
  HoldsNewest
PROPERTIES
  CutOffHolds
  CallsReturn
\* Every call is made once, and then nothing happens any more.
CHECK_DEADLOCK FALSE
