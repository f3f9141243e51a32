CONSTANTS
  Copies = {1, 2}
  r1 = r1
  r2 = r2
  r3 = r3
  Requests = {r1, r2}
  CopyOf <- const_TwoCopies
  Loggers = {"typesafe_sdk", "typesafe_sdk.retry"}
  Root = "typesafe_sdk"
  MadeByImport = {"typesafe_sdk", "typesafe_sdk.retry"}
  Settings = {"debug", "quiet"}
  Default = "debug"
  Questions = {"safe", "effort"}
  Optional = {"effort"}
SPECIFICATION Spec
INVARIANT SilentInFlight
CHECK_DEADLOCK FALSE
