SPECIFICATION Spec
CONSTANTS
  a = a
  b = b
  s1 = s1
  Addrs = {a, b}
  Types = {"AUTH"}
  NumIds = 2
  MaxEntries = 2
  FirstWait = 1
  MaxWait = 2
  MaxRetries = 3
  NumFailover = 1
  AuthSecrets <- OneServer
  AcctSecrets <- OneServer
  SendErrors = FALSE
  MaxSends = 3
  AclTimeout = 1
  AclPeriod = 1
INVARIANTS
  OneQueryEach
  AnswersTakeEffect
PROPERTIES
  QueryEnds
  EventuallyDone
CHECK_DEADLOCK FALSE
