SPECIFICATION RadiusSpec
CONSTANTS
  a = a
  b = b
  s1 = s1
  s2 = s2
  Addrs = {a, b}
  Types = {"AUTH", "ACCT", "ACCT_INTERIM"}
  NumIds = 2
  MaxEntries = 2
  FirstWait = 1
  MaxWait = 2
  MaxRetries = 3
  NumFailover = 1
  AuthSecrets <- TwoServers
  AcctSecrets <- TwoServers
  SendErrors = TRUE
  MaxSends = 3
INVARIANTS
  PendingListSound
  SignedForServer
CHECK_DEADLOCK FALSE
