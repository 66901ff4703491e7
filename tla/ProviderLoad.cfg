SPECIFICATION FairSpec
CONSTANTS
  Callers = {a, b}
  Values = {snapshot}
  NoValue = NoValue
  Failed = Failed
  NoCaller = NoCaller
  None = None
  TTL = 1
  Tokens = {t1, t2}
  MaxLife = 1
  RequestTimeout = 3
  HttpTimeout = 1
INVARIANTS TypeOK NoMissingToken CutOnlyInTrouble NoDeadlock
PROPERTY RetryServed
