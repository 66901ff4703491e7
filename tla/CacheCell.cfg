SPECIFICATION FairSpec
CONSTANTS
  Callers = {c1, c2, c3}
  Values = {v, w}
  NoValue = NoValue
  Failed = Failed
  NoCaller = NoCaller
  TTL = 2
INVARIANTS TypeOK NoDeadlock
PROPERTIES ImplementsFreshCell EveryCallEnds
