SPECIFICATION FairSpec
CONSTANTS
  Callers = {c1, c2}
  None = None
  Tokens = {t1, t2, t3, t4, t5}
  MaxLife = 1
INVARIANTS TypeOK AuthTogether NoDeadlock
PROPERTIES OnlyRejectedCleared NoRedundantLogin RetryUsesNewToken EverySyncEnds
