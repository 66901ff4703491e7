SPECIFICATION Spec
CONSTANTS
  Clients = {k1, k2}
  Configs = {a, b, bad}
  ValidConfigs = {a, b}
  NoConfig = NoConfig
  RequestTimeout = 2
  ShutdownTimeout = 2
  MaxSignals = 2
SYMMETRY Symmetry
INVARIANTS TypeOK NoLostReload NewestConfigWins GenerationSplit NoPrematureAbort
PROPERTIES ImplementsAgentService
