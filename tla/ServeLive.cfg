SPECIFICATION FairSpec
CONSTANTS
  Clients = {k1, k2}
  Configs = {a}
  ValidConfigs = {a}
  NoConfig = NoConfig
  RequestTimeout = 1
  ShutdownTimeout = 1
  MaxSignals = 2
PROPERTIES ShutdownCompletes OldGenerationDrains ReloadTakesEffect
