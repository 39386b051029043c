SPECIFICATION Spec
CONSTANTS
  sm2 = sm2
  sm2dhe = sm2dhe
  NoSuite = NoSuite
  Suites <- MCSuites
  MutualSuites <- MCMutualSuites
  ClientConfigs <- OpenClients
  MaxConns = 2
  MaxKeyExchanges = 2
INVARIANTS
  TypeOK
  FinishedMeansVerified
  FinishedMeansProtected
  NoWriteError
  ServerAuthenticated
