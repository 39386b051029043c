SPECIFICATION Spec
CONSTANTS
  sm2 = sm2
  sm2dhe = sm2dhe
  NoSuite = NoSuite
  Suites <- MCSuites
  MutualSuites <- MCMutualSuites
  ServerConfigs <- OpenServers
  Secrets = {0, 1}
  MaxConns = 2
  MaxTicketKeys = 1
INVARIANTS
  TypeOK
  FinishedMeansVerified
  FinishedMeansProtected
  NoWriteError
  ChangeCipherSpecReady
  ServerInv
  ClientAuthenticated
PROPERTY
  ResumableOnlyAfterFinished
