SPECIFICATION Spec
CONSTANTS
  sm2 = sm2
  sm2dhe = sm2dhe
  NoSuite = NoSuite
  Suites <- MCSuites
  MutualSuites <- MCMutualSuites
  ClientConfigs <- ReusingClients
  ServerConfigs <- ReusedServers
  MaxConns <- MCMaxConns
  MaxTicketKeys <- MCMaxTicketKeys
  ConnectionsBreak = FALSE
INVARIANT
  ClientAuthenticated
