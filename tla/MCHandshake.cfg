SPECIFICATION Spec
CONSTANTS
  sm2 = sm2
  sm2dhe = sm2dhe
  NoSuite = NoSuite
  Suites <- MCSuites
  MutualSuites <- MCMutualSuites
  ClientConfigs <- MCClients
  ServerConfigs <- MCServers
  MaxConns <- MCMaxConns
  MaxTicketKeys <- MCMaxTicketKeys
  ConnectionsBreak = TRUE
INVARIANTS
  TypeOK
  NoUnexpectedMessage
  CompatibleNeverFails
  ServerAuthenticated
  BufferKeptForCertVerify
  KeysInStep
  Agreement
  OnlyTicketsRefused
  ResumableSessionsMatch
  ClientAuthenticated
PROPERTY
  EveryHandshakeSettles
