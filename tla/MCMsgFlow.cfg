SPECIFICATION Spec
CONSTANTS
  HeaderUnits = 2
  BodyUnits = 2
  BufferUnits = 6
  SocketUnits = 2
  Kinds = {"full", "mutual", "resumed"}
INVARIANTS
  TypeOK
  EachStepOnce
  DigestsAgree
  StreamFits
  FlushedBeforeWaiting
PROPERTY
  ImplementsTurns
