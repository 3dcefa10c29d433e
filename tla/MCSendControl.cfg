SPECIFICATION FairSpec
CONSTANTS
  Senders <- MCSenders
  Table <- MCTable
  IterationCap = 3
INVARIANTS
  TypeOK
  CommandKept
  OneOffOnce
  StopBound
  SlaveSilent
PROPERTIES
  StopHalts
  HandshakeCompletes
  ImplementsRegister
