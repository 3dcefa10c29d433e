SPECIFICATION FairSpec
CONSTANTS
  Length <- MCLength
  MaxLength = 4
  MaxFaults = 2
INVARIANTS
  TypeOK
  GarbageNeedsFault
PROPERTIES
  StaysInStep
  EndToEnd
  Resyncs
CHECK_DEADLOCK FALSE
