SPECIFICATION Spec
CONSTANTS
  Senders <- MCSenders
  Table <- MCTable
  IterationCap = 3
INVARIANT ToggleNeverFails
