SPECIFICATION FairSpec
CONSTANTS
  TimerQueueLength = 4
  MaxLag = 1
  MaxEvents = 2
INVARIANTS
  TypeOK
  RetryPending
  CommandsHeard
  TimersReady
PROPERTY ComesBack
