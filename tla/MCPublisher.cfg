SPECIFICATION FairSpec
CONSTANTS
  Boot <- MCBoot
  Bus <- MCBus
  Debug <- MCDebug
  Debuggers = {go1}
  MaxTasks = 3
  OutboxLength = 2
INVARIANTS
  TypeOK
  BrokerCurrent
PROPERTY Settles
