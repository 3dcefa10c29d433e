SPECIFICATION FairSpec
CONSTANTS
  QueueLength = 2
  Senders <- OneSender
  MaxMessages = 2
INVARIANTS
  TypeOK
  OwnedOnce
  Isolation
PROPERTIES
  ForwardsInOrder
  Drains
