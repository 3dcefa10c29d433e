SPECIFICATION Spec
CONSTANTS
  TimerQueueLength = 4
  MaxLag = 1
  MaxEvents = 2
INVARIANT NoMqttWithoutWifi
