SPECIFICATION Spec
CONSTANTS
  Props <- AllProps
  Lights <- KitchenLight
  Brightness = {30}
  Powers = {1, 7}
  Boot <- UserBoot
  Bus <- UserBus
  Debug <- NoDebug
  Debuggers <- NoDebuggers
  UserWindow = 4
  DebugWindow = 3
  Propagation = 2
INVARIANT ChangesNotified
