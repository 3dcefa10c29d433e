SPECIFICATION Spec
CONSTANTS
  Props <- DebugProps
  Lights <- TailgateLight
  Brightness = {}
  Powers = {}
  Boot <- DebugBoot
  Bus <- DebugBus
  Debug <- ButtonDebug
  Debuggers = {go1, go2, go3}
  UserWindow = 2
  DebugWindow = 1
  Propagation = 0
SYMMETRY DebuggersAlike
INVARIANT WindowHonoured
