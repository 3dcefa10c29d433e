SPECIFICATION Spec
CONSTANTS
  Recorders = {"twai_rx", "uart_rx"}
  Messages <- MCMessages
  Size <- MCSize
  SizeRange = 64
  BufSize = 7
  ClockRange = 64
  Durations = {1, 2}
  Horizon = 5
INVARIANT ResetsOnFull
