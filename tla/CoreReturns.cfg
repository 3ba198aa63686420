\* Every failure, every panic and every unlocked path, under fairness: what the
\* clients are promised, and that every operation returns.
CONSTANTS
  Proc = {p1, p2}
  Box = {b1}
  Mode = {m1}
  NoProc = NoProc
  NoBox = NoBox
  IsAndroid = TRUE
  Unlimited = {FALSE}
  Faults <- EveryFault
SPECIFICATION Spec
PROPERTIES
  ImplementsLifecycle
  OperationsReturn
  SpinnerStops
