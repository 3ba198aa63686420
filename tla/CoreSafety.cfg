\* Every failure, every panic and every unlocked path: two goroutines, and two
\* boxes, so that a second one can be started over a first.
CONSTANTS
  Proc = {p1, p2}
  Box = {b1, b2}
  Mode = {m1, m2}
  NoProc = NoProc
  NoBox = NoBox
  IsAndroid = TRUE
  Unlimited = {TRUE, FALSE}
  Faults <- EveryFault
SPECIFICATION SafetySpec
INVARIANTS
  IInv
  OneReachableBox
  StaticTellsTruth
