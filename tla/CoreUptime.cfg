\* Session calls that find no target, and nothing else that fails.
CONSTANTS
  Proc = {p1, p2}
  Box = {b1, b2}
  Mode = {m1}
  NoProc = NoProc
  NoBox = NoBox
  IsAndroid = FALSE
  Unlimited = {FALSE}
  Faults <- NoTarget
SPECIFICATION SafetySpec
INVARIANT UptimeWhileTunnelRuns
