\* Two callers and a pinger, two side boxes, one change of the profile's file.
CONSTANTS
  Caller = {c1, c2}
  Pinger = {q1}
  Box = {b1, b2}
  Profile = {p1}
  MaxTries = 2
  MaxVersion = 1
  MaxFired = 1
  None = None
SPECIFICATION Spec
CHECK_DEADLOCK FALSE
INVARIANTS
  EInv
  NoProbeOnClosedBox
  AnswerIsFresh
PROPERTY IdleBoxesClose
