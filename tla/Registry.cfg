\* Two modes, two platforms, three servers, two callers.
CONSTANTS
  bg = bg
  fg = fg
  Order <- TwoModes
  Platform = {p1, p2}
  Server = {g1, g2, g3}
  Caller = {t1, t2}
  Handler = {h1}
  Handle = {d1}
  ListenFaults = TRUE
  None = None
  Unset = Unset
SYMMETRY Symmetric
SPECIFICATION SafetySpec
CHECK_DEADLOCK FALSE
INVARIANTS
  GInv
  ServingIsRegistered
  BackgroundWins
