\* One process rewrites a table of two rows, and one step of it fails.
SPECIFICATION Spec
CONSTANTS
  Procs = {p}
  Keys = {1, 2}
  Dirs = {1, 2, 3}
  Attempts = 2
  MaxCalls = 2
  MaxCrashes = 0
  MaxFaults = 1
  MaxBloats = 1
CHECK_DEADLOCK FALSE
INVARIANT CallerKeepsADb
