\* A click on a profile of a session of two profiles.
SPECIFICATION Spec
CONSTANTS
  Ids <- MCIds
  Actors <- MCActors
  Pids <- MCPids
  Looks <- MCLooks
  Requests <- MCRequests
  Stores <- MCStores
  MaxCalls = 2
  MaxMishaps = 1
  QueueSize = 3
INVARIANTS
  ClickedProfileRuns
CHECK_DEADLOCK FALSE
