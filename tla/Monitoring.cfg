\* Two probers of two URLs and a stop under static.lock, on two boxes in turn;
\* and a stream across a restart of the service, with buffers of one event.
CONSTANTS
  Prober = {q1, q2}
  Closer = {k1}
  Box = {b1, b2}
  Urls = 2
  Samples = 1
  MaxStray = 1
  Locked = TRUE
  None = None
  Service = {v1, v2}
  NoService = NoService
  Stream = {s1}
  HookCap = 1
  QueueCap = 1
  MaxVersion = 2
SPECIFICATION MCSpec
CHECK_DEADLOCK FALSE
INVARIANTS
  PInv
  NoProberOnClosedBox
  PSInv
PROPERTIES
  StopReachesClose
  DelaysArrive
