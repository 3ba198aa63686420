\* Two publishers of two events each and two subscribers, with buffers of one and
\* of two events; and two goroutines that change the status three times under
\* static.lock, with two streams.
CONSTANTS
  Publisher = {w1, w2}
  c1 = c1
  c2 = c2
  Chan <- MCChan
  Cap <- MCCap
  MaxEvents = 2
  Locked = TRUE
  MaxVersion = 3
SPECIFICATION MCSpec
CHECK_DEADLOCK FALSE
INVARIANTS
  BInv
  NeverOlderThanStream
PROPERTIES
  EveryChannelCloses
  EachIsLossyChannel
  LastStatusArrives
