------------------------- MODULE ProxyStreamProofs --------------------------
(***************************************************************************)
(* No wake-up of a proxy stream is lost, for every number of boxes, streams *)
(* and results, and every buffer of at least one event.                     *)
(***************************************************************************)
EXTENDS ProxyStream, TLAPS

(* PSInv without NoLostWakeup: what a stream holds before it subscribes.    *)
Shape ==
  /\ \A b \in Service : relay[b] = "over" => b \in ended
  /\ \A s \in Stream : spc[s] \in {"idle", "fresh", "load"} => source[s] = NoService
  /\ \A s \in Stream : spc[s] \in {"idle", "fresh", "load", "send", "subscribe"} =>
       queue[s] = 0 /\ ~timer[s] /\ seen[s] = 0
  /\ \A s \in Stream : source[s] # NoService =>
       sent[s] <= version[source[s]] /\ seen[s] <= version[source[s]]
  /\ \A s \in Stream : source[s] = NoService =>
       queue[s] = 0 /\ ~timer[s] /\ sent[s] = 0 /\ seen[s] = 0

LEMMA PSInvParts == PSInv <=> StreamTypeOK /\ Shape /\ NoLostWakeup
  BY DEF PSInv, Shape

LEMMA PSInit == StreamInit => PSInv
  BY ProxyStreamAssumption DEF StreamInit, PSInv, StreamTypeOK, NoLostWakeup, Behind

LEMMA StepStoreService ==
  ASSUME StreamTypeOK, Shape, NoLostWakeup, NEW b \in Service, StoreService(b)
  PROVE  StreamTypeOK' /\ Shape' /\ NoLostWakeup'
  <1>1. StreamTypeOK'
    BY ProxyStreamAssumption DEF StoreService, boxes, events, streams, StreamTypeOK
  <1>2. Shape'
    BY ProxyStreamAssumption DEF StoreService, boxes, events, streams, StreamTypeOK, Shape
  <1>3. NoLostWakeup'
    BY ProxyStreamAssumption
      DEF StoreService, boxes, events, streams, StreamTypeOK, Shape, NoLostWakeup, Behind, OnItsWay
  <1> QED BY <1>1, <1>2, <1>3

LEMMA StepStoreResult ==
  ASSUME StreamTypeOK, Shape, NoLostWakeup, NEW b \in Service, StoreResult(b)
  PROVE  StreamTypeOK' /\ Shape' /\ NoLostWakeup'
  <1>1. StreamTypeOK'
    BY ProxyStreamAssumption DEF StoreResult, boxes, events, streams, StreamTypeOK
  <1>2. Shape'
    BY ProxyStreamAssumption DEF StoreResult, boxes, events, streams, StreamTypeOK, Shape
  <1>3. NoLostWakeup'
    BY ProxyStreamAssumption
      DEF StoreResult, boxes, events, streams, StreamTypeOK, Shape, NoLostWakeup, Behind, OnItsWay
  <1> QED BY <1>1, <1>2, <1>3

LEMMA StepEmitHook ==
  ASSUME StreamTypeOK, Shape, NoLostWakeup, NEW b \in Service, EmitHook(b)
  PROVE  StreamTypeOK' /\ Shape' /\ NoLostWakeup'
  <1>1. StreamTypeOK'
    BY ProxyStreamAssumption DEF EmitHook, boxes, events, streams, StreamTypeOK
  <1>2. Shape'
    BY ProxyStreamAssumption DEF EmitHook, boxes, events, streams, StreamTypeOK, Shape
  <1>3. NoLostWakeup'
    BY ProxyStreamAssumption
      DEF EmitHook, boxes, events, streams, StreamTypeOK, Shape, NoLostWakeup, Behind, OnItsWay
  <1> QED BY <1>1, <1>2, <1>3

LEMMA StepRelayReceives ==
  ASSUME StreamTypeOK, Shape, NoLostWakeup, NEW b \in Service, RelayReceives(b)
  PROVE  StreamTypeOK' /\ Shape' /\ NoLostWakeup'
  <1>1. StreamTypeOK'
    BY ProxyStreamAssumption DEF RelayReceives, boxes, events, streams, StreamTypeOK
  <1>2. Shape'
    BY ProxyStreamAssumption DEF RelayReceives, boxes, events, streams, StreamTypeOK, Shape
  <1>3. NoLostWakeup'
    BY ProxyStreamAssumption
      DEF RelayReceives, boxes, events, streams, StreamTypeOK, Shape, NoLostWakeup, Behind, OnItsWay
  <1> QED BY <1>1, <1>2, <1>3

LEMMA StepRelayPublishes ==
  ASSUME StreamTypeOK, Shape, NoLostWakeup, NEW b \in Service, RelayPublishes(b)
  PROVE  StreamTypeOK' /\ Shape' /\ NoLostWakeup'
  <1>1. StreamTypeOK'
    BY ProxyStreamAssumption DEF RelayPublishes, Room, Subscribed, boxes, events, streams, StreamTypeOK
  <1>2. Shape'
    BY ProxyStreamAssumption DEF RelayPublishes, Room, Subscribed, boxes, events, streams, StreamTypeOK,
        Shape
  <1>3. NoLostWakeup'
    BY ProxyStreamAssumption
      DEF RelayPublishes, Room, Subscribed, boxes, events, streams, StreamTypeOK,
          Shape, NoLostWakeup, Behind, OnItsWay
  <1> QED BY <1>1, <1>2, <1>3

LEMMA StepRelayEnds ==
  ASSUME StreamTypeOK, Shape, NoLostWakeup, NEW b \in Service, RelayEnds(b)
  PROVE  StreamTypeOK' /\ Shape' /\ NoLostWakeup'
  <1>1. StreamTypeOK'
    BY ProxyStreamAssumption DEF RelayEnds, boxes, events, streams, StreamTypeOK
  <1>2. Shape'
    BY ProxyStreamAssumption DEF RelayEnds, boxes, events, streams, StreamTypeOK, Shape
  <1>3. NoLostWakeup'
    BY ProxyStreamAssumption
      DEF RelayEnds, boxes, events, streams, StreamTypeOK, Shape, NoLostWakeup, Behind, OnItsWay
  <1> QED BY <1>1, <1>2, <1>3

LEMMA StepActivate ==
  ASSUME StreamTypeOK, Shape, NoLostWakeup, Activate
  PROVE  StreamTypeOK' /\ Shape' /\ NoLostWakeup'
  <1>1. StreamTypeOK'
    BY ProxyStreamAssumption DEF Activate, boxes, events, streams, StreamTypeOK
  <1>2. Shape'
    BY ProxyStreamAssumption DEF Activate, boxes, events, streams, StreamTypeOK, Shape
  <1>3. NoLostWakeup'
    BY ProxyStreamAssumption
      DEF Activate, boxes, events, streams, StreamTypeOK, Shape, NoLostWakeup, Behind, OnItsWay
  <1> QED BY <1>1, <1>2, <1>3

LEMMA StepDeactivate ==
  ASSUME StreamTypeOK, Shape, NoLostWakeup, Deactivate
  PROVE  StreamTypeOK' /\ Shape' /\ NoLostWakeup'
  <1>1. StreamTypeOK'
    BY ProxyStreamAssumption DEF Deactivate, boxes, events, streams, StreamTypeOK
  <1>2. Shape'
    BY ProxyStreamAssumption DEF Deactivate, boxes, events, streams, StreamTypeOK, Shape
  <1>3. NoLostWakeup'
    BY ProxyStreamAssumption
      DEF Deactivate, boxes, events, streams, StreamTypeOK, Shape, NoLostWakeup, Behind, OnItsWay
  <1> QED BY <1>1, <1>2, <1>3

LEMMA StepCloseService ==
  ASSUME StreamTypeOK, Shape, NoLostWakeup, CloseService
  PROVE  StreamTypeOK' /\ Shape' /\ NoLostWakeup'
  <1>1. StreamTypeOK'
    BY ProxyStreamAssumption DEF CloseService, boxes, events, streams, StreamTypeOK
  <1>2. Shape'
    BY ProxyStreamAssumption DEF CloseService, boxes, events, streams, StreamTypeOK, Shape
  <1>3. NoLostWakeup'
    BY ProxyStreamAssumption
      DEF CloseService, boxes, events, streams, StreamTypeOK, Shape, NoLostWakeup, Behind, OnItsWay
  <1> QED BY <1>1, <1>2, <1>3

LEMMA StepClearService ==
  ASSUME StreamTypeOK, Shape, NoLostWakeup, ClearService
  PROVE  StreamTypeOK' /\ Shape' /\ NoLostWakeup'
  <1>1. StreamTypeOK'
    BY ProxyStreamAssumption DEF ClearService, boxes, events, streams, StreamTypeOK
  <1>2. Shape'
    BY ProxyStreamAssumption DEF ClearService, boxes, events, streams, StreamTypeOK, Shape
  <1>3. NoLostWakeup'
    BY ProxyStreamAssumption
      DEF ClearService, boxes, events, streams, StreamTypeOK, Shape, NoLostWakeup, Behind, OnItsWay
  <1> QED BY <1>1, <1>2, <1>3

LEMMA StepOpen ==
  ASSUME StreamTypeOK, Shape, NoLostWakeup, NEW s \in Stream, Open(s)
  PROVE  StreamTypeOK' /\ Shape' /\ NoLostWakeup'
  <1>1. StreamTypeOK'
    BY ProxyStreamAssumption DEF Open, boxes, events, streams, StreamTypeOK
  <1>2. Shape'
    BY ProxyStreamAssumption DEF Open, boxes, events, streams, StreamTypeOK, Shape
  <1>3. NoLostWakeup'
    BY ProxyStreamAssumption
      DEF Open, boxes, events, streams, StreamTypeOK, Shape, NoLostWakeup, Behind, OnItsWay
  <1> QED BY <1>1, <1>2, <1>3

LEMMA StepContextAwaited ==
  ASSUME StreamTypeOK, Shape, NoLostWakeup, NEW s \in Stream, ContextAwaited(s)
  PROVE  StreamTypeOK' /\ Shape' /\ NoLostWakeup'
  <1>1. StreamTypeOK'
    BY ProxyStreamAssumption DEF ContextAwaited, boxes, events, streams, StreamTypeOK
  <1>2. Shape'
    BY ProxyStreamAssumption DEF ContextAwaited, boxes, events, streams, StreamTypeOK, Shape
  <1>3. NoLostWakeup'
    BY ProxyStreamAssumption
      DEF ContextAwaited, boxes, events, streams, StreamTypeOK,
          Shape, NoLostWakeup, Behind, OnItsWay
  <1> QED BY <1>1, <1>2, <1>3

LEMMA StepLoadMonitor ==
  ASSUME StreamTypeOK, Shape, NoLostWakeup, NEW s \in Stream, LoadMonitor(s)
  PROVE  StreamTypeOK' /\ Shape' /\ NoLostWakeup'
  <1>1. StreamTypeOK'
    BY ProxyStreamAssumption DEF LoadMonitor, boxes, events, streams, StreamTypeOK
  <1>2. Shape'
    BY ProxyStreamAssumption DEF LoadMonitor, boxes, events, streams, StreamTypeOK, Shape
  <1>3. NoLostWakeup'
    BY ProxyStreamAssumption
      DEF LoadMonitor, boxes, events, streams, StreamTypeOK, Shape, NoLostWakeup, Behind, OnItsWay
  <1> QED BY <1>1, <1>2, <1>3

LEMMA StepSendFirst ==
  ASSUME StreamTypeOK, Shape, NoLostWakeup, NEW s \in Stream, SendFirst(s)
  PROVE  StreamTypeOK' /\ Shape' /\ NoLostWakeup'
  <1>1. StreamTypeOK'
    BY ProxyStreamAssumption DEF SendFirst, Stored, boxes, events, streams, StreamTypeOK
  <1>2. Shape'
    BY ProxyStreamAssumption DEF SendFirst, Stored, boxes, events, streams, StreamTypeOK, Shape
  <1>3. NoLostWakeup'
    BY ProxyStreamAssumption
      DEF SendFirst, Stored, boxes, events, streams, StreamTypeOK,
          Shape, NoLostWakeup, Behind, OnItsWay
  <1> QED BY <1>1, <1>2, <1>3

LEMMA StepSubscribeGroup ==
  ASSUME StreamTypeOK, Shape, NoLostWakeup, NEW s \in Stream, SubscribeGroup(s)
  PROVE  StreamTypeOK' /\ Shape' /\ NoLostWakeup'
  <1>1. StreamTypeOK'
    BY ProxyStreamAssumption DEF SubscribeGroup, Stored, boxes, events, streams, StreamTypeOK
  <1>2. Shape'
    BY ProxyStreamAssumption DEF SubscribeGroup, Stored, boxes, events, streams, StreamTypeOK, Shape
  <1>3. NoLostWakeup'
    BY ProxyStreamAssumption
      DEF SubscribeGroup, Stored, boxes, events, streams, StreamTypeOK,
          Shape, NoLostWakeup, Behind, OnItsWay
  <1> QED BY <1>1, <1>2, <1>3

LEMMA StepReceive ==
  ASSUME StreamTypeOK, Shape, NoLostWakeup, NEW s \in Stream, Receive(s)
  PROVE  StreamTypeOK' /\ Shape' /\ NoLostWakeup'
  <1>1. StreamTypeOK'
    BY ProxyStreamAssumption DEF Receive, boxes, events, streams, StreamTypeOK
  <1>2. Shape'
    BY ProxyStreamAssumption DEF Receive, boxes, events, streams, StreamTypeOK, Shape
  <1>3. NoLostWakeup'
    BY ProxyStreamAssumption
      DEF Receive, boxes, events, streams, StreamTypeOK, Shape, NoLostWakeup, Behind, OnItsWay
  <1> QED BY <1>1, <1>2, <1>3

LEMMA StepFlush ==
  ASSUME StreamTypeOK, Shape, NoLostWakeup, NEW s \in Stream, Flush(s)
  PROVE  StreamTypeOK' /\ Shape' /\ NoLostWakeup'
  <1>1. StreamTypeOK'
    BY ProxyStreamAssumption DEF Flush, Stored, boxes, events, streams, StreamTypeOK
  <1>2. Shape'
    BY ProxyStreamAssumption DEF Flush, Stored, boxes, events, streams, StreamTypeOK, Shape
  <1>3. NoLostWakeup'
    BY ProxyStreamAssumption
      DEF Flush, Stored, boxes, events, streams, StreamTypeOK, Shape, NoLostWakeup, Behind, OnItsWay
  <1> QED BY <1>1, <1>2, <1>3

LEMMA StepLeave ==
  ASSUME StreamTypeOK, Shape, NoLostWakeup, NEW s \in Stream, LeaveStream(s)
  PROVE  StreamTypeOK' /\ Shape' /\ NoLostWakeup'
  <1>1. StreamTypeOK'
    BY ProxyStreamAssumption DEF LeaveStream, boxes, events, streams, StreamTypeOK
  <1>2. Shape'
    BY ProxyStreamAssumption DEF LeaveStream, boxes, events, streams, StreamTypeOK, Shape
  <1>3. NoLostWakeup'
    BY ProxyStreamAssumption
      DEF LeaveStream, boxes, events, streams, StreamTypeOK, Shape, NoLostWakeup, Behind, OnItsWay
  <1> QED BY <1>1, <1>2, <1>3

(* One case per action of Next.                                             *)
LEMMA PSStep ==
  ASSUME PSInv, [StreamNext]_streamVars PROVE PSInv'
  <1>0. StreamTypeOK /\ Shape /\ NoLostWakeup BY PSInvParts
  <1>1. CASE UNCHANGED streamVars
    BY <1>0, <1>1 DEF PSInv, StreamTypeOK, NoLostWakeup, Behind, OnItsWay, Shape,
                      streamVars, boxes, events, streams
  <1>2. CASE StreamNext
    <2>1. StreamTypeOK' /\ Shape' /\ NoLostWakeup'
      BY <1>0, <1>2,
         StepStoreService, StepStoreResult, StepEmitHook, StepRelayReceives,
         StepRelayPublishes, StepRelayEnds, StepActivate, StepDeactivate,
         StepCloseService, StepClearService, StepOpen, StepContextAwaited,
         StepLoadMonitor, StepSendFirst, StepSubscribeGroup, StepReceive,
         StepFlush, StepLeave
        DEF StreamNext, Relay, Work
    <2> QED BY <2>1 DEF PSInv, Shape
  <1> QED BY <1>1, <1>2

(* The history, the hook, the relay, the broadcaster and the debounce timer *)
(* together never leave a subscribed stream asleep over a stored result.    *)
THEOREM ProxyStreamInvariant == StreamSafetySpec => []PSInv
  <1>1. StreamInit => PSInv BY PSInit
  <1>2. PSInv /\ [StreamNext]_streamVars => PSInv' BY PSStep
  <1> QED BY <1>1, <1>2, PTL DEF StreamSafetySpec
=============================================================================
