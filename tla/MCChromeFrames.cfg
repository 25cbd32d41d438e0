\* Which frames are forwarded, what makes the receiver ready, and when it ends.
SPECIFICATION FairSpec
CONSTANTS
  w1 = w1  w2 = w2  o1 = o1
  WxSocket = {w1, w2}
  OtherSocket = {o1}
  MaxEvents = 3
  MaxWorkers = 1
INVARIANTS
  TypeOK
  EveryMessageIsForwarded
  ReadyIsObserved
PROPERTIES
  ImplementsReceiver
\* A receiver that has returned, or whose Chrome is gone, does nothing more.
CHECK_DEADLOCK FALSE
