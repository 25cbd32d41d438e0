\* Chrome stops without an event, and nothing is recorded.
SPECIFICATION FairSpec
CONSTANTS
  w1 = w1  w2 = w2  o1 = o1
  WxSocket = {w1}
  OtherSocket = {o1}
  MaxEvents = 3
  MaxWorkers = 2
PROPERTIES
  ChromeStopIsRecorded
\* A receiver that has returned, or whose Chrome is gone, does nothing more.
CHECK_DEADLOCK FALSE
