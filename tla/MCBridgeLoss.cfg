\* Repeated notifications, failing store calls and restarts: what a delivery keeps, and
\* how much each end of a process can strand or lose.
SPECIFICATION BridgeSpec
CONSTANTS
  q1 = q1  c1 = c1  c2 = c2  r1 = r1  r2 = r2  r3 = r3  u1 = u1  u2 = u2
  NoQid = NoQid  NoPage = NoPage
  Notification <- Repeated
  Url = {u1, u2}
  Page = {p1}
  WeComMaxAttempts = 2
  EnrichmentMaxAttempts = 2
  BrowserEnabled = FALSE
  MaxFrames = 2
  MaxFaults = 1
  ReceiverMode = "chrome-cdp"
  MaxRestarts = 1
INVARIANTS
  DoneWasAccepted
  DeliveryBudget
  OneOriginalPerQid
  UnfinishedBounded
PROPERTIES
  SettledIsFinal
  ImplementsOutbox
\* A process that is down for good, or idle with its frames used up, waits.
CHECK_DEADLOCK FALSE
