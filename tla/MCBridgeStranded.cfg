\* A delivery row left running by a crash is never claimed again.
SPECIFICATION FairBridge
CONSTANTS
  q1 = q1  c1 = c1  c2 = c2  r1 = r1  r2 = r2  r3 = r3  u1 = u1  u2 = u2
  NoQid = NoQid  NoPage = NoPage
  Notification <- Plain
  Url = {u1}
  Page = {p1}
  WeComMaxAttempts = 2
  EnrichmentMaxAttempts = 2
  BrowserEnabled = FALSE
  MaxFrames = 1
  MaxFaults = 0
  ReceiverMode = "chrome-cdp"
  MaxRestarts = 1
PROPERTIES
  RestartKeepsDeliveries
\* A process that is down for good, or idle with its frames used up, waits.
CHECK_DEADLOCK FALSE
