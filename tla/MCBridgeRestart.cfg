\* Restarts keep the enrichment budget and strand one row of either queue each; signals
\* and errors, of one worker or of both, end a process.
SPECIFICATION FairBridge
CONSTANTS
  q1 = q1  c1 = c1  c2 = c2  r1 = r1  r2 = r2  r3 = r3  u1 = u1  u2 = u2
  NoQid = NoQid  NoPage = NoPage
  Notification <- OneLinked
  Url = {u1}
  Page = {p1}
  WeComMaxAttempts = 1
  EnrichmentMaxAttempts = 2
  BrowserEnabled = TRUE
  MaxFrames = 1
  MaxFaults = 2
  ReceiverMode = "go-fallback"
  MaxRestarts = 1
INVARIANTS
  BridgeTypeOK
  EnrichmentBudget
  OneStrandedPerLife
PROPERTIES
  SignalOrErrorStopsProcess
\* A process that is down for good, or idle with its frames used up, waits.
CHECK_DEADLOCK FALSE
