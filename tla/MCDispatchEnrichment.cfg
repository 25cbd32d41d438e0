\* Both workers beside each other: one notification, two failing store calls.
SPECIFICATION FairSpec
CONSTANTS
  q1 = q1  c1 = c1  r1 = r1  u1 = u1
  NoQid = NoQid  NoPage = NoPage
  Notification <- OneLinked
  Url = {u1}
  Page = {p1, p2}
  WeComMaxAttempts = 2
  EnrichmentMaxAttempts = 2
  BrowserEnabled = TRUE
  MaxFrames = 1
  MaxFaults = 2
INVARIANTS
  TypeOK
  EnrichedIsRecorded
  EnrichmentDoneIsQueued
  RunningIsHeld
PROPERTIES
  DeliveriesSettle
  EnrichmentsSettle
\* Once the frames are used up and every row is settled, the service only waits.
CHECK_DEADLOCK FALSE
