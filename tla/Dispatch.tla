------------------------------- MODULE Dispatch -------------------------------
(***************************************************************************)
(* The dispatch service (internal/dispatch/dispatch.go) over the store:    *)
(* the goroutine that hands notifications to HandleMessage, the delivery   *)
(* worker, which posts queued rows to the WeCom robot, and the enrichment  *)
(* worker, which opens a message's links in a browser and queues one more  *)
(* row per link.  The three share only the tables, one statement at a      *)
(* time; each statement is one step here, and so is each request to the    *)
(* robot or the browser.                                                   *)
(*                                                                         *)
(* Two clocks bound a store call.  HandleMessage and the two claims use    *)
(* the run's context (ctxDone when it is cancelled); every update of a     *)
(* task's status uses a context of its own with a 5 s timeout, which a     *)
(* cancellation does not reach.  Only such an update can therefore fail    *)
(* for a deadline.  A call that fails may or may not have changed the      *)
(* table: the error can follow the commit.                                 *)
(***************************************************************************)
EXTENDS Store

CONSTANTS
  WeComMaxAttempts,       \* retry.wecom_max_attempts
  EnrichmentMaxAttempts,  \* retry.enrichment_max_attempts
  BrowserEnabled,         \* browser.enabled: is there an enrichment worker?
  NoPage,                 \* no fetch result
  MaxFrames,              \* bound: notifications received
  MaxFaults               \* bound: store calls that fail

\* config.Validate refuses a maximum below 1.
ASSUME AttemptsAssumption ==
  /\ WeComMaxAttempts \in Nat \ {0}
  /\ EnrichmentMaxAttempts \in Nat \ {0}

ASSUME BoundsAssumption ==
  /\ BrowserEnabled \in BOOLEAN
  /\ MaxFrames \in Nat
  /\ MaxFaults \in Nat
  /\ NoPage \notin Page

VARIABLES
  messages, deliveries, enrichmentTasks, enrichments,  \* the database
  handler,           \* the goroutine inside HandleMessage
  deliveryWorker,    \* RunDeliveryWorker
  enrichmentWorker,  \* RunEnrichmentWorker
  ctxDone,           \* the run's context is cancelled
  requests,          \* history: requests sent to the robot, per delivery row
  accepted,          \* history: the delivery rows the robot accepted
  fetches,           \* history: browser fetches, per enrichment task
  frames, faults     \* counters of the bounds

tables == <<messages, deliveries, enrichmentTasks, enrichments>>
outside == <<requests, accepted, fetches>>
vars == <<tables, handler, deliveryWorker, enrichmentWorker, ctxDone, outside,
          frames, faults>>

-----------------------------------------------------------------------------
(* Control states *)

StoreError == {"deadline", "error"}
Err == {"none", "canceled"} \cup StoreError

HandlerIdle == [pc |-> "idle", msg |-> 0, left |-> <<>>]
DeliveryIdle == [pc |-> "poll", row |-> 0, attempts |-> 0, err |-> "none"]
EnrichmentIdle == [pc |-> IF BrowserEnabled THEN "poll" ELSE "off", row |-> 0,
                   attempts |-> 0, page |-> NoPage, err |-> "none"]

\* A worker whose Run function has returned err.
Returned(worker, err) == [worker EXCEPT !.pc = "returned", !.err = err]

DeliveryBusy == {"claimed", "sending", "sent", "refused"}
EnrichmentBusy == {"claimed", "fetching", "fetched", "saved", "queued", "failing"}

Handler == [pc : {"idle", "original", "links"}, msg : Nat, left : Seq(Url)]
DeliveryWorker == [pc : DeliveryBusy \cup {"poll", "returned"},
                   row : Nat, attempts : Nat, err : Err]
EnrichmentWorker == [pc : EnrichmentBusy \cup {"poll", "off", "returned"},
                     row : Nat, attempts : Nat, page : Page \cup {NoPage},
                     err : Err]

Count(history, i) == IF i \in DOMAIN history THEN history[i] ELSE 0
OneMore(history, i) ==
  [j \in DOMAIN history \cup {i} |-> Count(history, j) + (IF j = i THEN 1 ELSE 0)]

\* A store call fails.  Which of table and its successor is left behind is the
\* caller's choice to make.
StoreFails == faults < MaxFaults /\ faults' = faults + 1

Init ==
  /\ messages = <<>>
  /\ deliveries = <<>>
  /\ enrichmentTasks = <<>>
  /\ enrichments = <<>>
  /\ handler = HandlerIdle
  /\ deliveryWorker = DeliveryIdle
  /\ enrichmentWorker = EnrichmentIdle
  /\ ctxDone = FALSE
  /\ requests = <<>>
  /\ accepted = {}
  /\ fetches = <<>>
  /\ frames = 0
  /\ faults = 0

-----------------------------------------------------------------------------
(* HandleMessage.  An error makes it return: what it has stored so far stays. *)

\* A notification arrives and is stored.  A duplicate returns at once.
ReceiveNotification(n) ==
  /\ handler.pc = "idle"
  /\ frames < MaxFrames
  /\ frames' = frames + 1
  /\ \/ /\ ctxDone
        /\ UNCHANGED <<messages, handler, faults>>
     \/ /\ ~ctxDone
        /\ messages' = SaveMessage(messages, n)
        /\ handler' = IF IsDuplicate(messages, n) THEN HandlerIdle
                      ELSE [pc |-> "original", msg |-> Len(messages'), left |-> n.urls]
        /\ UNCHANGED faults
     \/ /\ StoreFails
        /\ messages' \in {messages, SaveMessage(messages, n)}
        /\ UNCHANGED handler
  /\ UNCHANGED <<deliveries, enrichmentTasks, enrichments, deliveryWorker,
                 enrichmentWorker, ctxDone, outside>>

\* The loop over ExtractURLs, once the links in left remain.
AtLinks(left) ==
  IF left = <<>> THEN HandlerIdle ELSE [handler EXCEPT !.pc = "links", !.left = left]

\* The message's own row is queued.
EnqueueOriginal ==
  LET queued == EnqueueDelivery(deliveries, handler.msg, "original",
                                OriginalPayload(messages[handler.msg]))
  IN  /\ handler.pc = "original"
      /\ \/ /\ ctxDone
            /\ handler' = HandlerIdle
            /\ UNCHANGED <<deliveries, faults>>
         \/ /\ ~ctxDone
            /\ deliveries' = queued
            /\ handler' = AtLinks(handler.left)
            /\ UNCHANGED faults
         \/ /\ StoreFails
            /\ deliveries' \in {deliveries, queued}
            /\ handler' = HandlerIdle
      /\ UNCHANGED <<messages, enrichmentTasks, enrichments, deliveryWorker,
                     enrichmentWorker, ctxDone, outside, frames>>

\* One link's enrichment task is queued, whether or not a worker will run it.
EnqueueLink ==
  LET queued == EnqueueEnrichment(enrichmentTasks, handler.msg, Head(handler.left))
  IN  /\ handler.pc = "links"
      /\ \/ /\ ctxDone
            /\ handler' = HandlerIdle
            /\ UNCHANGED <<enrichmentTasks, faults>>
         \/ /\ ~ctxDone
            /\ enrichmentTasks' = queued
            /\ handler' = AtLinks(Tail(handler.left))
            /\ UNCHANGED faults
         \/ /\ StoreFails
            /\ enrichmentTasks' \in {enrichmentTasks, queued}
            /\ handler' = HandlerIdle
      /\ UNCHANGED <<messages, deliveries, enrichments, deliveryWorker,
                     enrichmentWorker, ctxDone, outside, frames>>

HandlerStep == EnqueueOriginal \/ EnqueueLink

-----------------------------------------------------------------------------
(* The delivery worker.  Any store error ends it. *)

\* ctx.Err() at the top of the loop, or ctx.Done() while waiting for the poll.
DeliveryCanceled ==
  /\ deliveryWorker.pc = "poll"
  /\ ctxDone
  /\ deliveryWorker' = Returned(deliveryWorker, "canceled")
  /\ UNCHANGED <<tables, handler, enrichmentWorker, ctxDone, outside, frames, faults>>

ClaimDelivery ==
  /\ deliveryWorker.pc = "poll"
  /\ ~ctxDone
  /\ \/ \E i \in SelectTasks(deliveries) :
          /\ deliveries' = ClaimTask(deliveries, i)
          /\ deliveryWorker' = [deliveryWorker EXCEPT !.pc = "claimed", !.row = i,
                                  !.attempts = deliveries[i].attempts]
          /\ UNCHANGED faults
     \/ /\ StoreFails
        /\ deliveries' \in {deliveries} \cup
                           {ClaimTask(deliveries, i) : i \in SelectTasks(deliveries)}
        /\ deliveryWorker' = Returned(deliveryWorker, "error")
  /\ UNCHANGED <<messages, enrichmentTasks, enrichments, handler, enrichmentWorker,
                 ctxDone, outside, frames>>

\* Mutant: the worker goes on after a failed update.
SettleDelivery_ErrorIgnored(table, after) ==
  /\ deliveryWorker' = after
  /\ \/ deliveries' = table /\ UNCHANGED faults
     \/ StoreFails /\ deliveries' \in {deliveries, table}
  /\ UNCHANGED <<messages, enrichmentTasks, enrichments, handler, enrichmentWorker,
                 ctxDone, outside, frames>>

\* The worker writes what became of its row and goes on to state after; if the
\* write fails it returns that error.
SettleDelivery(table, after) ==
  /\ \/ /\ deliveries' = table
        /\ deliveryWorker' = after
        /\ UNCHANGED faults
     \/ /\ StoreFails
        /\ deliveries' \in {deliveries, table}
        /\ \E e \in StoreError : deliveryWorker' = Returned(deliveryWorker, e)
  /\ UNCHANGED <<messages, enrichmentTasks, enrichments, handler, enrichmentWorker,
                 ctxDone, outside, frames>>

\* Mutant: the row is not given back.
ReleaseDelivery_Dropped ==
  /\ deliveryWorker.pc = "claimed"
  /\ ctxDone
  /\ SettleDelivery(deliveries, Returned(deliveryWorker, "canceled"))

\* Cancelled between the claim and the request: the row goes back, due at once
\* and with the attempts it had, and the worker returns ctx.Err().
ReleaseDelivery ==
  /\ deliveryWorker.pc = "claimed"
  /\ ctxDone
  /\ SettleDelivery(MarkRetry(deliveries, deliveryWorker.row,
                              deliveryWorker.attempts, "past"),
                    Returned(deliveryWorker, "canceled"))

StartSend ==
  /\ deliveryWorker.pc = "claimed"
  /\ ~ctxDone
  /\ deliveryWorker' = [deliveryWorker EXCEPT !.pc = "sending"]
  /\ requests' = OneMore(requests, deliveryWorker.row)
  /\ UNCHANGED <<tables, handler, enrichmentWorker, ctxDone, accepted, fetches,
                 frames, faults>>

\* Mutant: any answer counts as success (errcode is not looked at).
SendReturns_AnyAnswer ==
  /\ deliveryWorker.pc = "sending"
  /\ accepted' \in {accepted, accepted \cup {deliveryWorker.row}}
  /\ deliveryWorker' = [deliveryWorker EXCEPT !.pc = "sent"]
  /\ UNCHANGED <<tables, handler, enrichmentWorker, ctxDone, requests, fetches,
                 frames, faults>>

\* SendMarkdown returns.  nil means the robot answered errcode 0; an error
\* (timeout, cancellation, broken answer) does not mean that it did not post.
SendReturns ==
  /\ deliveryWorker.pc = "sending"
  /\ \/ /\ accepted' = accepted \cup {deliveryWorker.row}
        /\ deliveryWorker' = [deliveryWorker EXCEPT !.pc = "sent"]
     \/ /\ accepted' \in {accepted, accepted \cup {deliveryWorker.row}}
        /\ deliveryWorker' = [deliveryWorker EXCEPT !.pc = "refused"]
  /\ UNCHANGED <<tables, handler, enrichmentWorker, ctxDone, requests, fetches,
                 frames, faults>>

\* Mutant: a failed update is retried as if the request had failed.
MarkDeliveryDone_Retried ==
  /\ deliveryWorker.pc = "sent"
  /\ \/ SettleDelivery(MarkDone(deliveries, deliveryWorker.row), DeliveryIdle)
     \/ /\ StoreFails
        /\ deliveries' \in {deliveries, MarkDone(deliveries, deliveryWorker.row)}
        /\ deliveryWorker' = [deliveryWorker EXCEPT !.pc = "refused"]
        /\ UNCHANGED <<messages, enrichmentTasks, enrichments, handler,
                       enrichmentWorker, ctxDone, outside, frames>>

MarkDeliveryDone ==
  /\ deliveryWorker.pc = "sent"
  /\ SettleDelivery(MarkDone(deliveries, deliveryWorker.row), DeliveryIdle)

\* Mutant: one attempt too many.
RetryOrFailDelivery_OffByOne ==
  LET nextAttempts == deliveryWorker.attempts + 1
      row == deliveryWorker.row
  IN  /\ deliveryWorker.pc = "refused"
      /\ SettleDelivery(IF nextAttempts > WeComMaxAttempts
                        THEN MarkFailed(deliveries, row)
                        ELSE MarkRetry(deliveries, row, nextAttempts, "future"),
                        DeliveryIdle)

\* nextAttempts >= max fails the row for good; otherwise it waits for a backoff.
RetryOrFailDelivery ==
  LET nextAttempts == deliveryWorker.attempts + 1
      row == deliveryWorker.row
  IN  /\ deliveryWorker.pc = "refused"
      /\ SettleDelivery(IF nextAttempts >= WeComMaxAttempts
                        THEN MarkFailed(deliveries, row)
                        ELSE MarkRetry(deliveries, row, nextAttempts, "future"),
                        DeliveryIdle)

DeliveryStep ==
  \/ DeliveryCanceled \/ ClaimDelivery \/ ReleaseDelivery \/ StartSend
  \/ SendReturns \/ MarkDeliveryDone \/ RetryOrFailDelivery

-----------------------------------------------------------------------------
(* The enrichment worker.  A store error on the way to done counts as a       *)
(* failed attempt; one in the claim or in the failing update ends the worker. *)

EnrichmentCanceled ==
  /\ enrichmentWorker.pc = "poll"
  /\ ctxDone
  /\ enrichmentWorker' = Returned(enrichmentWorker, "canceled")
  /\ UNCHANGED <<tables, handler, deliveryWorker, ctxDone, outside, frames, faults>>

ClaimEnrichment ==
  /\ enrichmentWorker.pc = "poll"
  /\ ~ctxDone
  /\ \/ \E i \in SelectTasks(enrichmentTasks) :
          /\ enrichmentTasks' = ClaimTask(enrichmentTasks, i)
          /\ enrichmentWorker' = [enrichmentWorker EXCEPT !.pc = "claimed", !.row = i,
                                    !.attempts = enrichmentTasks[i].attempts]
          /\ UNCHANGED faults
     \/ /\ StoreFails
        /\ enrichmentTasks' \in {enrichmentTasks} \cup
             {ClaimTask(enrichmentTasks, i) : i \in SelectTasks(enrichmentTasks)}
        /\ enrichmentWorker' = Returned(enrichmentWorker, "error")
  /\ UNCHANGED <<messages, deliveries, enrichments, handler, deliveryWorker,
                 ctxDone, outside, frames>>

\* As SettleDelivery.
SettleEnrichment(table, after) ==
  /\ \/ /\ enrichmentTasks' = table
        /\ enrichmentWorker' = after
        /\ UNCHANGED faults
     \/ /\ StoreFails
        /\ enrichmentTasks' \in {enrichmentTasks, table}
        /\ \E e \in StoreError : enrichmentWorker' = Returned(enrichmentWorker, e)
  /\ UNCHANGED <<messages, deliveries, enrichments, handler, deliveryWorker,
                 ctxDone, outside, frames>>

ReleaseEnrichment ==
  /\ enrichmentWorker.pc = "claimed"
  /\ ctxDone
  /\ SettleEnrichment(MarkRetry(enrichmentTasks, enrichmentWorker.row,
                                enrichmentWorker.attempts, "past"),
                      Returned(enrichmentWorker, "canceled"))

StartFetch ==
  /\ enrichmentWorker.pc = "claimed"
  /\ ~ctxDone
  /\ enrichmentWorker' = [enrichmentWorker EXCEPT !.pc = "fetching"]
  /\ fetches' = OneMore(fetches, enrichmentWorker.row)
  /\ UNCHANGED <<tables, handler, deliveryWorker, ctxDone, requests, accepted,
                 frames, faults>>

\* Mutant: the error is not looked at.
FetchReturns_ErrorIgnored ==
  /\ enrichmentWorker.pc = "fetching"
  /\ \E page \in Page \cup {NoPage} :
       enrichmentWorker' = [enrichmentWorker EXCEPT !.pc = "fetched", !.page = page]
  /\ UNCHANGED <<tables, handler, deliveryWorker, ctxDone, outside, frames, faults>>

\* The browser returns a page, which may differ from an earlier fetch of the
\* same link, or an error.
FetchReturns ==
  /\ enrichmentWorker.pc = "fetching"
  /\ \/ \E page \in Page :
          enrichmentWorker' = [enrichmentWorker EXCEPT !.pc = "fetched", !.page = page]
     \/ enrichmentWorker' = [enrichmentWorker EXCEPT !.pc = "failing"]
  /\ UNCHANGED <<tables, handler, deliveryWorker, ctxDone, outside, frames, faults>>

Failing == [enrichmentWorker EXCEPT !.pc = "failing"]

\* Mutant: the row is queued although the record could not be written.
RecordPage_ErrorIgnored ==
  LET task == enrichmentTasks[enrichmentWorker.row]
      recorded == SaveEnrichment(enrichments, task.msg, task.url, enrichmentWorker.page)
  IN  /\ enrichmentWorker.pc = "fetched"
      /\ enrichmentWorker' = [enrichmentWorker EXCEPT !.pc = "saved"]
      /\ \/ enrichments' = recorded /\ UNCHANGED faults
         \/ StoreFails /\ enrichments' \in {enrichments, recorded}
      /\ UNCHANGED <<messages, deliveries, enrichmentTasks, handler, deliveryWorker,
                     ctxDone, outside, frames>>

\* The enrichments record is written first ...
RecordPage ==
  LET task == enrichmentTasks[enrichmentWorker.row]
      recorded == SaveEnrichment(enrichments, task.msg, task.url, enrichmentWorker.page)
  IN  /\ enrichmentWorker.pc = "fetched"
      /\ \/ /\ enrichments' = recorded
            /\ enrichmentWorker' = [enrichmentWorker EXCEPT !.pc = "saved"]
            /\ UNCHANGED faults
         \/ /\ StoreFails
            /\ enrichments' \in {enrichments, recorded}
            /\ enrichmentWorker' = Failing
      /\ UNCHANGED <<messages, deliveries, enrichmentTasks, handler, deliveryWorker,
                     ctxDone, outside, frames>>

\* ... then the enriched row is queued for the delivery worker ...
EnqueueEnriched ==
  LET task == enrichmentTasks[enrichmentWorker.row]
      queued == EnqueueDelivery(deliveries, task.msg, "enriched",
                                EnrichedPayload(task.url, enrichmentWorker.page))
  IN  /\ enrichmentWorker.pc = "saved"
      /\ \/ /\ deliveries' = queued
            /\ enrichmentWorker' = [enrichmentWorker EXCEPT !.pc = "queued"]
            /\ UNCHANGED faults
         \/ /\ StoreFails
            /\ deliveries' \in {deliveries, queued}
            /\ enrichmentWorker' = Failing
      /\ UNCHANGED <<messages, enrichmentTasks, enrichments, handler, deliveryWorker,
                     ctxDone, outside, frames>>

\* ... and the task is done.  Only here is a failed update an attempt, not the
\* end of the worker.
MarkEnrichmentDone ==
  LET done == MarkDone(enrichmentTasks, enrichmentWorker.row)
  IN  /\ enrichmentWorker.pc = "queued"
      /\ \/ /\ enrichmentTasks' = done
            /\ enrichmentWorker' = EnrichmentIdle
            /\ UNCHANGED faults
         \/ /\ StoreFails
            /\ enrichmentTasks' \in {enrichmentTasks, done}
            /\ enrichmentWorker' = Failing
      /\ UNCHANGED <<messages, deliveries, enrichments, handler, deliveryWorker,
                     ctxDone, outside, frames>>

RetryOrFailEnrichment ==
  LET nextAttempts == enrichmentWorker.attempts + 1
      row == enrichmentWorker.row
  IN  /\ enrichmentWorker.pc = "failing"
      /\ SettleEnrichment(IF nextAttempts >= EnrichmentMaxAttempts
                          THEN MarkFailed(enrichmentTasks, row)
                          ELSE MarkRetry(enrichmentTasks, row, nextAttempts, "future"),
                          EnrichmentIdle)

EnrichmentStep ==
  \/ EnrichmentCanceled \/ ClaimEnrichment \/ ReleaseEnrichment \/ StartFetch
  \/ FetchReturns \/ RecordPage \/ EnqueueEnriched \/ MarkEnrichmentDone
  \/ RetryOrFailEnrichment

-----------------------------------------------------------------------------
(* Around the service *)

Waiting(table) == {i \in DOMAIN table : table[i].status = "pending" /\ table[i].next = "future"}

\* The backoff of a retried row runs out.
DeliveryBackoffElapses ==
  /\ \E i \in Waiting(deliveries) : deliveries' = BecomeDue(deliveries, i)
  /\ UNCHANGED <<messages, enrichmentTasks, enrichments, handler, deliveryWorker,
                 enrichmentWorker, ctxDone, outside, frames, faults>>

EnrichmentBackoffElapses ==
  /\ \E i \in Waiting(enrichmentTasks) :
       enrichmentTasks' = BecomeDue(enrichmentTasks, i)
  /\ UNCHANGED <<messages, deliveries, enrichments, handler, deliveryWorker,
                 enrichmentWorker, ctxDone, outside, frames, faults>>

BackoffElapses == DeliveryBackoffElapses \/ EnrichmentBackoffElapses

\* The run's context is cancelled, at any moment.
Cancel ==
  /\ ~ctxDone
  /\ ctxDone' = TRUE
  /\ UNCHANGED <<tables, handler, deliveryWorker, enrichmentWorker, outside, frames,
                 faults>>

Next ==
  \/ \E n \in Notification : ReceiveNotification(n)
  \/ HandlerStep
  \/ DeliveryStep
  \/ EnrichmentStep
  \/ BackoffElapses
  \/ Cancel

Spec == Init /\ [][Next]_vars

\* The goroutines are scheduled, every call they make returns (the robot has a
\* 15 s timeout, the browser its own, a statement its context), and the clock
\* passes every next_attempt_at.  Nothing makes a notification arrive.
Fairness ==
  /\ WF_vars(HandlerStep)
  /\ WF_vars(DeliveryStep)
  /\ WF_vars(EnrichmentStep)
  /\ WF_vars(DeliveryBackoffElapses)
  /\ WF_vars(EnrichmentBackoffElapses)

FairSpec == Spec /\ Fairness

-----------------------------------------------------------------------------
(* Properties *)

\* Every variable has its type, and a row index is one the table has.
TablesOK ==
  /\ messages \in Seq(Notification)
  /\ deliveries \in Seq(Delivery)
  /\ enrichmentTasks \in Seq(EnrichmentTask)
  /\ DOMAIN enrichments \subseteq Nat \X Url
  /\ \A k \in DOMAIN enrichments : enrichments[k] \in Page

HandlerOK ==
  /\ handler \in Handler
  /\ handler.pc # "idle" => handler.msg \in DOMAIN messages
  /\ handler.pc = "links" => handler.left # <<>>

DeliveryWorkerOK ==
  /\ deliveryWorker \in DeliveryWorker
  /\ deliveryWorker.pc \in DeliveryBusy => deliveryWorker.row \in DOMAIN deliveries

EnrichmentWorkerOK ==
  /\ enrichmentWorker \in EnrichmentWorker
  /\ enrichmentWorker.pc \in EnrichmentBusy =>
       enrichmentWorker.row \in DOMAIN enrichmentTasks
  /\ enrichmentWorker.pc \in {"fetched", "saved", "queued"} =>
       enrichmentWorker.page \in Page

HistoryOK ==
  /\ DOMAIN requests \subseteq DOMAIN deliveries
  /\ \A i \in DOMAIN requests : requests[i] \in Nat
  /\ accepted \subseteq DOMAIN deliveries
  /\ DOMAIN fetches \subseteq DOMAIN enrichmentTasks
  /\ \A i \in DOMAIN fetches : fetches[i] \in Nat

BoundsOK ==
  /\ ctxDone \in BOOLEAN
  /\ frames \in 0 .. MaxFrames
  /\ faults \in 0 .. MaxFaults

TypeOK ==
  TablesOK /\ HandlerOK /\ DeliveryWorkerOK /\ EnrichmentWorkerOK /\ HistoryOK /\ BoundsOK

\* A row is marked done only if the robot accepted it: no error path, late
\* answer or retry ends in MarkDeliveryDone (dispatch.go:195-206).
DoneWasAccepted ==
  \A i \in DOMAIN deliveries : deliveries[i].status = "done" => i \in accepted

\* The attempts column and the requests really sent agree whenever a row waits,
\* so that a row is given up exactly when the budget is spent, and no sequence
\* of cancellations, releases and store errors buys it one request more or less
\* (dispatch.go:174-202, 291-298).
DeliveryBudget ==
  \A i \in DOMAIN deliveries :
    /\ Count(requests, i) <= WeComMaxAttempts
    /\ deliveries[i].status = "pending" => Count(requests, i) = deliveries[i].attempts
    /\ deliveries[i].status = "failed" => Count(requests, i) = WeComMaxAttempts

\* The same of an enrichment task and the browser, where a store error on the
\* way to done also spends an attempt (dispatch.go:242-288, 309-317).
EnrichmentBudget ==
  \A i \in DOMAIN enrichmentTasks :
    /\ Count(fetches, i) <= EnrichmentMaxAttempts
    /\ enrichmentTasks[i].status = "pending" =>
         Count(fetches, i) = enrichmentTasks[i].attempts
    /\ enrichmentTasks[i].status = "failed" => Count(fetches, i) = EnrichmentMaxAttempts

\* However often a notification is delivered to the bridge, with whatever
\* content, its message id is forwarded by one original row at most
\* (sqlite.go:188-218, 455-458 and dispatch.go:82-95).
OneOriginalPerQid ==
  \A i, j \in DOMAIN deliveries :
    /\ deliveries[i].kind = "original"
    /\ deliveries[j].kind = "original"
    /\ messages[deliveries[i].msg].qid = messages[deliveries[j].msg].qid
    /\ messages[deliveries[i].msg].qid # NoQid
    => i = j

\* An enriched row is queued only for a link whose enrichment is on record,
\* whichever of the three statements of the success path failed on the way
\* (dispatch.go:254-282).
EnrichedIsRecorded ==
  \A i \in DOMAIN deliveries :
    deliveries[i].kind = "enriched" =>
      <<deliveries[i].msg, deliveries[i].payload[1]>> \in DOMAIN enrichments

\* A task is done only when the page now on record is the one queued for the
\* robot: after a retry with another page, record and row still agree
\* (dispatch.go:254-287 and sqlite.go:361-371).
EnrichmentDoneIsQueued ==
  \A t \in DOMAIN enrichmentTasks :
    LET link == <<enrichmentTasks[t].msg, enrichmentTasks[t].url>>
    IN  enrichmentTasks[t].status = "done" =>
          /\ link \in DOMAIN enrichments
          /\ \E i \in DOMAIN deliveries :
               /\ deliveries[i].msg = link[1]
               /\ deliveries[i].payload = EnrichedPayload(link[2], enrichments[link])

\* The running rows their worker is not working on.
Stranded(table, worker, busy) ==
  {i \in DOMAIN table : /\ table[i].status = "running"
                        /\ ~(worker.pc \in busy /\ worker.row = i)}

StrandsOnlyByError(table, worker, busy) ==
  \/ Stranded(table, worker, busy) = {}
  \/ /\ worker.pc = "returned"
     /\ worker.err \in StoreError
     /\ \A i, j \in Stranded(table, worker, busy) : i = j

\* Nothing but a store error leaves a running row behind, and then only one: a
\* cancelled worker gives its row back, wherever the cancellation finds it
\* (dispatch.go:175-177, 186-188, 195-206, 291-307).
RunningIsHeld ==
  /\ StrandsOnlyByError(deliveries, deliveryWorker, DeliveryBusy)
  /\ StrandsOnlyByError(enrichmentTasks, enrichmentWorker, EnrichmentBusy)

Settled(row) == row.status \in {"done", "failed"}

\* A delivery that reached done or failed stays there, no delivery loses
\* attempts, and no row is rewritten into another one's.
SettledIsFinal ==
  [][\A i \in DOMAIN deliveries :
       /\ i \in DOMAIN deliveries'
       /\ Settled(deliveries[i]) => deliveries'[i].status = deliveries[i].status
       /\ deliveries'[i].attempts >= deliveries[i].attempts
       /\ deliveries'[i].msg = deliveries[i].msg
       /\ deliveries'[i].payload = deliveries[i].payload]_vars

\* The service implements the outbox of module Outbox.
OutboxOf(table) ==
  [i \in DOMAIN table |-> IF Settled(table[i]) THEN table[i].status ELSE "open"]

Promise == INSTANCE Outbox WITH MaxRequests <- WeComMaxAttempts,
                                outcome <- OutboxOf(deliveries),
                                requested <- requests,
                                taken <- accepted

\* The rows of delivery_attempts, their requests and the robot's acceptances
\* behave as the entries of an Outbox (dispatch.go:163-207).
ImplementsOutbox == Promise!Spec

-----------------------------------------------------------------------------
(* Liveness, under FairSpec.  Notifications stop at MaxFrames, so "in the end" *)
(* can be said of all rows at once.                                          *)

AllSettled(table) == \A i \in DOMAIN table : Settled(table[i])

\* Every queued delivery is settled in the end, however often the robot refuses
\* and however many other rows are due, unless the worker itself has returned
\* (dispatch.go:109-134, sqlite.go:400-404).
DeliveriesSettle == <>[](AllSettled(deliveries) \/ deliveryWorker.pc = "returned")

\* The same of the enrichment tasks when there is a browser
\* (dispatch.go:136-161, sqlite.go:428-432).
EnrichmentsSettle ==
  <>[](AllSettled(enrichmentTasks) \/ enrichmentWorker.pc \in {"returned", "off"})
=============================================================================
