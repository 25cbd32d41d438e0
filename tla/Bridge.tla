-------------------------------- MODULE Bridge --------------------------------
(***************************************************************************)
(* The process around the dispatch service: internal/app/app.go composes   *)
(* the receiver and the two workers, cmd/wxpusher-bridge/main.go turns a   *)
(* signal into a cancelled context and the end of the run into an exit     *)
(* status, and a supervisor (systemd, launchd) starts the process again.   *)
(* The database survives; everything else is lost with the process, which  *)
(* exits without waiting for its goroutines.                               *)
(***************************************************************************)
EXTENDS Dispatch, FiniteSets

CONSTANTS
  ReceiverMode,  \* receiver.mode
  MaxRestarts    \* bound: times the process is started again

ASSUME BridgeAssumption ==
  /\ ReceiverMode \in {"chrome-cdp", "go-fallback"}
  /\ MaxRestarts \in Nat

VARIABLES
  process,     \* "up": in App.Run; "exiting": Run has returned; "down"
  receiver,    \* "starting", then "receiving" until the process ends
  reported,    \* the workers whose end reportWorkerError has looked at
  workerErrs,  \* how many errors wait in the workerErrs channel
  stopSignal,  \* SIGINT or SIGTERM was received
  exit,        \* how the process ended: "none" while it has not
  restarts

control == <<process, receiver, reported, workerErrs, stopSignal, exit, restarts>>
bridge == <<vars, control>>

WorkerErrsCap == 2  \* make(chan error, 2)

NewProcess ==
  /\ handler' = HandlerIdle
  /\ deliveryWorker' = DeliveryIdle
  /\ enrichmentWorker' = EnrichmentIdle

BridgeInit ==
  /\ Init
  /\ process = "up"
  /\ receiver = "starting"
  /\ reported = {}
  /\ workerErrs = 0
  /\ stopSignal = FALSE
  /\ exit = "none"
  /\ restarts = 0

-----------------------------------------------------------------------------
(* The service inside the process.  Its goroutines go on after Run has        *)
(* returned, until the process is gone.                                       *)

Alive == process # "down"

\* The extension can send a frame before the receiver calls itself ready; the
\* Go client connects only once the identity is loaded.
BridgeReceives ==
  /\ Alive
  /\ receiver = "receiving" \/ ReceiverMode = "chrome-cdp"
  /\ \E n \in Notification : ReceiveNotification(n)
  /\ UNCHANGED control

BridgeHandles == Alive /\ HandlerStep /\ UNCHANGED control
BridgeDelivers == Alive /\ DeliveryStep /\ UNCHANGED control
BridgeEnriches == Alive /\ EnrichmentStep /\ UNCHANGED control

\* Clocks run whether or not the process does.
BridgeBacksOff == BackoffElapses /\ UNCHANGED control

-----------------------------------------------------------------------------
(* App.Run *)

\* Mutant: the channel has no buffer, and nobody receives from it before the
\* receiver has started.
ReportWorker_Unbuffered(name, worker) ==
  /\ Alive
  /\ worker.pc = "returned"
  /\ name \notin reported
  /\ reported' = reported \cup {name}
  /\ workerErrs' = IF worker.err = "error" /\ receiver = "receiving"
                   THEN workerErrs + 1 ELSE workerErrs
  /\ UNCHANGED <<vars, process, receiver, stopSignal, exit, restarts>>

\* The worker's goroutine passes what Run returned to reportWorkerError:
\* cancellation and timeouts are dropped, other errors are sent if there is room.
ReportWorker(name, worker) ==
  /\ Alive
  /\ worker.pc = "returned"
  /\ name \notin reported
  /\ reported' = reported \cup {name}
  /\ workerErrs' = IF worker.err = "error" /\ workerErrs < WorkerErrsCap
                   THEN workerErrs + 1 ELSE workerErrs
  /\ UNCHANGED <<vars, process, receiver, stopSignal, exit, restarts>>

ReportWorkers ==
  \/ ReportWorker("delivery", deliveryWorker)
  \/ ReportWorker("enrichment", enrichmentWorker)

\* The WxPusher socket is observed before the ready timeout, or the identity is
\* loaded.  From here the receiver only ends with the context: a closed socket
\* is not noticed (chrome-cdp) or is dialled again (go-fallback).  ChromeReceiver
\* and Fallback implement this receiver (module Receiver).
ReceiverStarts ==
  /\ process = "up"
  /\ receiver = "starting"
  /\ receiver' = "receiving"
  /\ UNCHANGED <<vars, process, reported, workerErrs, stopSignal, exit, restarts>>

\* Mutant: nobody cancels the context when the run returns.
RunReturns_NotCancelled(status) ==
  /\ process = "up"
  /\ process' = "exiting"
  /\ exit' = status
  /\ UNCHANGED <<vars, receiver, reported, workerErrs, stopSignal, restarts>>

\* Run returns and cancels the context it gave to everybody.
RunReturns(status) ==
  /\ process = "up"
  /\ process' = "exiting"
  /\ exit' = status
  /\ ctxDone' = TRUE
  /\ UNCHANGED <<tables, handler, deliveryWorker, enrichmentWorker, outside, frames,
                 faults, receiver, reported, workerErrs, stopSignal, restarts>>

\* An error of a worker is received.  The Go client looks at the channel only
\* once its identity is loaded.
WorkerErrorEndsRun ==
  /\ workerErrs > 0
  /\ receiver = "receiving" \/ ReceiverMode = "chrome-cdp"
  /\ RunReturns("failed")

\* Mutant: once the receiver has started, its end counts as a disconnect.
SignalEndsRun_Redialled == ctxDone /\ receiver = "starting" /\ RunReturns("clean")

\* ctx.Done(): main takes context.Canceled for a clean end.
SignalEndsRun == ctxDone /\ RunReturns("clean")

\* Chrome cannot be reached, shows no extension worker or no socket in time; the
\* stored identity is missing or invalid.
ReceiverEndsRun ==
  /\ receiver = "starting"
  /\ ~ctxDone
  /\ RunReturns("failed")

-----------------------------------------------------------------------------
(* The process *)

\* signal.NotifyContext cancels the context; later signals change nothing.
Signal ==
  /\ process = "up"
  /\ ~stopSignal
  /\ stopSignal' = TRUE
  /\ ctxDone' = TRUE
  /\ UNCHANGED <<tables, handler, deliveryWorker, enrichmentWorker, outside, frames,
                 faults, process, receiver, reported, workerErrs, exit, restarts>>

\* The goroutines are gone, wherever they were; a request on its way may still
\* be accepted by the robot.
Die(status) ==
  /\ process' = "down"
  /\ exit' = status
  /\ NewProcess
  /\ \/ UNCHANGED accepted
     \/ /\ deliveryWorker.pc = "sending"
        /\ accepted' = accepted \cup {deliveryWorker.row}
  /\ UNCHANGED <<tables, ctxDone, requests, fetches, frames, faults, receiver,
                 reported, workerErrs, stopSignal, restarts>>

\* runCommand closes the store and main exits.
Exit == process = "exiting" /\ Die(exit)

\* The process is killed, or the machine stops, between any two statements.
Crash == Alive /\ Die("crashed")

\* Mutant: running rows are queued again at start-up, attempts as they were.
Restart_Requeues ==
  /\ process = "down"
  /\ restarts < MaxRestarts
  /\ restarts' = restarts + 1
  /\ deliveries' = [i \in DOMAIN deliveries |->
                      IF deliveries[i].status = "running"
                      THEN [deliveries[i] EXCEPT !.status = "pending"] ELSE deliveries[i]]
  /\ process' = "up"
  /\ receiver' = "starting"
  /\ reported' = {}
  /\ workerErrs' = 0
  /\ stopSignal' = FALSE
  /\ exit' = "none"
  /\ ctxDone' = FALSE
  /\ NewProcess
  /\ UNCHANGED <<messages, enrichmentTasks, enrichments, outside, frames, faults>>

Restart ==
  /\ process = "down"
  /\ restarts < MaxRestarts
  /\ restarts' = restarts + 1
  /\ process' = "up"
  /\ receiver' = "starting"
  /\ reported' = {}
  /\ workerErrs' = 0
  /\ stopSignal' = FALSE
  /\ exit' = "none"
  /\ ctxDone' = FALSE
  /\ NewProcess
  /\ UNCHANGED <<tables, outside, frames, faults>>

BridgeNext ==
  \/ BridgeReceives \/ BridgeHandles \/ BridgeDelivers \/ BridgeEnriches
  \/ BridgeBacksOff
  \/ ReportWorkers \/ ReceiverStarts
  \/ WorkerErrorEndsRun \/ SignalEndsRun \/ ReceiverEndsRun
  \/ Signal \/ Exit \/ Crash \/ Restart

BridgeSpec == BridgeInit /\ [][BridgeNext]_bridge

\* As Dispatch's, for the goroutines of a live process.  The go-fallback loads its
\* identity or fails to; the Chrome receiver may wait for an answer of Chrome's
\* without a deadline (Receiver!Spec, Receiver!PromptSpec).  App.Run's select takes a
\* ready case, and a returned main exits.  No fairness for Signal, Crash and
\* Restart: they need not happen.
BridgeFairness ==
  /\ WF_bridge(BridgeHandles)
  /\ WF_bridge(BridgeDelivers)
  /\ WF_bridge(BridgeEnriches)
  /\ WF_bridge(DeliveryBackoffElapses /\ UNCHANGED control)
  /\ WF_bridge(EnrichmentBackoffElapses /\ UNCHANGED control)
  /\ WF_bridge(ReportWorker("delivery", deliveryWorker))
  /\ WF_bridge(ReportWorker("enrichment", enrichmentWorker))
  /\ WF_bridge(ReceiverMode = "go-fallback" /\ (ReceiverStarts \/ ReceiverEndsRun))
  /\ WF_bridge(WorkerErrorEndsRun \/ SignalEndsRun)
  /\ WF_bridge(Exit)

FairBridge == BridgeSpec /\ BridgeFairness

-----------------------------------------------------------------------------
(* Properties *)

ControlOK ==
  /\ process \in {"up", "exiting", "down"}
  /\ receiver \in {"starting", "receiving"}
  /\ reported \subseteq {"delivery", "enrichment"}
  /\ workerErrs \in 0 .. WorkerErrsCap
  /\ stopSignal \in BOOLEAN
  /\ exit \in {"none", "clean", "failed", "crashed"}
  /\ (exit = "none") = (process = "up")
  \* A cancelled context has a cause, and both causes cancel it.
  /\ Alive => ctxDone = (stopSignal \/ process = "exiting")
  /\ restarts \in 0 .. MaxRestarts

BridgeTypeOK == TypeOK /\ ControlOK

\* How many lives a worker has ended so far.
LivesEnded(worker) ==
  restarts + (IF process = "down" \/ worker.pc = "returned" THEN 1 ELSE 0)

\* However the process ends, each life of a worker leaves at most one running row
\* behind: the claim takes one row, and every path that goes on settles it first
\* (dispatch.go:170-206, 216-288; nothing resets a running row at start-up).
OneStrandedPerLife ==
  /\ Cardinality(Stranded(deliveries, deliveryWorker, DeliveryBusy))
       <= LivesEnded(deliveryWorker)
  /\ Cardinality(Stranded(enrichmentTasks, enrichmentWorker, EnrichmentBusy))
       <= LivesEnded(enrichmentWorker)

HasOriginal(m) ==
  \E i \in DOMAIN deliveries : deliveries[i].msg = m /\ deliveries[i].kind = "original"

\* Everything HandleMessage queues for a message is queued.
IsQueued(m) ==
  /\ HasOriginal(m)
  /\ \A k \in DOMAIN messages[m].urls :
       \E t \in DOMAIN enrichmentTasks :
         enrichmentTasks[t].msg = m /\ enrichmentTasks[t].url = messages[m].urls[k]

\* The messages nobody will finish: stored, but without their original row or the task
\* of one of their links, and not in the handler's hands.
Unfinished ==
  {m \in DOMAIN messages : ~IsQueued(m) /\ ~(handler.pc # "idle" /\ handler.msg = m)}

\* Each failed store call and each end of a run leaves at most one message unfinished:
\* the one between its inserts.  No other message suffers, whichever insert fails, and
\* a notification that comes again repairs nothing and breaks nothing more
\* (dispatch.go:68-107, sqlite.go:196-217).
UnfinishedBounded ==
  Cardinality(Unfinished) <= faults + restarts + (IF ctxDone \/ ~Alive THEN 1 ELSE 0)

\* Whatever the workers are doing and whether or not the receiver had started, a
\* signal ends the process (main.go:74-81, app.go:154-168, 198-209, 320-332), and so
\* does a store error that ends a worker, or both: with a status the supervisor
\* restarts on, unless it was stopped or killed meanwhile (app.go:121-129, 155-157,
\* 199-201, 372-380).
SignalOrErrorStopsProcess ==
  (\/ stopSignal
   \/ deliveryWorker.err = "error"
   \/ enrichmentWorker.err = "error") ~>
  (process = "down" /\ (exit \in {"failed", "crashed"} \/ stopSignal))

\* In the end the process stays up and both workers keep running.
KeepsRunning ==
  <>[](process = "up" /\ deliveryWorker.pc # "returned" /\ enrichmentWorker.pc # "returned")

\* "The dispatch layer runs durable tasks from SQLite so a process restart does
\* not lose work" (design.md:174): a process that keeps running settles every row
\* an earlier one queued.
RestartKeepsDeliveries == KeepsRunning => <>[]AllSettled(deliveries)

\* app's "error propagation" (design.md:40): a worker that stops for an error does
\* not leave the process running without it.
WorkerEndIsPropagated ==
  (deliveryWorker.err \in StoreError \/ enrichmentWorker.err \in StoreError)
    ~> process = "down"
=============================================================================
