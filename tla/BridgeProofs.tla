----------------------------- MODULE BridgeProofs -----------------------------
(***************************************************************************)
(* The whole process, for any number of signals, crashes and restarts:     *)
(* what the modules about the dispatch service prove of one life holds     *)
(* across all of them, and each life leaves little behind.                 *)
(*                                                                         *)
(* A step of the process is a step of the service, perhaps none, or the    *)
(* end or the beginning of a life.  Those two leave the database and the   *)
(* history alone and put the goroutines back to where they start; an end   *)
(* may still let the robot accept the row that was being sent.  So the     *)
(* invariants of DispatchProofs and EnrichmentProofs hold, but for the     *)
(* parts that say who holds a running row: a life that ends may strand one *)
(* row in each queue, and the lives are counted instead.  The messages     *)
(* a life drops before their rows are queued are counted the same way,     *)
(* against the failed store calls and the ends of runs.                    *)
(***************************************************************************)
EXTENDS Bridge, EnrichmentProofs, FiniteSetTheorems

\* The goroutines are gone, or start again.
NewLife ==
  /\ NewProcess
  /\ UNCHANGED <<tables, requests, fetches, frames, faults>>
  /\ \/ UNCHANGED accepted
     \/ /\ deliveryWorker.pc = "sending"
        /\ accepted' = accepted \cup {deliveryWorker.row}
  /\ ctxDone' \in BOOLEAN

Lives == NewLife /\ ~Alive /\ Alive' /\ restarts' = restarts + 1
Ends == NewLife /\ Alive /\ ~Alive' /\ restarts' = restarts

\* A process that is down has no goroutines: only clocks and rows go on.
Serves ==
  /\ [Next]_vars
  /\ restarts' = restarts
  /\ Alive' = Alive
  /\ Alive \/ UNCHANGED <<handler, deliveryWorker, enrichmentWorker>>

-----------------------------------------------------------------------------
(* Steps of the process are steps of the service, or ends and starts of it *)

\* Only the end of the run and a signal write the service's context.
LEMMA ContextSteps ==
  ASSUME TypeOK,
         Signal \/ WorkerErrorEndsRun \/ SignalEndsRun \/ ReceiverEndsRun
  PROVE  Serves
<1>1. /\ ctxDone' = TRUE
      /\ UNCHANGED <<tables, handler, deliveryWorker, enrichmentWorker, outside, frames,
                     faults>>
  BY DEF Signal, WorkerErrorEndsRun, SignalEndsRun, ReceiverEndsRun, RunReturns
<1>2. process = "up" /\ process' # "down" /\ restarts' = restarts
  BY DEF Signal, WorkerErrorEndsRun, SignalEndsRun, ReceiverEndsRun, RunReturns
<1>3. ctxDone \in BOOLEAN
  BY DEF TypeOK, BoundsOK
<1>4. [Next]_vars
  <2>1. CASE ctxDone
    BY <1>1, <2>1 DEF vars
  <2>2. CASE ~ctxDone
    BY <1>1, <2>2 DEF Next, Cancel
  <2>3. QED
    BY <1>3, <2>1, <2>2
<1>5. QED
  BY <1>2, <1>4 DEF Serves, Alive

\* The end of a process and its start.
LEMMA LifeSteps ==
  ASSUME TypeOK, Exit \/ Crash \/ Restart
  PROVE  Ends \/ Lives
<1>1. ctxDone \in BOOLEAN
  BY DEF TypeOK, BoundsOK
<1>2. CASE Exit \/ Crash
  <2>1. NewLife
    BY <1>1, <1>2 DEF Exit, Crash, Die, NewLife
  <2>2. Alive /\ ~Alive' /\ restarts' = restarts
    BY <1>2 DEF Exit, Crash, Die, Alive
  <2>3. QED
    BY <2>1, <2>2 DEF Ends
<1>3. CASE Restart
  <2>1. NewLife
    BY <1>3 DEF Restart, NewLife, outside
  <2>2. ~Alive /\ Alive' /\ restarts' = restarts + 1
    BY <1>3 DEF Restart, Alive
  <2>3. QED
    BY <2>1, <2>2 DEF Lives
<1>4. QED
  BY <1>2, <1>3

LEMMA BridgeSteps ==
  ASSUME TypeOK, [BridgeNext]_bridge
  PROVE  Serves \/ Ends \/ Lives
<1>1. CASE BridgeReceives \/ BridgeHandles \/ BridgeDelivers \/ BridgeEnriches
  <2>1. Next /\ Alive /\ UNCHANGED control
    BY <1>1 DEF BridgeReceives, BridgeHandles, BridgeDelivers, BridgeEnriches, Next
  <2>2. QED
    BY <2>1 DEF Serves, control, Alive
<1>2. CASE BridgeBacksOff
  <2>1. Next /\ UNCHANGED control /\ UNCHANGED <<handler, deliveryWorker, enrichmentWorker>>
    BY <1>2 DEF BridgeBacksOff, Next, BackoffElapses, DeliveryBackoffElapses,
                EnrichmentBackoffElapses
  <2>2. QED
    BY <2>1 DEF Serves, control, Alive
<1>3. CASE ReportWorkers \/ ReceiverStarts \/ UNCHANGED bridge
  <2>1. UNCHANGED vars /\ UNCHANGED <<process, restarts>>
    BY <1>3 DEF ReportWorkers, ReportWorker, ReceiverStarts, bridge, control
  <2>2. UNCHANGED <<handler, deliveryWorker, enrichmentWorker>>
    BY <2>1 DEF vars
  <2>3. QED
    BY <2>1, <2>2 DEF Serves, Alive
<1>4. CASE Signal \/ WorkerErrorEndsRun \/ SignalEndsRun \/ ReceiverEndsRun
  BY <1>4, ContextSteps
<1>5. CASE Exit \/ Crash \/ Restart
  BY <1>5, LifeSteps
<1>6. QED
  BY <1>1, <1>2, <1>3, <1>4, <1>5 DEF BridgeNext

-----------------------------------------------------------------------------
(* New lives keep the invariants *)

LEMMA NewLifeType ==
  ASSUME TypeOK, NewLife
  PROVE  TypeOK'
<1>1. TablesOK'
  BY DEF TypeOK, TablesOK, NewLife, tables
<1>2. HandlerOK'
  BY DEF NewLife, NewProcess, HandlerOK, HandlerIdle, Handler
<1>3. DeliveryWorkerOK'
  BY DEF NewLife, NewProcess, DeliveryWorkerOK, DeliveryIdle, DeliveryWorker, DeliveryBusy,
         Err
<1>4. EnrichmentWorkerOK'
  BY DEF NewLife, NewProcess, EnrichmentWorkerOK, EnrichmentIdle, EnrichmentWorker,
         EnrichmentBusy, Err
<1>5. HistoryOK'
  BY DEF TypeOK, HistoryOK, DeliveryWorkerOK, DeliveryBusy, NewLife, tables
<1>6. BoundsOK'
  BY DEF TypeOK, BoundsOK, NewLife
<1>7. QED
  BY <1>1, <1>2, <1>3, <1>4, <1>5, <1>6 DEF TypeOK

\* What the rows say of the requests does not depend on who asks.
LEMMA NewLifeRows ==
  ASSUME RowsInv, NewLife
  PROVE  RowsInv'
<1>1. TypeOK'
  BY NewLifeType DEF RowsInv
<1>2. RowsOK'
  BY DEF RowsInv, RowsOK, RowOK, Took, Count, NewLife, tables
<1>3. HeldRowOK'
  BY DEF HeldRowOK, NewLife, NewProcess, DeliveryIdle, DeliveryBusy
<1>4. QED
  BY <1>1, <1>2, <1>3 DEF RowsInv

LEMMA NewLifeRecords ==
  ASSUME RecordInv, NewLife
  PROVE  RecordInv'
<1>1. UNCHANGED <<deliveries, enrichmentTasks, enrichments, fetches>>
  BY DEF NewLife, tables
<1>2. enrichmentWorker'.pc \notin EnrichmentBusy
  BY DEF NewLife, NewProcess, EnrichmentIdle, EnrichmentBusy
<1>3. TasksInv'
  <2>1. TypeOK'
    BY NewLifeType DEF RecordInv, TasksInv
  <2>2. TasksOK' /\ HeldTaskOK'
    BY <1>1, <1>2 DEF RecordInv, TasksInv, TasksOK, TaskOK, Count, HeldTaskOK
  <2>3. QED
    BY <2>1, <2>2 DEF TasksInv
<1>4. HeldRecordOK'
  BY <1>2 DEF HeldRecordOK, EnrichmentBusy
<1>5. TasksUnique' /\ EnrichedIsRecorded' /\ DoneOK'
  BY <1>1 DEF RecordInv, TasksUnique, EnrichedIsRecorded, DoneOK, Link, QueuedFor
<1>6. QED
  BY <1>3, <1>4, <1>5 DEF RecordInv

LEMMA NewLifeMessages ==
  ASSUME MessageInv, NewLife
  PROVE  MessageInv'
<1>1. TypeOK' /\ UNCHANGED <<messages, deliveries, enrichmentTasks>>
  BY NewLifeType DEF MessageInv, NewLife, tables
<1>2. QED
  BY <1>1 DEF MessageInv, KeysUnique, RowsBelong, TasksBelong, RowsUnique

\* A last acceptance is a step of the outbox.
LEMMA NewLifeRefines ==
  ASSUME RowsInv, NewLife
  PROVE  [Promise!Next]_Promise!outbox
<1> DEFINE i == deliveryWorker.row
<1>1. UNCHANGED requests /\ OutboxOf(deliveries)' = OutboxOf(deliveries)
  BY DEF NewLife, tables, OutboxOf
<1>2. CASE UNCHANGED accepted
  BY <1>1, <1>2, Stutters
<1>3. CASE deliveryWorker.pc = "sending" /\ accepted' = accepted \cup {i}
  <2>1. i \in DOMAIN deliveries /\ Promise!Open(i) /\ i \in DOMAIN OutboxOf(deliveries)
    BY <1>3, HeldIsOpen DEF DeliveryBusy, OutboxOf
  <2>2. Promise!Requested(i) > 0
    <3>1. deliveries[i] \in Delivery
      BY <2>1 DEF RowsInv, TypeOK, TablesOK
    <3>2. deliveries[i].attempts \in Nat
      BY <3>1 DEF Delivery
    <3>3. Count(requests, i) = deliveries[i].attempts + 1
      BY <1>3 DEF RowsInv, HeldRowOK, DeliveryBusy
    <3>4. QED
      BY <3>2, <3>3 DEF Promise!Requested, Count
  <2>3. Promise!Take(i)
    BY <1>1, <1>3, <2>1, <2>2 DEF Promise!Take
  <2>4. QED
    BY <2>1, <2>3 DEF Promise!Next
<1>4. QED
  BY <1>2, <1>3 DEF NewLife

-----------------------------------------------------------------------------
(* The invariant of the process *)

ServiceInv == RowsInv /\ RecordInv /\ MessageInv

LEMMA InitBridge == BridgeInit => ServiceInv /\ ControlOK
<1> SUFFICES ASSUME BridgeInit PROVE ServiceInv /\ ControlOK
  OBVIOUS
<1>1. ServiceInv
  BY InitDelivery, InitRecords, InitMessages DEF BridgeInit, ServiceInv, DeliveryInv
<1>2. ControlOK
  <2>1. 0 \in 0 .. WorkerErrsCap /\ 0 \in 0 .. MaxRestarts
    BY BridgeAssumption DEF WorkerErrsCap
  <2>2. QED
    BY <2>1 DEF BridgeInit, Init, ControlOK
<1>3. QED
  BY <1>1, <1>2

LEMMA NextService == ServiceInv /\ [BridgeNext]_bridge => ServiceInv'
<1> SUFFICES ASSUME ServiceInv, [BridgeNext]_bridge PROVE ServiceInv'
  OBVIOUS
<1>1. [Next]_vars \/ NewLife
  BY BridgeSteps DEF ServiceInv, RowsInv, Serves, Ends, Lives
<1>2. CASE [Next]_vars
  BY <1>2, NextRows, NextRecords, NextMessages DEF ServiceInv
<1>3. CASE NewLife
  BY <1>3, NewLifeRows, NewLifeRecords, NewLifeMessages DEF ServiceInv
<1>4. QED
  BY <1>1, <1>2, <1>3

\* The service reads its context; others cancel it.
LEMMA ServiceKeepsContext ==
  ASSUME BridgeReceives \/ BridgeHandles \/ BridgeDelivers \/ BridgeEnriches \/ BridgeBacksOff
  PROVE  ctxDone' = ctxDone
<1>1. CASE BridgeReceives
  BY <1>1 DEF BridgeReceives, ReceiveNotification
<1>2. CASE BridgeHandles
  BY <1>2 DEF BridgeHandles, HandlerStep, EnqueueOriginal, EnqueueLink
<1>3. CASE BridgeDelivers
  BY <1>3 DEF BridgeDelivers, DeliveryStep, DeliveryCanceled, ClaimDelivery, ReleaseDelivery,
              StartSend, SendReturns, MarkDeliveryDone, RetryOrFailDelivery, SettleDelivery
<1>4. CASE BridgeEnriches
  BY <1>4 DEF BridgeEnriches, EnrichmentStep, EnrichmentCanceled, ClaimEnrichment,
              ReleaseEnrichment, StartFetch, FetchReturns, RecordPage, EnqueueEnriched,
              MarkEnrichmentDone, RetryOrFailEnrichment, SettleEnrichment
<1>5. CASE BridgeBacksOff
  BY <1>5 DEF BridgeBacksOff, BackoffElapses, DeliveryBackoffElapses, EnrichmentBackoffElapses
<1>6. QED
  BY <1>1, <1>2, <1>3, <1>4, <1>5

\* One step per group of actions that write the same part of the control state.
LEMMA NextControl == ControlOK /\ [BridgeNext]_bridge => ControlOK'
<1> SUFFICES ASSUME ControlOK, [BridgeNext]_bridge PROVE ControlOK'
  OBVIOUS
<1>1. CASE \/ BridgeReceives \/ BridgeHandles \/ BridgeDelivers \/ BridgeEnriches
           \/ BridgeBacksOff \/ UNCHANGED bridge
  <2>1. UNCHANGED control
    BY <1>1 DEF BridgeReceives, BridgeHandles, BridgeDelivers, BridgeEnriches,
                BridgeBacksOff, bridge
  <2>2. ctxDone' = ctxDone
    BY <1>1, ServiceKeepsContext DEF bridge, vars
  <2>3. QED
    BY <2>1, <2>2 DEF control, ControlOK, Alive
<1>2. CASE ReportWorkers
  <2>1. /\ \E name \in {"delivery", "enrichment"} : reported' = reported \cup {name}
        /\ \/ workerErrs' = workerErrs
           \/ workerErrs < WorkerErrsCap /\ workerErrs' = workerErrs + 1
        /\ UNCHANGED <<process, receiver, stopSignal, exit, restarts, ctxDone>>
    BY <1>2 DEF ReportWorkers, ReportWorker, vars
  <2>2. workerErrs' \in 0 .. WorkerErrsCap
    BY <2>1 DEF ControlOK, WorkerErrsCap
  <2>3. QED
    BY <2>1, <2>2 DEF ControlOK, Alive
<1>3. CASE ReceiverStarts \/ Signal
  <2>1. CASE ReceiverStarts
    BY <2>1 DEF ReceiverStarts, ControlOK, Alive, vars
  <2>2. CASE Signal
    <3>1. /\ process = "up" /\ process' = process /\ stopSignal' = TRUE /\ ctxDone' = TRUE
          /\ UNCHANGED <<receiver, reported, workerErrs, exit, restarts>>
      BY <2>2 DEF Signal
    <3>2. ctxDone' = (stopSignal' \/ process' = "exiting")
      BY <3>1
    <3>3. QED
      BY <3>1, <3>2 DEF ControlOK, Alive
  <2>3. QED
    BY <1>3, <2>1, <2>2
<1>4. CASE WorkerErrorEndsRun \/ SignalEndsRun \/ ReceiverEndsRun
  BY <1>4 DEF WorkerErrorEndsRun, SignalEndsRun, ReceiverEndsRun, RunReturns, ControlOK,
              Alive
<1>5. CASE Exit \/ Crash
  BY <1>5 DEF Exit, Crash, Die, ControlOK, Alive
<1>6. CASE Restart
  <2>1. restarts' \in 0 .. MaxRestarts /\ workerErrs' \in 0 .. WorkerErrsCap
    BY <1>6, BridgeAssumption DEF Restart, ControlOK, WorkerErrsCap
  <2>2. QED
    BY <1>6, <2>1 DEF Restart, ControlOK, Alive
<1>7. QED
  BY <1>1, <1>2, <1>3, <1>4, <1>5, <1>6 DEF BridgeNext

LEMMA BridgeInvariant == BridgeSpec => [](ServiceInv /\ ControlOK)
<1>1. ServiceInv /\ ControlOK /\ [BridgeNext]_bridge => (ServiceInv /\ ControlOK)'
  BY NextService, NextControl
<1>2. QED
  BY <1>1, InitBridge, PTL DEF BridgeSpec

-----------------------------------------------------------------------------
(* What the lives leave running *)

DownIsIdle ==
  ~Alive => /\ handler = HandlerIdle
            /\ deliveryWorker = DeliveryIdle
            /\ enrichmentWorker = EnrichmentIdle

StrandedInv == DownIsIdle /\ OneStrandedPerLife

\* A set that gains one element at most.
LEMMA OneMoreElement ==
  ASSUME NEW old, IsFiniteSet(old), NEW i, NEW new, new \subseteq old \cup {i}
  PROVE  Cardinality(new) <= Cardinality(old) + 1
<1> DEFINE more == old \cup {i}
<1>1. Cardinality(old) \in Nat
  BY FS_CardinalityType
<1>2. /\ IsFiniteSet(more)
      /\ Cardinality(more) = Cardinality(old) \/ Cardinality(more) = Cardinality(old) + 1
  BY FS_AddElement
<1>3. IsFiniteSet(new) /\ Cardinality(new) <= Cardinality(more)
  BY <1>2, FS_Subset
<1>4. Cardinality(new) \in Nat /\ Cardinality(more) \in Nat
  BY <1>2, <1>3, FS_CardinalityType
<1> HIDE DEF more
<1>5. QED
  BY <1>1, <1>2, <1>3, <1>4

LEMMA NoMoreElements ==
  ASSUME NEW old, IsFiniteSet(old), NEW new, new \subseteq old
  PROVE  Cardinality(new) <= Cardinality(old)
BY FS_Subset

\* The rows of a table are finitely many.
LEMMA FiniteRows ==
  ASSUME NEW S, NEW table \in Seq(S)
  PROVE  \A set \in SUBSET (DOMAIN table) : IsFiniteSet(set)
<1>1. DOMAIN table = 1 .. Len(table) /\ Len(table) \in Nat
  OBVIOUS
<1>2. IsFiniteSet(DOMAIN table)
  BY <1>1, FS_Interval
<1>3. QED
  BY <1>2, FS_Subset

\* LivesEnded, for n restarts of a process that is up or not.
LivesOf(n, up, worker) == n + (IF ~up \/ worker.pc = "returned" THEN 1 ELSE 0)

\* While a life goes on, the worker may strand one row, by ending.
LEMMA ServingStrands ==
  ASSUME NEW old, IsFiniteSet(old), NEW new, NEW worker, NEW next, NEW n \in Nat,
         NEW up \in BOOLEAN, up \/ next = worker,
         StrandsAtReturn(old, new, worker, next),
         Cardinality(old) <= LivesOf(n, up, worker)
  PROVE  Cardinality(new) <= LivesOf(n, up, next)
<1>1. Cardinality(old) \in Nat
  BY FS_CardinalityType
<1>2. CASE new \subseteq old
  <2>1. IsFiniteSet(new) /\ Cardinality(new) <= Cardinality(old)
    BY <1>2, FS_Subset
  <2>2. Cardinality(new) \in Nat
    BY <2>1, FS_CardinalityType
  <2>3. LivesOf(n, up, worker) <= LivesOf(n, up, next)
    BY DEF StrandsAtReturn, LivesOf
  <2>4. QED
    BY <1>1, <2>1, <2>2, <2>3 DEF LivesOf
<1>3. ASSUME worker.pc # "returned", next.pc = "returned", NEW i, new \subseteq old \cup {i}
      PROVE  Cardinality(new) <= LivesOf(n, up, next)
  <2>1. up
    BY <1>3
  <2>2. Cardinality(new) <= Cardinality(old) + 1
    BY <1>3, OneMoreElement
  <2>3. IsFiniteSet(new) /\ Cardinality(new) \in Nat
    <3>1. IsFiniteSet(old \cup {i})
      BY FS_AddElement
    <3>2. IsFiniteSet(new)
      BY <1>3, <3>1, FS_Subset
    <3>3. QED
      BY <3>2, FS_CardinalityType
  <2>4. QED
    BY <1>1, <1>3, <2>1, <2>2, <2>3 DEF LivesOf
<1>4. QED
  BY <1>2, <1>3 DEF StrandsAtReturn

\* When it ends, the row in the worker's hands is stranded.
LEMMA EndingStrands ==
  ASSUME NEW table, NEW worker, NEW next, NEW busy,
         next.pc \notin busy, "returned" \notin busy,
         IsFiniteSet(Stranded(table, worker, busy)), NEW n \in Nat,
         Cardinality(Stranded(table, worker, busy)) <= LivesOf(n, TRUE, worker)
  PROVE  Cardinality(Stranded(table, next, busy)) <= n + 1
<1> DEFINE old == Stranded(table, worker, busy)
           new == Stranded(table, next, busy)
<1>1. new \subseteq old \cup {worker.row}
  BY DEF Stranded
<1>2. worker.pc = "returned" => new \subseteq old
  BY DEF Stranded
<1>3. Cardinality(old) \in Nat
  BY FS_CardinalityType
<1> HIDE DEF old, new
<1>4. IsFiniteSet(new) /\ Cardinality(new) \in Nat
  <2>1. IsFiniteSet(old) /\ IsFiniteSet(old \cup {worker.row})
    BY FS_AddElement DEF old
  <2>2. IsFiniteSet(new)
    BY <1>1, <2>1, FS_Subset
  <2>3. QED
    BY <2>2, FS_CardinalityType
<1>5. Cardinality(new) <= n + 1
  <2>1. CASE worker.pc = "returned"
    <3>1. Cardinality(new) <= Cardinality(old)
      BY <1>2, <2>1, NoMoreElements DEF old
    <3>2. QED
      BY <1>3, <1>4, <2>1, <3>1 DEF LivesOf, old
  <2>2. CASE worker.pc # "returned"
    <3>1. Cardinality(new) <= Cardinality(old) + 1
      BY <1>1, OneMoreElement DEF old
    <3>2. QED
      BY <1>3, <1>4, <2>2, <3>1 DEF LivesOf, old
  <2>3. QED
    BY <2>1, <2>2
<1>6. QED
  BY <1>5 DEF new

\* Steps of a life.
LEMMA ServesStrands ==
  ASSUME ServiceInv, ControlOK, StrandedInv, Serves
  PROVE  StrandedInv'
<1>1. RowsInv /\ TasksInv /\ TypeOK
  BY DEF ServiceInv, RecordInv, RowsInv
<1>2. StrandsRow /\ StrandsTask
  BY <1>1, NextRows, NextTasks DEF Serves
<1>3. restarts \in Nat /\ Alive \in BOOLEAN
  BY BridgeAssumption DEF ControlOK, Alive
<1>4. IsFiniteSet(StrandedRows) /\ IsFiniteSet(StrandedTasks)
  <2>1. deliveries \in Seq(Delivery) /\ enrichmentTasks \in Seq(EnrichmentTask)
    BY <1>1 DEF TypeOK, TablesOK
  <2>2. StrandedRows \subseteq DOMAIN deliveries /\ StrandedTasks \subseteq DOMAIN enrichmentTasks
    BY DEF StrandedRows, StrandedTasks, Stranded
  <2>3. QED
    BY <2>1, <2>2, FiniteRows
<1>5. /\ LivesEnded(deliveryWorker) = LivesOf(restarts, Alive, deliveryWorker)
      /\ LivesEnded(enrichmentWorker) = LivesOf(restarts, Alive, enrichmentWorker)
      /\ LivesEnded(deliveryWorker)' = LivesOf(restarts, Alive, deliveryWorker')
      /\ LivesEnded(enrichmentWorker)' = LivesOf(restarts, Alive, enrichmentWorker')
  BY DEF LivesEnded, LivesOf, Alive, Serves
<1>6. Cardinality(StrandedRows') <= LivesOf(restarts, Alive, deliveryWorker')
  <2>1. Cardinality(StrandedRows) <= LivesOf(restarts, Alive, deliveryWorker)
    BY <1>5 DEF StrandedInv, OneStrandedPerLife, StrandedRows
  <2>2. QED
    BY <1>2, <1>3, <1>4, <2>1, ServingStrands DEF Serves, StrandsRow
<1>7. Cardinality(StrandedTasks') <= LivesOf(restarts, Alive, enrichmentWorker')
  <2>1. Cardinality(StrandedTasks) <= LivesOf(restarts, Alive, enrichmentWorker)
    BY <1>5 DEF StrandedInv, OneStrandedPerLife, StrandedTasks
  <2>2. QED
    BY <1>2, <1>3, <1>4, <2>1, ServingStrands DEF Serves, StrandsTask
<1>8. OneStrandedPerLife'
  BY <1>5, <1>6, <1>7 DEF OneStrandedPerLife, StrandedRows, StrandedTasks
<1>9. DownIsIdle'
  BY DEF StrandedInv, DownIsIdle, Serves
<1>10. QED
  BY <1>8, <1>9 DEF StrandedInv

\* Ends and starts of one.
LEMMA NewLifeStrands ==
  ASSUME ServiceInv, ControlOK, StrandedInv, Ends \/ Lives
  PROVE  StrandedInv'
<1>1. TypeOK
  BY DEF ServiceInv, RowsInv
<1>2. /\ UNCHANGED <<deliveries, enrichmentTasks>>
      /\ handler' = HandlerIdle
      /\ deliveryWorker' = DeliveryIdle
      /\ enrichmentWorker' = EnrichmentIdle
  BY DEF Ends, Lives, NewLife, NewProcess, tables
<1>3. restarts \in Nat
  BY BridgeAssumption DEF ControlOK
<1>4. /\ DeliveryIdle.pc \notin DeliveryBusy /\ "returned" \notin DeliveryBusy
      /\ EnrichmentIdle.pc \notin EnrichmentBusy /\ "returned" \notin EnrichmentBusy
      /\ DeliveryIdle.pc # "returned" /\ EnrichmentIdle.pc # "returned"
  BY DEF DeliveryIdle, DeliveryBusy, EnrichmentIdle, EnrichmentBusy
<1>5. DownIsIdle'
  BY <1>2 DEF DownIsIdle
<1>6. CASE Ends
  <2>1. /\ LivesEnded(deliveryWorker) = LivesOf(restarts, TRUE, deliveryWorker)
        /\ LivesEnded(enrichmentWorker) = LivesOf(restarts, TRUE, enrichmentWorker)
        /\ LivesEnded(deliveryWorker)' = restarts + 1
        /\ LivesEnded(enrichmentWorker)' = restarts + 1
    BY <1>6 DEF LivesEnded, LivesOf, Ends, Alive
  <2>2. /\ IsFiniteSet(Stranded(deliveries, deliveryWorker, DeliveryBusy))
        /\ IsFiniteSet(Stranded(enrichmentTasks, enrichmentWorker, EnrichmentBusy))
    <3>1. deliveries \in Seq(Delivery) /\ enrichmentTasks \in Seq(EnrichmentTask)
      BY <1>1 DEF TypeOK, TablesOK
    <3>2. QED
      BY <3>1, FiniteRows DEF Stranded
  <2>3. Cardinality(Stranded(deliveries, DeliveryIdle, DeliveryBusy)) <= restarts + 1
    BY <1>3, <1>4, <2>1, <2>2, EndingStrands DEF StrandedInv, OneStrandedPerLife
  <2>4. Cardinality(Stranded(enrichmentTasks, EnrichmentIdle, EnrichmentBusy)) <= restarts + 1
    BY <1>3, <1>4, <2>1, <2>2, EndingStrands DEF StrandedInv, OneStrandedPerLife
  <2>5. OneStrandedPerLife'
    BY <1>2, <2>1, <2>3, <2>4 DEF OneStrandedPerLife
  <2>6. QED
    BY <1>5, <2>5 DEF StrandedInv
<1>7. CASE Lives
  <2>1. deliveryWorker = DeliveryIdle /\ enrichmentWorker = EnrichmentIdle
    BY <1>7 DEF StrandedInv, DownIsIdle, Lives
  <2>2. /\ LivesEnded(deliveryWorker)' = LivesEnded(deliveryWorker)
        /\ LivesEnded(enrichmentWorker)' = LivesEnded(enrichmentWorker)
    BY <1>2, <1>3, <1>4, <1>7, <2>1 DEF LivesEnded, Lives, Alive
  <2>3. OneStrandedPerLife'
    BY <1>2, <2>1, <2>2 DEF StrandedInv, OneStrandedPerLife
  <2>4. QED
    BY <1>5, <2>3 DEF StrandedInv
<1>8. QED
  BY <1>6, <1>7

LEMMA InitStranded == BridgeInit => StrandedInv
<1> SUFFICES ASSUME BridgeInit PROVE StrandedInv
  OBVIOUS
<1>1. DownIsIdle
  BY DEF BridgeInit, DownIsIdle, Alive
<1>2. /\ Stranded(deliveries, deliveryWorker, DeliveryBusy) = {}
      /\ Stranded(enrichmentTasks, enrichmentWorker, EnrichmentBusy) = {}
  BY DEF BridgeInit, Init, Stranded
<1>3. LivesEnded(deliveryWorker) \in Nat /\ LivesEnded(enrichmentWorker) \in Nat
  BY DEF BridgeInit, LivesEnded
<1>4. OneStrandedPerLife
  BY <1>2, <1>3, FS_EmptySet DEF OneStrandedPerLife
<1>5. QED
  BY <1>1, <1>4 DEF StrandedInv

LEMMA StrandedInvariant == BridgeSpec => []StrandedInv
<1>1. ServiceInv /\ ControlOK /\ StrandedInv /\ [BridgeNext]_bridge => StrandedInv'
  <2> SUFFICES ASSUME ServiceInv, ControlOK, StrandedInv, [BridgeNext]_bridge
               PROVE  StrandedInv'
    OBVIOUS
  <2>1. Serves \/ Ends \/ Lives
    BY BridgeSteps DEF ServiceInv, RowsInv
  <2>2. QED
    BY <2>1, ServesStrands, NewLifeStrands
<1>2. QED
  BY <1>1, InitStranded, BridgeInvariant, PTL DEF BridgeSpec

-----------------------------------------------------------------------------
(* What the lives leave unqueued *)

InHand(m) == handler.pc # "idle" /\ handler.msg = m

HasTask(m, url) ==
  \E t \in DOMAIN enrichmentTasks : enrichmentTasks[t].msg = m /\ enrichmentTasks[t].url = url

\* How far the handler has come with its message.
HandlerInv ==
  LET urls == messages[handler.msg].urls
  IN  /\ handler.pc = "original" => handler.left = urls
      /\ handler.pc = "links" =>
           /\ HasOriginal(handler.msg)
           /\ \A k \in DOMAIN urls :
                \/ HasTask(handler.msg, urls[k])
                \/ \E j \in DOMAIN handler.left : handler.left[j] = urls[k]

\* UnfinishedBounded's bound, and a little less: the message a cancelled or ended
\* life may drop is counted once the handler has dropped it.
Dropped == IF (ctxDone \/ ~Alive) /\ handler.pc = "idle" THEN 1 ELSE 0
Losses == faults + restarts + Dropped

UnfinishedInv == HandlerInv /\ Cardinality(Unfinished) <= Losses

\* A step leaves one more message unfinished only if it also counts one loss more.
LosesCounted ==
  \/ Unfinished' \subseteq Unfinished /\ Losses <= Losses'
  \/ Losses + 1 <= Losses' /\ \E m : Unfinished' \subseteq Unfinished \cup {m}

\* Rows and tasks are added, never removed, and stay about the same message.
QueuesGrow ==
  /\ \A j \in DOMAIN deliveries :
       j \in DOMAIN deliveries' /\ SameRow(deliveries[j], deliveries'[j])
  /\ \A t \in DOMAIN enrichmentTasks :
       /\ t \in DOMAIN enrichmentTasks'
       /\ enrichmentTasks'[t].msg = enrichmentTasks[t].msg
       /\ enrichmentTasks'[t].url = enrichmentTasks[t].url

LEMMA NextGrows ==
  ASSUME TypeOK, [Next]_vars
  PROVE  QueuesGrow
<1>1. deliveries \in Seq(Delivery) /\ enrichmentTasks \in Seq(EnrichmentTask)
  BY DEF TypeOK, TablesOK
<1>2. ASSUME \/ deliveries' = deliveries
             \/ \E row : deliveries' = Append(deliveries, row)
             \/ /\ DOMAIN deliveries' = DOMAIN deliveries
                /\ \A j \in DOMAIN deliveries : SameRow(deliveries[j], deliveries'[j]),
             \/ enrichmentTasks' = enrichmentTasks
             \/ \E row : enrichmentTasks' = Append(enrichmentTasks, row)
             \/ /\ DOMAIN enrichmentTasks' = DOMAIN enrichmentTasks
                /\ \A t \in DOMAIN enrichmentTasks :
                     /\ enrichmentTasks'[t].msg = enrichmentTasks[t].msg
                     /\ enrichmentTasks'[t].url = enrichmentTasks[t].url
      PROVE  QueuesGrow
  <2>1. \A j \in DOMAIN deliveries :
          j \in DOMAIN deliveries' /\ SameRow(deliveries[j], deliveries'[j])
    <3>1. CASE \E row : deliveries' = Append(deliveries, row)
      BY <1>1, <3>1 DEF SameRow
    <3>2. QED
      BY <1>2, <3>1 DEF SameRow
  <2>2. \A t \in DOMAIN enrichmentTasks :
          /\ t \in DOMAIN enrichmentTasks'
          /\ enrichmentTasks'[t].msg = enrichmentTasks[t].msg
          /\ enrichmentTasks'[t].url = enrichmentTasks[t].url
    <3>1. CASE \E row : enrichmentTasks' = Append(enrichmentTasks, row)
      BY <1>1, <3>1
    <3>2. QED
      BY <1>2, <3>1
  <2>3. QED
    BY <2>1, <2>2 DEF QueuesGrow
<1>3. CASE DeliveryStep \/ DeliveryBackoffElapses
  <2>1. enrichmentTasks' = enrichmentTasks
    BY <1>3 DEF DeliveryStep, DeliveryCanceled, ClaimDelivery, ReleaseDelivery, StartSend,
                SendReturns, MarkDeliveryDone, RetryOrFailDelivery, SettleDelivery,
                DeliveryBackoffElapses, tables
  <2>2. QED
    BY <1>2, <1>3, <2>1, WorkerKeepsRows
<1>4. CASE EnrichmentStep \/ EnrichmentBackoffElapses
  <2>1. deliveries' = deliveries \/ \E row : deliveries' = Append(deliveries, row)
    BY <1>4 DEF EnrichmentStep, EnrichmentCanceled, ClaimEnrichment, ReleaseEnrichment,
                StartFetch, FetchReturns, RecordPage, EnqueueEnriched, MarkEnrichmentDone,
                RetryOrFailEnrichment, SettleEnrichment, EnrichmentBackoffElapses, tables,
                EnqueueDelivery
  <2>2. QED
    BY <1>2, <1>4, <2>1, WorkerKeepsTasks
<1>5. CASE EnqueueOriginal \/ EnqueueLink
  BY <1>2, <1>5 DEF EnqueueOriginal, EnqueueLink, EnqueueDelivery, EnqueueEnrichment
<1>6. CASE (\E n \in Notification : ReceiveNotification(n)) \/ Cancel \/ UNCHANGED vars
  BY <1>2, <1>6 DEF ReceiveNotification, Cancel, vars, tables
<1>7. QED
  BY <1>3, <1>4, <1>5, <1>6 DEF Next, HandlerStep, BackoffElapses

\* What was queued for a message stays queued.
LEMMA StillQueued ==
  ASSUME QueuesGrow, NEW m
  PROVE  /\ HasOriginal(m) => HasOriginal(m)'
         /\ \A url : HasTask(m, url) => HasTask(m, url)'
BY DEF QueuesGrow, HasOriginal, HasTask, SameRow

LEMMA IsQueuedStays ==
  ASSUME QueuesGrow, NEW m, messages'[m] = messages[m], IsQueued(m)
  PROVE  IsQueued(m)'
<1>1. HasOriginal(m)'
  BY StillQueued DEF IsQueued
<1>2. \A k \in DOMAIN messages[m].urls : HasTask(m, messages[m].urls[k])'
  BY StillQueued DEF IsQueued, HasTask
<1>3. QED
  BY <1>1, <1>2 DEF IsQueued, HasTask

\* A step that keeps the stored messages and the handler where it is.
LEMMA QuietStep ==
  ASSUME ServiceInv, UnfinishedInv, QueuesGrow, UNCHANGED <<messages, handler>>,
         Losses <= Losses'
  PROVE  HandlerInv' /\ LosesCounted
<1>1. HandlerInv'
  BY StillQueued DEF UnfinishedInv, HandlerInv
<1>2. Unfinished' \subseteq Unfinished
  BY IsQueuedStays DEF Unfinished
<1>3. QED
  BY <1>1, <1>2 DEF LosesCounted

\* A handler that goes on, or lets go of a message, harms no other message.
LEMMA LettingGo ==
  ASSUME QueuesGrow, messages' = messages, NEW m, m = handler.msg
  PROVE  /\ Unfinished' \subseteq Unfinished \cup {m}
         /\ IsQueued(m)' \/ InHand(m)' => Unfinished' \subseteq Unfinished
<1>1. \A n \in Unfinished' : n \in DOMAIN messages /\ ~IsQueued(n)
  BY IsQueuedStays DEF Unfinished
<1>2. \A n \in Unfinished' : n \in Unfinished \cup {m}
  BY <1>1 DEF Unfinished
<1>3. IsQueued(m)' \/ InHand(m)' => m \notin Unfinished'
  BY DEF Unfinished, InHand
<1>4. QED
  BY <1>2, <1>3

LEMMA NotificationCounted ==
  ASSUME ServiceInv, ControlOK, DownIsIdle, UnfinishedInv, Serves,
         NEW n \in Notification, ReceiveNotification(n)
  PROVE  HandlerInv' /\ LosesCounted
<1>1. /\ messages \in Seq(Notification) /\ faults \in Nat /\ restarts \in Nat
      /\ ctxDone \in BOOLEAN
  BY BoundsAssumption, BridgeAssumption
     DEF ServiceInv, RowsInv, TypeOK, TablesOK, BoundsOK, ControlOK
<1>2. /\ handler.pc = "idle"
      /\ UNCHANGED <<ctxDone, restarts, deliveries, enrichmentTasks>>
      /\ Alive' = Alive
  BY DEF ReceiveNotification, Serves
<1>3. \A m : UNCHANGED messages[m] => IsQueued(m)' = IsQueued(m)
  BY <1>2 DEF IsQueued, HasOriginal
<1>4. CASE messages' = messages /\ handler'.pc = "idle" /\ faults' \in {faults, faults + 1}
  <2>1. HandlerInv'
    BY <1>4 DEF HandlerInv
  <2>2. Unfinished' \subseteq Unfinished
    BY <1>2, <1>3, <1>4 DEF Unfinished
  <2>3. \/ Dropped = 0 /\ Dropped' = 0
        \/ Dropped = 1 /\ Dropped' = 1
    BY <1>2, <1>4 DEF Dropped
  <2>4. /\ faults \in Nat /\ faults' \in Nat /\ faults <= faults'
        /\ restarts \in Nat /\ restarts' = restarts
    BY <1>1, <1>2, <1>4
  <2>5. Losses <= Losses'
    BY <2>3, <2>4 DEF Losses
  <2>6. QED
    BY <2>1, <2>2, <2>5 DEF LosesCounted
<1>5. ASSUME messages' = Append(messages, n)
      PROVE  /\ Unfinished' \subseteq Unfinished \cup {Len(messages) + 1}
             /\ Len(messages') = Len(messages) + 1
             /\ messages'[Len(messages) + 1] = n
  <2>1. /\ Len(messages') = Len(messages) + 1
        /\ messages'[Len(messages) + 1] = n
        /\ DOMAIN messages' \subseteq DOMAIN messages \cup {Len(messages) + 1}
        /\ \A m \in DOMAIN messages : messages'[m] = messages[m]
    BY <1>1, <1>5
  <2>2. QED
    BY <1>2, <1>3, <2>1 DEF Unfinished
<1>6. CASE /\ messages' = Append(messages, n) /\ ~ctxDone /\ faults' = faults
           /\ handler' = [pc |-> "original", msg |-> Len(messages'), left |-> n.urls]
  <2>1. HandlerInv'
    BY <1>5, <1>6 DEF HandlerInv
  <2>2. Len(messages) + 1 \notin Unfinished'
    BY <1>5, <1>6 DEF Unfinished
  <2>3. Unfinished' \subseteq Unfinished
    BY <1>5, <1>6, <2>2
  <2>4. Alive
    BY <1>2, <1>6 DEF Serves
  <2>5. Losses <= Losses'
    BY <1>1, <1>2, <1>6, <2>4 DEF Losses, Dropped
  <2>6. QED
    BY <2>1, <2>3, <2>5 DEF LosesCounted
<1>7. CASE messages' = Append(messages, n) /\ handler' = handler /\ faults' = faults + 1
  <2>1. HandlerInv'
    BY <1>2, <1>7 DEF HandlerInv
  <2>2. Losses + 1 <= Losses'
    BY <1>1, <1>2, <1>7 DEF Losses, Dropped
  <2>3. QED
    BY <1>5, <1>7, <2>1, <2>2 DEF LosesCounted
<1>8. QED
  BY <1>2, <1>4, <1>6, <1>7
     DEF ReceiveNotification, SaveMessage, StoreFails, HandlerIdle

\* A step of the handler that gives its message up counts one loss more.
LEMMA GivingUp ==
  ASSUME ServiceInv, ControlOK, DownIsIdle, QueuesGrow, messages' = messages, Serves,
         UNCHANGED ctxDone, handler.pc # "idle", handler' = HandlerIdle,
         (ctxDone /\ faults' = faults) \/ StoreFails
  PROVE  HandlerInv' /\ LosesCounted
<1>1. faults \in Nat /\ restarts \in Nat /\ ctxDone \in BOOLEAN
  BY BoundsAssumption, BridgeAssumption
     DEF ServiceInv, RowsInv, TypeOK, BoundsOK, ControlOK
<1>2. HandlerInv'
  BY DEF HandlerInv, HandlerIdle
<1>3. Losses + 1 <= Losses'
  BY <1>1 DEF Losses, Dropped, StoreFails, HandlerIdle, Serves
<1>4. \E m : Unfinished' \subseteq Unfinished \cup {m}
  <2>1. PICK m : m = handler.msg
    OBVIOUS
  <2>2. QED
    BY <2>1, LettingGo
<1>5. QED
  BY <1>2, <1>3, <1>4 DEF LosesCounted

\* A step that queues something and goes on, or is finished with the message.
LEMMA GoingOn ==
  ASSUME ServiceInv, ControlOK, QueuesGrow, messages' = messages, Serves,
         UNCHANGED <<ctxDone, faults>>, handler.pc # "idle",
         NEW m, m = handler.msg, IsQueued(m)' \/ InHand(m)'
  PROVE  LosesCounted
<1>1. faults \in Nat /\ restarts \in Nat /\ ctxDone \in BOOLEAN
  BY BoundsAssumption, BridgeAssumption
     DEF ServiceInv, RowsInv, TypeOK, BoundsOK, ControlOK
<1>2. Losses <= Losses'
  BY <1>1 DEF Losses, Dropped, Serves
<1>3. Unfinished' \subseteq Unfinished
  BY LettingGo
<1>4. QED
  BY <1>2, <1>3 DEF LosesCounted

LEMMA OriginalCounted ==
  ASSUME ServiceInv, ControlOK, DownIsIdle, UnfinishedInv, QueuesGrow, Serves,
         EnqueueOriginal
  PROVE  HandlerInv' /\ LosesCounted
<1>1. /\ handler.pc = "original" /\ messages' = messages /\ UNCHANGED ctxDone
      /\ enrichmentTasks' = enrichmentTasks
      /\ handler \in Handler /\ messages[handler.msg].urls \in Seq(Url)
      /\ deliveries \in Seq(Delivery)
  BY NotificationAssumption
     DEF EnqueueOriginal, ServiceInv, RowsInv, TypeOK, HandlerOK, TablesOK
<1>2. CASE handler' = HandlerIdle /\ ((ctxDone /\ faults' = faults) \/ StoreFails)
  BY <1>1, <1>2, GivingUp
<1>3. CASE /\ deliveries' = EnqueueDelivery(deliveries, handler.msg, "original",
                                            OriginalPayload(messages[handler.msg]))
           /\ handler' = AtLinks(handler.left) /\ faults' = faults
  <2>1. PICK m : m = handler.msg
    OBVIOUS
  <2>2. HasOriginal(m)'
    <3>1. CASE /\ deliveries' = deliveries
               /\ \E i \in DOMAIN deliveries :
                    deliveries[i].msg = m /\ deliveries[i].kind = "original"
      BY <3>1 DEF HasOriginal
    <3>2. ASSUME NEW row, deliveries' = Append(deliveries, row),
                 row.msg = m, row.kind = "original"
          PROVE  HasOriginal(m)'
      <4>1. /\ Len(deliveries) + 1 \in DOMAIN deliveries'
            /\ deliveries'[Len(deliveries) + 1] = row
        BY <1>1, <3>2
      <4>2. QED
        BY <3>2, <4>1 DEF HasOriginal
    <3>3. QED
      BY <1>3, <2>1, <3>1, <3>2 DEF EnqueueDelivery
  <2>3. handler.left = messages[m].urls
    BY <1>1, <2>1 DEF UnfinishedInv, HandlerInv
  <2>4. CASE handler.left = <<>>
    <3>1. IsQueued(m)'
      BY <1>1, <2>2, <2>3, <2>4 DEF IsQueued
    <3>2. HandlerInv'
      BY <1>3, <2>4 DEF HandlerInv, AtLinks, HandlerIdle
    <3>3. QED
      BY <1>1, <1>3, <2>1, <3>1, <3>2, GoingOn
  <2>5. CASE handler.left # <<>>
    <3>1. handler' = [pc |-> "links", msg |-> m, left |-> messages[m].urls]
      BY <1>1, <1>3, <2>1, <2>3, <2>5 DEF AtLinks, Handler
    <3>2. InHand(m)'
      BY <3>1 DEF InHand
    <3>3. HandlerInv'
      BY <1>1, <2>2, <3>1 DEF HandlerInv, HasOriginal
    <3>4. QED
      BY <1>1, <1>3, <2>1, <3>2, <3>3, GoingOn
  <2>6. QED
    BY <2>4, <2>5
<1>4. QED
  BY <1>2, <1>3 DEF EnqueueOriginal

LEMMA LinkCounted ==
  ASSUME ServiceInv, ControlOK, DownIsIdle, UnfinishedInv, QueuesGrow, Serves,
         EnqueueLink
  PROVE  HandlerInv' /\ LosesCounted
<1>1. /\ handler.pc = "links" /\ messages' = messages /\ UNCHANGED ctxDone
      /\ handler \in Handler /\ handler.left \in Seq(Url) /\ handler.left # <<>>
      /\ messages[handler.msg].urls \in Seq(Url)
      /\ enrichmentTasks \in Seq(EnrichmentTask)
  BY NotificationAssumption
     DEF EnqueueLink, ServiceInv, RowsInv, TypeOK, HandlerOK, TablesOK, Handler
<1>2. CASE handler' = HandlerIdle /\ ((ctxDone /\ faults' = faults) \/ StoreFails)
  BY <1>1, <1>2, GivingUp
<1>3. CASE /\ enrichmentTasks' = EnqueueEnrichment(enrichmentTasks, handler.msg,
                                                   Head(handler.left))
           /\ handler' = AtLinks(Tail(handler.left)) /\ faults' = faults
  <2>1. PICK m : m = handler.msg
    OBVIOUS
  <2> DEFINE urls == messages[m].urls
             left == handler.left
  <2>2. HasOriginal(m) /\ \A k \in DOMAIN urls :
          HasTask(m, urls[k]) \/ \E j \in DOMAIN left : left[j] = urls[k]
    BY <1>1, <2>1 DEF UnfinishedInv, HandlerInv
  <2>3. \A url : url = Head(left) => HasTask(m, url)'
    <3> SUFFICES ASSUME NEW url, url = Head(left) PROVE HasTask(m, url)'
      OBVIOUS
    <3>1. CASE /\ enrichmentTasks' = enrichmentTasks
               /\ \E t \in DOMAIN enrichmentTasks :
                    enrichmentTasks[t].msg = m /\ enrichmentTasks[t].url = url
      BY <3>1 DEF HasTask
    <3>2. ASSUME NEW task, enrichmentTasks' = Append(enrichmentTasks, task),
                 task.msg = m, task.url = url
          PROVE  HasTask(m, url)'
      <4>1. /\ Len(enrichmentTasks) + 1 \in DOMAIN enrichmentTasks'
            /\ enrichmentTasks'[Len(enrichmentTasks) + 1] = task
        BY <1>1, <3>2
      <4>2. QED
        BY <3>2, <4>1 DEF HasTask
    <3>3. QED
      BY <1>3, <2>1, <3>1, <3>2 DEF EnqueueEnrichment
  <2>4. HasOriginal(m)' /\ \A url : HasTask(m, url) => HasTask(m, url)'
    BY <2>2, StillQueued
  <2>5. \A j \in DOMAIN left :
          left[j] = Head(left) \/ \E i \in DOMAIN Tail(left) : Tail(left)[i] = left[j]
    <3> SUFFICES ASSUME NEW j \in DOMAIN left
                 PROVE  \/ left[j] = Head(left)
                        \/ \E i \in DOMAIN Tail(left) : Tail(left)[i] = left[j]
      OBVIOUS
    <3>1. CASE j = 1
      BY <1>1, <3>1
    <3>2. CASE j # 1
      <4>1. j - 1 \in DOMAIN Tail(left) /\ Tail(left)[j - 1] = left[j]
        BY <1>1, <3>2
      <4>2. QED
        BY <4>1
    <3>3. QED
      BY <3>1, <3>2
  <2>6. \A k \in DOMAIN urls :
          \/ HasTask(m, urls[k])'
          \/ \E i \in DOMAIN Tail(left) : Tail(left)[i] = urls[k]
    <3> SUFFICES ASSUME NEW k \in DOMAIN urls
                 PROVE  \/ HasTask(m, urls[k])'
                        \/ \E i \in DOMAIN Tail(left) : Tail(left)[i] = urls[k]
      OBVIOUS
    <3>1. CASE HasTask(m, urls[k])
      BY <2>4, <3>1, <1>1 DEF HasTask
    <3>2. CASE \E j \in DOMAIN left : left[j] = urls[k]
      <4>1. PICK j \in DOMAIN left : left[j] = urls[k]
        BY <3>2
      <4>2. CASE left[j] = Head(left)
        BY <1>1, <2>3, <4>1, <4>2 DEF HasTask
      <4>3. CASE \E i \in DOMAIN Tail(left) : Tail(left)[i] = left[j]
        BY <4>1, <4>3
      <4>4. QED
        BY <2>5, <4>2, <4>3
    <3>3. QED
      BY <2>2, <3>1, <3>2
  <2>7. CASE Tail(left) = <<>>
    <3>1. IsQueued(m)'
      BY <1>1, <2>4, <2>6, <2>7 DEF IsQueued, HasTask
    <3>2. HandlerInv'
      BY <1>3, <2>7 DEF HandlerInv, AtLinks, HandlerIdle
    <3>3. QED
      BY <1>1, <1>3, <2>1, <3>1, <3>2, GoingOn
  <2>8. CASE Tail(left) # <<>>
    <3>1. handler' = [pc |-> "links", msg |-> m, left |-> Tail(left)]
      BY <1>1, <1>3, <2>1, <2>8 DEF AtLinks, Handler
    <3>2. InHand(m)'
      BY <3>1 DEF InHand
    <3>3. HandlerInv'
      BY <1>1, <2>4, <2>6, <3>1 DEF HandlerInv, HasTask, HasOriginal
    <3>4. QED
      BY <1>1, <1>3, <2>1, <3>2, <3>3, GoingOn
  <2>9. QED
    BY <2>7, <2>8
<1>4. QED
  BY <1>2, <1>3 DEF EnqueueLink

\* LosesCounted keeps the count within the losses.
LEMMA CountedStays ==
  ASSUME NEW old, IsFiniteSet(old), NEW new, NEW b \in Nat, NEW c \in Nat,
         Cardinality(old) <= b,
         \/ new \subseteq old /\ b <= c
         \/ b + 1 <= c /\ \E m : new \subseteq old \cup {m}
  PROVE  Cardinality(new) <= c
<1>1. Cardinality(old) \in Nat
  BY FS_CardinalityType
<1>2. IsFiniteSet(new) /\ Cardinality(new) \in Nat
  <2>1. \A m : IsFiniteSet(old \cup {m})
    BY FS_AddElement
  <2>2. IsFiniteSet(new)
    BY <2>1, FS_Subset
  <2>3. QED
    BY <2>2, FS_CardinalityType
<1>3. CASE new \subseteq old /\ b <= c
  <2>1. Cardinality(new) <= Cardinality(old)
    BY <1>3, NoMoreElements
  <2>2. QED
    BY <1>1, <1>2, <1>3, <2>1
<1>4. CASE b + 1 <= c /\ \E m : new \subseteq old \cup {m}
  <2>1. Cardinality(new) <= Cardinality(old) + 1
    BY <1>4, OneMoreElement
  <2>2. QED
    BY <1>1, <1>2, <1>4, <2>1
<1>5. QED
  BY <1>3, <1>4

\* A worker's step writes neither the messages nor the handler.
LEMMA WorkersAreQuiet ==
  ASSUME faults \in Nat,
         DeliveryStep \/ EnrichmentStep \/ BackoffElapses \/ Cancel \/ UNCHANGED vars
  PROVE  /\ UNCHANGED <<messages, handler>>
         /\ faults' \in {faults, faults + 1}
         /\ ctxDone => ctxDone'
<1>1. ASSUME NEW table, NEW after,
             SettleDelivery(table, after) \/ SettleEnrichment(table, after)
      PROVE  UNCHANGED <<messages, handler, ctxDone>> /\ faults' \in {faults, faults + 1}
  BY <1>1 DEF SettleDelivery, SettleEnrichment, StoreFails
<1>2. CASE ReleaseDelivery \/ MarkDeliveryDone \/ RetryOrFailDelivery
  BY <1>1, <1>2 DEF ReleaseDelivery, MarkDeliveryDone, RetryOrFailDelivery
<1>3. CASE ReleaseEnrichment \/ RetryOrFailEnrichment
  BY <1>1, <1>3 DEF ReleaseEnrichment, RetryOrFailEnrichment
<1>4. CASE ClaimDelivery \/ ClaimEnrichment
  BY <1>4 DEF ClaimDelivery, ClaimEnrichment, StoreFails
<1>5. CASE RecordPage \/ EnqueueEnriched \/ MarkEnrichmentDone
  BY <1>5 DEF RecordPage, EnqueueEnriched, MarkEnrichmentDone, StoreFails
<1>6. CASE DeliveryCanceled \/ StartSend \/ SendReturns
  <2>1. UNCHANGED <<messages, handler, ctxDone, faults>>
    BY <1>6 DEF DeliveryCanceled, StartSend, SendReturns, tables
  <2>2. QED
    BY <2>1
<1>7. CASE EnrichmentCanceled \/ StartFetch \/ FetchReturns
  <2>1. UNCHANGED <<messages, handler, ctxDone, faults>>
    BY <1>7 DEF EnrichmentCanceled, StartFetch, FetchReturns, tables
  <2>2. QED
    BY <2>1
<1>8. CASE BackoffElapses \/ Cancel \/ UNCHANGED vars
  BY <1>8 DEF BackoffElapses, DeliveryBackoffElapses, EnrichmentBackoffElapses, Cancel,
              vars, tables
<1>9. \/ ReleaseDelivery \/ MarkDeliveryDone \/ RetryOrFailDelivery
      \/ ReleaseEnrichment \/ RetryOrFailEnrichment
      \/ ClaimDelivery \/ ClaimEnrichment
      \/ RecordPage \/ EnqueueEnriched \/ MarkEnrichmentDone
      \/ DeliveryCanceled \/ StartSend \/ SendReturns
      \/ EnrichmentCanceled \/ StartFetch \/ FetchReturns
      \/ BackoffElapses \/ Cancel \/ UNCHANGED vars
  BY DEF DeliveryStep, EnrichmentStep
<1>10. QED
  BY <1>2, <1>3, <1>4, <1>5, <1>6, <1>7, <1>8, <1>9

LEMMA ServesCounted ==
  ASSUME ServiceInv, ControlOK, DownIsIdle, UnfinishedInv, Serves
  PROVE  HandlerInv' /\ LosesCounted
<1>1. QueuesGrow
  BY NextGrows DEF ServiceInv, RowsInv, Serves
<1>2. CASE \E n \in Notification : ReceiveNotification(n)
  BY <1>2, NotificationCounted
<1>3. CASE EnqueueOriginal \/ EnqueueLink
  BY <1>1, <1>3, OriginalCounted, LinkCounted
<1>4. CASE DeliveryStep \/ EnrichmentStep \/ BackoffElapses \/ Cancel \/ UNCHANGED vars
  <2>1. /\ faults \in Nat /\ restarts \in Nat /\ restarts' = restarts /\ Alive' = Alive
        /\ ctxDone \in BOOLEAN
    BY BoundsAssumption, BridgeAssumption
       DEF ServiceInv, RowsInv, TypeOK, BoundsOK, ControlOK, Serves
  <2>2. /\ UNCHANGED <<messages, handler>> /\ faults' \in {faults, faults + 1}
        /\ ctxDone => ctxDone'
    BY <1>4, <2>1, WorkersAreQuiet
  <2>3. \/ Dropped = 0 /\ Dropped' = 0
        \/ Dropped = 0 /\ Dropped' = 1
        \/ Dropped = 1 /\ Dropped' = 1
    BY <2>1, <2>2 DEF Dropped
  <2>4. Losses <= Losses'
    BY <2>1, <2>2, <2>3 DEF Losses
  <2>5. QED
    BY <1>1, <2>2, <2>4, QuietStep
<1>5. QED
  BY <1>2, <1>3, <1>4 DEF Serves, Next, HandlerStep

\* The end of a life lets go of the message in hand, and the next life pays for it.
LEMMA LivesCounted ==
  ASSUME ServiceInv, ControlOK, DownIsIdle, UnfinishedInv, Ends \/ Lives
  PROVE  HandlerInv' /\ LosesCounted
<1>1. /\ faults \in Nat /\ faults' = faults /\ restarts \in Nat
      /\ messages' = messages /\ deliveries' = deliveries
      /\ enrichmentTasks' = enrichmentTasks /\ handler'.pc = "idle"
  BY BoundsAssumption, BridgeAssumption
     DEF ServiceInv, RowsInv, TypeOK, BoundsOK, ControlOK, Ends, Lives, NewLife, NewProcess,
         HandlerIdle, tables
<1>2. HandlerInv'
  BY <1>1 DEF HandlerInv
<1>3. QueuesGrow
  BY <1>1 DEF QueuesGrow, SameRow
<1>4. CASE handler.pc = "idle"
  <2>1. Unfinished' \subseteq Unfinished
    BY <1>1, <1>4 DEF Unfinished, IsQueued, HasOriginal
  <2>2. \/ /\ restarts' = restarts
           /\ Dropped \in {0, 1} /\ Dropped' = 1
        \/ /\ restarts' = restarts + 1
           /\ Dropped \in {0, 1} /\ Dropped' \in {0, 1}
    BY <1>1, <1>4 DEF Ends, Lives, Dropped
  <2>3. Losses <= Losses'
    BY <1>1, <2>2 DEF Losses
  <2>4. QED
    BY <1>2, <2>1, <2>3 DEF LosesCounted
<1>5. CASE handler.pc # "idle"
  <2>1. Dropped = 0 /\ Dropped' = 1 /\ restarts' = restarts
    BY <1>1, <1>5 DEF DownIsIdle, HandlerIdle, Ends, Lives, Dropped
  <2>2. Losses + 1 <= Losses'
    BY <1>1, <2>1 DEF Losses
  <2>3. \E m : Unfinished' \subseteq Unfinished \cup {m}
    <3>1. PICK m : m = handler.msg
      OBVIOUS
    <3>2. QED
      BY <1>1, <1>3, <3>1, LettingGo
  <2>4. QED
    BY <1>2, <2>2, <2>3 DEF LosesCounted
<1>6. QED
  BY <1>4, <1>5

LEMMA InitUnfinished == BridgeInit => UnfinishedInv
<1> SUFFICES ASSUME BridgeInit PROVE UnfinishedInv
  OBVIOUS
<1>1. HandlerInv
  BY DEF BridgeInit, Init, HandlerIdle, HandlerInv
<1>2. Unfinished = {}
  BY DEF BridgeInit, Init, Unfinished
<1>3. Losses = 0
  BY DEF BridgeInit, Init, Losses, Dropped, Alive
<1>4. QED
  BY <1>1, <1>2, <1>3, FS_EmptySet DEF UnfinishedInv

LEMMA UnfinishedInvariant == BridgeSpec => []UnfinishedInv
<1>1. ServiceInv /\ ControlOK /\ StrandedInv /\ UnfinishedInv /\ [BridgeNext]_bridge
        => UnfinishedInv'
  <2> SUFFICES ASSUME ServiceInv, ControlOK, StrandedInv, UnfinishedInv, [BridgeNext]_bridge
               PROVE  UnfinishedInv'
    OBVIOUS
  <2>1. HandlerInv' /\ LosesCounted
    <3>1. Serves \/ Ends \/ Lives
      BY BridgeSteps DEF ServiceInv, RowsInv
    <3>2. QED
      BY <3>1, ServesCounted, LivesCounted DEF StrandedInv
  <2>2. IsFiniteSet(Unfinished)
    <3>1. messages \in Seq(Notification)
      BY DEF ServiceInv, RowsInv, TypeOK, TablesOK
    <3>2. QED
      BY <3>1, FiniteRows DEF Unfinished
  <2>3. Losses \in Nat /\ Losses' \in Nat
    <3>1. TypeOK /\ TypeOK' /\ ControlOK'
      BY NextService, NextControl DEF ServiceInv, RowsInv
    <3>2. /\ faults \in Nat /\ faults' \in Nat
          /\ restarts \in Nat /\ restarts' \in Nat
      BY <3>1, BoundsAssumption, BridgeAssumption DEF TypeOK, BoundsOK, ControlOK
    <3>3. (Dropped = 0 \/ Dropped = 1) /\ (Dropped' = 0 \/ Dropped' = 1)
      BY DEF Dropped
    <3>4. QED
      BY <3>2, <3>3 DEF Losses
  <2>4. Cardinality(Unfinished') <= Losses'
    BY <2>1, <2>2, <2>3, CountedStays DEF UnfinishedInv, LosesCounted
  <2>5. QED
    BY <2>1, <2>4 DEF UnfinishedInv
<1>2. QED
  BY <1>1, InitUnfinished, StrandedInvariant, BridgeInvariant, PTL DEF BridgeSpec

-----------------------------------------------------------------------------
(* Theorems *)

\* The state of the process and of the database keep their types.
THEOREM BridgeTypeCorrect == BridgeSpec => []BridgeTypeOK
<1>1. ServiceInv /\ ControlOK => BridgeTypeOK
  BY DEF ServiceInv, RowsInv, BridgeTypeOK
<1>2. QED
  BY <1>1, BridgeInvariant, PTL

\* Across restarts too, a row is marked done only after the robot accepted it.
THEOREM DoneIsAcceptedByAnyLife == BridgeSpec => []DoneWasAccepted
BY BridgeInvariant, RowsInvImplies, PTL DEF ServiceInv

\* Restarting the process buys a row no request, and costs it none.
THEOREM RestartsKeepTheBudget == BridgeSpec => []DeliveryBudget
BY BridgeInvariant, RowsInvImplies, PTL DEF ServiceInv

\* Nor a link a fetch.
THEOREM RestartsKeepTheFetchBudget == BridgeSpec => []EnrichmentBudget
<1>1. RecordInv => EnrichmentBudget
  BY TasksInvImplies DEF RecordInv
<1>2. QED
  BY <1>1, BridgeInvariant, PTL DEF ServiceInv

\* A message id is forwarded by one original row at most, whenever it comes again.
THEOREM RestartsForwardOnce == BridgeSpec => []OneOriginalPerQid
BY BridgeInvariant, MessageInvImplies, PTL DEF ServiceInv

\* What is settled stays so across restarts.
THEOREM SettledSurvivesRestarts == BridgeSpec => SettledIsFinal
<1>1. ServiceInv /\ [BridgeNext]_bridge =>
        [\A i \in DOMAIN deliveries :
           /\ i \in DOMAIN deliveries'
           /\ Settled(deliveries[i]) => deliveries'[i].status = deliveries[i].status
           /\ deliveries'[i].attempts >= deliveries[i].attempts
           /\ deliveries'[i].msg = deliveries[i].msg
           /\ deliveries'[i].payload = deliveries[i].payload]_vars
  <2> SUFFICES ASSUME ServiceInv, [BridgeNext]_bridge PROVE NoRowUndone
    BY DEF NoRowUndone, Keeps
  <2>1. RowsInv /\ TypeOK
    BY DEF ServiceInv, RowsInv
  <2>2. CASE [Next]_vars
    BY <2>1, <2>2, NextKeeps
  <2>3. CASE NewLife
    BY <2>1, <2>3, UntouchedKeeps DEF NewLife, tables
  <2>4. QED
    BY <2>1, <2>2, <2>3, BridgeSteps DEF Serves, Ends, Lives
<1>2. QED
  BY <1>1, BridgeInvariant, PTL DEF BridgeSpec, SettledIsFinal

\* The process, with its crashes and restarts, implements the outbox.
THEOREM BridgeImplementsOutbox == BridgeSpec => ImplementsOutbox
<1>1. ServiceInv /\ [BridgeNext]_bridge => [Promise!Next]_Promise!outbox
  <2> SUFFICES ASSUME ServiceInv, [BridgeNext]_bridge PROVE [Promise!Next]_Promise!outbox
    OBVIOUS
  <2>1. RowsInv /\ RowsInv' /\ TypeOK /\ TypeOK'
    BY NextService DEF ServiceInv, RowsInv
  <2>2. CASE [Next]_vars
    BY <2>1, <2>2, NextRefines
  <2>3. CASE NewLife
    BY <2>1, <2>3, NewLifeRefines
  <2>4. QED
    BY <2>1, <2>2, <2>3, BridgeSteps DEF Serves, Ends, Lives
<1>2. BridgeInit => Promise!Init
  BY InitRefines DEF BridgeInit
<1>3. QED
  BY <1>1, <1>2, BridgeInvariant, PTL DEF BridgeSpec, ImplementsOutbox, Promise!Spec

\* However often the process ends, each life of a worker leaves one running row
\* behind at most.
THEOREM OneStrandedByEachLife == BridgeSpec => []OneStrandedPerLife
BY StrandedInvariant, PTL DEF StrandedInv

\* Each failed store call and each end of a run leaves one message unfinished at
\* most: whatever fails, the handler drops only the message it holds, and what it
\* has queued for others is never taken back.
THEOREM LossesAreBounded == BridgeSpec => []UnfinishedBounded
<1>1. ServiceInv /\ ControlOK /\ UnfinishedInv => UnfinishedBounded
  <2> SUFFICES ASSUME ServiceInv, ControlOK, UnfinishedInv PROVE UnfinishedBounded
    OBVIOUS
  <2>1. faults \in Nat /\ restarts \in Nat
    BY BoundsAssumption, BridgeAssumption
       DEF ServiceInv, RowsInv, TypeOK, BoundsOK, ControlOK
  <2>2. Cardinality(Unfinished) \in Nat
    <3>1. messages \in Seq(Notification)
      BY DEF ServiceInv, RowsInv, TypeOK, TablesOK
    <3>2. IsFiniteSet(Unfinished)
      BY <3>1, FiniteRows DEF Unfinished
    <3>3. QED
      BY <3>2, FS_CardinalityType
  <2>3. QED
    BY <2>1, <2>2 DEF UnfinishedInv, UnfinishedBounded, Losses, Dropped
<1>2. QED
  BY <1>1, UnfinishedInvariant, BridgeInvariant, PTL
=============================================================================
