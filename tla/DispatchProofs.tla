---------------------------- MODULE DispatchProofs ----------------------------
(***************************************************************************)
(* What the statements of Store do to tables of any length and rows of any *)
(* content, which the proofs about the service cite instead of the         *)
(* definitions; the types of the service; that a message id is forwarded   *)
(* by one original row at most; and of the delivery rows the budget of     *)
(* requests, what done means, who holds a running row, that what is        *)
(* settled stays so, and that they implement Outbox.  All of it for any    *)
(* notifications, links, pages, attempt limits, frames and store failures. *)
(***************************************************************************)
EXTENDS Dispatch, SequenceTheorems, TLAPS

-----------------------------------------------------------------------------
(* Updates of one row *)

\* Replacing one row of a table by a row of its type gives a table of its type,
\* with the same rows at every other place.
LEMMA UpdateRow ==
  ASSUME NEW S, NEW table \in Seq(S), NEW i \in DOMAIN table, NEW row \in S
  PROVE  /\ Update(table, i, row) \in Seq(S)
         /\ DOMAIN Update(table, i, row) = DOMAIN table
         /\ Update(table, i, row)[i] = row
         /\ \A j \in DOMAIN table : j # i => Update(table, i, row)[j] = table[j]
<1>1. i \in 1 .. Len(table)
  OBVIOUS
<1>2. Update(table, i, row) \in Seq(S)
  BY <1>1, ExceptSeq DEF Update
<1>3. QED
  BY <1>1, <1>2 DEF Update

\* What an update leaves at each place, whatever the row.
LEMMA UpdateAt ==
  ASSUME NEW table, NEW i \in DOMAIN table, NEW row
  PROVE  /\ DOMAIN Update(table, i, row) = DOMAIN table
         /\ Update(table, i, row)[i] = row
         /\ \A j : j \in DOMAIN table /\ j # i => Update(table, i, row)[j] = table[j]
BY DEF Update

\* The five update statements on delivery_attempts keep its type and its rows.
LEMMA UpdateDelivery ==
  ASSUME NEW table \in Seq(Delivery), NEW i \in DOMAIN table,
         NEW n \in Nat, NEW when \in When
  PROVE  /\ ClaimTask(table, i) \in Seq(Delivery)
         /\ DOMAIN ClaimTask(table, i) = DOMAIN table
         /\ MarkDone(table, i) \in Seq(Delivery)
         /\ DOMAIN MarkDone(table, i) = DOMAIN table
         /\ MarkFailed(table, i) \in Seq(Delivery)
         /\ DOMAIN MarkFailed(table, i) = DOMAIN table
         /\ MarkRetry(table, i, n, when) \in Seq(Delivery)
         /\ DOMAIN MarkRetry(table, i, n, when) = DOMAIN table
         /\ BecomeDue(table, i) \in Seq(Delivery)
         /\ DOMAIN BecomeDue(table, i) = DOMAIN table
<1>1. table[i] \in Delivery
  OBVIOUS
<1>2. /\ [table[i] EXCEPT !.status = "running"] \in Delivery
      /\ [table[i] EXCEPT !.status = "done"] \in Delivery
      /\ [table[i] EXCEPT !.status = "failed"] \in Delivery
      /\ [table[i] EXCEPT !.status = "pending", !.attempts = n, !.next = when] \in Delivery
      /\ [table[i] EXCEPT !.next = "past"] \in Delivery
  BY <1>1 DEF Delivery, TaskStatus, When
<1>3. QED
  BY <1>2, UpdateRow DEF ClaimTask, MarkDone, MarkFailed, MarkRetry, BecomeDue

\* The same statements on enrichment_tasks.
LEMMA UpdateEnrichmentTask ==
  ASSUME NEW table \in Seq(EnrichmentTask), NEW i \in DOMAIN table,
         NEW n \in Nat, NEW when \in When
  PROVE  /\ ClaimTask(table, i) \in Seq(EnrichmentTask)
         /\ DOMAIN ClaimTask(table, i) = DOMAIN table
         /\ MarkDone(table, i) \in Seq(EnrichmentTask)
         /\ DOMAIN MarkDone(table, i) = DOMAIN table
         /\ MarkFailed(table, i) \in Seq(EnrichmentTask)
         /\ DOMAIN MarkFailed(table, i) = DOMAIN table
         /\ MarkRetry(table, i, n, when) \in Seq(EnrichmentTask)
         /\ DOMAIN MarkRetry(table, i, n, when) = DOMAIN table
         /\ BecomeDue(table, i) \in Seq(EnrichmentTask)
         /\ DOMAIN BecomeDue(table, i) = DOMAIN table
<1>1. table[i] \in EnrichmentTask
  OBVIOUS
<1>2. /\ [table[i] EXCEPT !.status = "running"] \in EnrichmentTask
      /\ [table[i] EXCEPT !.status = "done"] \in EnrichmentTask
      /\ [table[i] EXCEPT !.status = "failed"] \in EnrichmentTask
      /\ [table[i] EXCEPT !.status = "pending", !.attempts = n, !.next = when] \in EnrichmentTask
      /\ [table[i] EXCEPT !.next = "past"] \in EnrichmentTask
  BY <1>1 DEF EnrichmentTask, TaskStatus, When
<1>3. QED
  BY <1>2, UpdateRow DEF ClaimTask, MarkDone, MarkFailed, MarkRetry, BecomeDue

-----------------------------------------------------------------------------
(* Inserts *)

\* Appending a row of the table's type leaves the rows before it alone.
LEMMA AddRow ==
  ASSUME NEW S, NEW table \in Seq(S), NEW row \in S
  PROVE  /\ Append(table, row) \in Seq(S)
         /\ DOMAIN table \subseteq DOMAIN Append(table, row)
         /\ DOMAIN Append(table, row) = DOMAIN table \cup {Len(table) + 1}
         /\ Len(table) + 1 \notin DOMAIN table
         /\ Append(table, row)[Len(table) + 1] = row
         /\ \A j \in DOMAIN table : Append(table, row)[j] = table[j]
BY AppendProperties

\* The row a delivery enters the table with.
NewDelivery(m, kind, payload) ==
  [msg |-> m, kind |-> kind, payload |-> payload,
   status |-> "pending", attempts |-> 0, next |-> "past"]

\* A delivery enters the table pending and due, with no attempts, and only if no
\* row with its message, kind and payload is there.
LEMMA InsertDelivery ==
  ASSUME NEW table \in Seq(Delivery),
         NEW m \in Nat, NEW kind \in DeliveryKind, NEW payload \in Payload
  PROVE  /\ NewDelivery(m, kind, payload) \in Delivery
         /\ EnqueueDelivery(table, m, kind, payload) \in Seq(Delivery)
         /\ DOMAIN table \subseteq DOMAIN EnqueueDelivery(table, m, kind, payload)
         /\ \/ EnqueueDelivery(table, m, kind, payload) = table
            \/ /\ EnqueueDelivery(table, m, kind, payload) =
                    Append(table, NewDelivery(m, kind, payload))
               /\ \A i \in DOMAIN table :
                    ~ /\ table[i].msg = m
                      /\ table[i].kind = kind
                      /\ table[i].payload = payload
<1>1. NewDelivery(m, kind, payload) \in Delivery
  BY DEF NewDelivery, Delivery, TaskStatus, When
<1>2. /\ Append(table, NewDelivery(m, kind, payload)) \in Seq(Delivery)
      /\ DOMAIN table \subseteq DOMAIN Append(table, NewDelivery(m, kind, payload))
  BY <1>1, AddRow
<1>3. EnqueueDelivery(table, m, kind, payload) =
        IF \E i \in DOMAIN table : /\ table[i].msg = m
                                   /\ table[i].kind = kind
                                   /\ table[i].payload = payload
        THEN table ELSE Append(table, NewDelivery(m, kind, payload))
  BY DEF EnqueueDelivery, NewDelivery
<1>4. QED
  BY <1>1, <1>2, <1>3

\* The row an enrichment task enters its table with.
NewEnrichmentTask(m, url) ==
  [msg |-> m, url |-> url, status |-> "pending", attempts |-> 0, next |-> "past"]

\* An enrichment task enters its table likewise.
LEMMA InsertEnrichment ==
  ASSUME NEW table \in Seq(EnrichmentTask), NEW m \in Nat, NEW url \in Url
  PROVE  /\ NewEnrichmentTask(m, url) \in EnrichmentTask
         /\ EnqueueEnrichment(table, m, url) \in Seq(EnrichmentTask)
         /\ DOMAIN table \subseteq DOMAIN EnqueueEnrichment(table, m, url)
         /\ \/ EnqueueEnrichment(table, m, url) = table
            \/ EnqueueEnrichment(table, m, url) = Append(table, NewEnrichmentTask(m, url))
<1>1. NewEnrichmentTask(m, url) \in EnrichmentTask
  BY DEF NewEnrichmentTask, EnrichmentTask, TaskStatus, When
<1>2. /\ Append(table, NewEnrichmentTask(m, url)) \in Seq(EnrichmentTask)
      /\ DOMAIN table \subseteq DOMAIN Append(table, NewEnrichmentTask(m, url))
  BY <1>1, AddRow
<1>3. EnqueueEnrichment(table, m, url) =
        IF \E i \in DOMAIN table : table[i].msg = m /\ table[i].url = url
        THEN table ELSE Append(table, NewEnrichmentTask(m, url))
  BY DEF EnqueueEnrichment, NewEnrichmentTask
<1>4. QED
  BY <1>1, <1>2, <1>3

\* A message enters its table only if its key is new.
LEMMA InsertMessage ==
  ASSUME NEW table \in Seq(Notification), NEW n \in Notification
  PROVE  /\ SaveMessage(table, n) \in Seq(Notification)
         /\ DOMAIN table \subseteq DOMAIN SaveMessage(table, n)
         /\ IF IsDuplicate(table, n) THEN SaveMessage(table, n) = table
            ELSE SaveMessage(table, n) = Append(table, n)
BY AddRow DEF SaveMessage

-----------------------------------------------------------------------------
(* Types *)

\* The selected row is a row of the table, and pending.
LEMMA SelectedIsPending ==
  ASSUME NEW table, NEW i \in SelectTasks(table)
  PROVE  i \in DOMAIN table /\ table[i].status = "pending"
BY DEF SelectTasks, Claimable

\* A history with one more entry at i.
LEMMA OneMoreType ==
  ASSUME NEW history, \A j \in DOMAIN history : history[j] \in Nat, NEW i
  PROVE  /\ DOMAIN OneMore(history, i) = DOMAIN history \cup {i}
         /\ \A j \in DOMAIN OneMore(history, i) : OneMore(history, i)[j] \in Nat
         /\ Count(OneMore(history, i), i) = Count(history, i) + 1
         /\ \A j : j # i => Count(OneMore(history, i), j) = Count(history, j)
BY DEF OneMore, Count

\* An update of a delivery row, failed or not, keeps the types.
LEMMA SettleDeliveryType ==
  ASSUME TypeOK,
         NEW table \in Seq(Delivery), DOMAIN table = DOMAIN deliveries,
         NEW after \in DeliveryWorker, after.pc \notin DeliveryBusy,
         SettleDelivery(table, after)
  PROVE  TypeOK'
<1>1. deliveries' \in Seq(Delivery) /\ DOMAIN deliveries' = DOMAIN deliveries
  BY DEF SettleDelivery, TypeOK, TablesOK
<1>2. deliveryWorker' \in DeliveryWorker /\ deliveryWorker'.pc \notin DeliveryBusy
  BY DEF SettleDelivery, TypeOK, DeliveryWorkerOK, DeliveryWorker, DeliveryBusy,
         Returned, Err, StoreError
<1>3. faults' \in 0 .. MaxFaults
  BY BoundsAssumption DEF SettleDelivery, StoreFails, TypeOK, BoundsOK
<1>4. TablesOK'
  BY <1>1 DEF TypeOK, TablesOK, SettleDelivery
<1>5. HandlerOK' /\ EnrichmentWorkerOK'
  BY DEF TypeOK, HandlerOK, EnrichmentWorkerOK, SettleDelivery
<1>6. DeliveryWorkerOK'
  BY <1>2 DEF DeliveryWorkerOK
<1>7. HistoryOK'
  BY <1>1 DEF TypeOK, HistoryOK, SettleDelivery, outside
<1>8. BoundsOK'
  BY <1>3 DEF TypeOK, BoundsOK, SettleDelivery
<1>9. QED
  BY <1>4, <1>5, <1>6, <1>7, <1>8 DEF TypeOK

\* The same of an enrichment task.
LEMMA SettleEnrichmentType ==
  ASSUME TypeOK,
         NEW table \in Seq(EnrichmentTask), DOMAIN table = DOMAIN enrichmentTasks,
         NEW after \in EnrichmentWorker, after.pc \notin EnrichmentBusy,
         SettleEnrichment(table, after)
  PROVE  TypeOK'
<1>1. enrichmentTasks' \in Seq(EnrichmentTask) /\ DOMAIN enrichmentTasks' = DOMAIN enrichmentTasks
  BY DEF SettleEnrichment, TypeOK, TablesOK
<1>2. enrichmentWorker' \in EnrichmentWorker /\ enrichmentWorker'.pc \notin EnrichmentBusy
  BY DEF SettleEnrichment, TypeOK, EnrichmentWorkerOK, EnrichmentWorker, EnrichmentBusy,
         Returned, Err, StoreError
<1>3. faults' \in 0 .. MaxFaults
  BY BoundsAssumption DEF SettleEnrichment, StoreFails, TypeOK, BoundsOK
<1>4. TablesOK'
  BY <1>1 DEF TypeOK, TablesOK, SettleEnrichment
<1>5. HandlerOK' /\ DeliveryWorkerOK'
  BY DEF TypeOK, HandlerOK, DeliveryWorkerOK, SettleEnrichment
<1>6. EnrichmentWorkerOK'
  BY <1>2 DEF EnrichmentWorkerOK, EnrichmentBusy
<1>7. HistoryOK'
  BY <1>1 DEF TypeOK, HistoryOK, SettleEnrichment, outside
<1>8. BoundsOK'
  BY <1>3 DEF TypeOK, BoundsOK, SettleEnrichment
<1>9. QED
  BY <1>4, <1>5, <1>6, <1>7, <1>8 DEF TypeOK

\* The service starts with empty tables.
LEMMA InitType == Init => TypeOK
<1> SUFFICES ASSUME Init PROVE TypeOK
  OBVIOUS
<1>1. TablesOK
  BY DEF Init, TablesOK
<1>2. HandlerOK
  BY DEF Init, HandlerOK, HandlerIdle, Handler
<1>3. DeliveryWorkerOK
  BY DEF Init, DeliveryWorkerOK, DeliveryIdle, DeliveryWorker, DeliveryBusy, Err
<1>4. EnrichmentWorkerOK
  BY DEF Init, EnrichmentWorkerOK, EnrichmentIdle, EnrichmentWorker, EnrichmentBusy, Err
<1>5. HistoryOK
  <2>1. DOMAIN requests = {} /\ DOMAIN fetches = {}
    BY DEF Init
  <2>2. QED
    BY <2>1 DEF Init, HistoryOK
<1>6. BoundsOK
  <2>1. ctxDone \in BOOLEAN
    BY DEF Init
  <2>2. QED
    BY <2>1, BoundsAssumption DEF Init, BoundsOK
<1>7. QED
  BY <1>1, <1>2, <1>3, <1>4, <1>5, <1>6 DEF TypeOK

\* Receiving a notification adds a message at most.
LEMMA ReceiveType ==
  ASSUME TypeOK, NEW n \in Notification, ReceiveNotification(n)
  PROVE  TypeOK'
<1>1. messages \in Seq(Notification)
  BY DEF TypeOK, TablesOK
<1>2. messages' \in Seq(Notification) /\ DOMAIN messages \subseteq DOMAIN messages'
  BY <1>1, InsertMessage DEF ReceiveNotification
<1>3. TablesOK' /\ HandlerOK'
  <2>1. TablesOK'
    BY <1>2 DEF TypeOK, TablesOK, ReceiveNotification
  <2>2. CASE handler' = handler
    BY <1>2, <2>1, <2>2 DEF ReceiveNotification, TypeOK, HandlerOK
  <2>3. CASE handler' = HandlerIdle
    BY <2>1, <2>3 DEF HandlerIdle, HandlerOK, Handler
  <2>4. CASE /\ messages' = SaveMessage(messages, n)
             /\ ~IsDuplicate(messages, n)
             /\ handler' = [pc |-> "original", msg |-> Len(messages'), left |-> n.urls]
    <3>1. messages' = Append(messages, n)
      BY <1>1, <2>4, InsertMessage
    <3>2. Len(messages') \in DOMAIN messages' /\ Len(messages') \in Nat
      BY <1>1, <1>2, <3>1
    <3>3. n.urls \in Seq(Url)
      BY NotificationAssumption
    <3>4. QED
      BY <2>1, <2>4, <3>2, <3>3 DEF HandlerOK, Handler
  <2>5. QED
    BY <2>2, <2>3, <2>4 DEF ReceiveNotification
<1>4. DeliveryWorkerOK' /\ EnrichmentWorkerOK' /\ HistoryOK'
  BY DEF TypeOK, ReceiveNotification, DeliveryWorkerOK, EnrichmentWorkerOK, HistoryOK, outside
<1>5. BoundsOK'
  BY BoundsAssumption DEF TypeOK, BoundsOK, ReceiveNotification, StoreFails
<1>6. QED
  BY <1>3, <1>4, <1>5 DEF TypeOK

\* The handler between two links.
LEMMA AtLinksType ==
  ASSUME HandlerOK, handler.pc # "idle", NEW left \in Seq(Url)
  PROVE  /\ AtLinks(left) \in Handler
         /\ AtLinks(left).pc # "idle" => AtLinks(left).msg = handler.msg
         /\ AtLinks(left).pc = "links" => AtLinks(left).left # <<>>
BY DEF AtLinks, HandlerOK, Handler, HandlerIdle

\* Queueing a message's own row.
LEMMA EnqueueOriginalType ==
  ASSUME TypeOK, EnqueueOriginal
  PROVE  TypeOK'
<1> DEFINE queued == EnqueueDelivery(deliveries, handler.msg, "original",
                                     OriginalPayload(messages[handler.msg]))
<1>1. handler.msg \in DOMAIN messages /\ handler.msg \in Nat /\ handler.left \in Seq(Url)
  BY DEF EnqueueOriginal, TypeOK, HandlerOK, Handler
<1>2. OriginalPayload(messages[handler.msg]) \in Payload
  BY <1>1 DEF TypeOK, TablesOK, Payload
<1>3. queued \in Seq(Delivery) /\ DOMAIN deliveries \subseteq DOMAIN queued
  <2>1. deliveries \in Seq(Delivery) /\ "original" \in DeliveryKind
    BY DEF TypeOK, TablesOK, DeliveryKind
  <2>2. QED
    BY <1>1, <1>2, <2>1, InsertDelivery
<1>4. deliveries' \in Seq(Delivery) /\ DOMAIN deliveries \subseteq DOMAIN deliveries'
  BY <1>3 DEF EnqueueOriginal, TypeOK, TablesOK
<1>5. TablesOK'
  BY <1>4 DEF TypeOK, TablesOK, EnqueueOriginal
<1>6. HandlerOK'
  <2>1. CASE handler' = HandlerIdle
    BY <2>1 DEF HandlerIdle, HandlerOK, Handler
  <2>2. CASE handler' = AtLinks(handler.left)
    BY <1>1, <2>2, AtLinksType DEF EnqueueOriginal, TypeOK, HandlerOK
  <2>3. QED
    BY <2>1, <2>2 DEF EnqueueOriginal
<1>7. DeliveryWorkerOK' /\ EnrichmentWorkerOK' /\ HistoryOK'
  BY <1>4 DEF TypeOK, EnqueueOriginal, DeliveryWorkerOK, EnrichmentWorkerOK, HistoryOK, outside
<1>8. BoundsOK'
  BY BoundsAssumption DEF TypeOK, BoundsOK, EnqueueOriginal, StoreFails
<1>9. QED
  BY <1>5, <1>6, <1>7, <1>8 DEF TypeOK

\* Queueing a link's enrichment task.
LEMMA EnqueueLinkType ==
  ASSUME TypeOK, EnqueueLink
  PROVE  TypeOK'
<1> DEFINE queued == EnqueueEnrichment(enrichmentTasks, handler.msg, Head(handler.left))
<1>1. /\ handler.msg \in Nat
      /\ handler.left \in Seq(Url)
      /\ Head(handler.left) \in Url
      /\ Tail(handler.left) \in Seq(Url)
  <2>1. handler.msg \in Nat /\ handler.left \in Seq(Url) /\ handler.left # <<>>
    BY DEF EnqueueLink, TypeOK, HandlerOK, Handler
  <2>2. QED
    BY <2>1, HeadTailProperties
<1>2. queued \in Seq(EnrichmentTask) /\ DOMAIN enrichmentTasks \subseteq DOMAIN queued
  <2>1. enrichmentTasks \in Seq(EnrichmentTask)
    BY DEF TypeOK, TablesOK
  <2>2. QED
    BY <1>1, <2>1, InsertEnrichment
<1>3. /\ enrichmentTasks' \in Seq(EnrichmentTask)
      /\ DOMAIN enrichmentTasks \subseteq DOMAIN enrichmentTasks'
  BY <1>2 DEF EnqueueLink, TypeOK, TablesOK
<1>4. TablesOK'
  BY <1>3 DEF TypeOK, TablesOK, EnqueueLink
<1>5. HandlerOK'
  <2>1. CASE handler' = HandlerIdle
    BY <2>1 DEF HandlerIdle, HandlerOK, Handler
  <2>2. CASE handler' = AtLinks(Tail(handler.left))
    BY <1>1, <2>2, AtLinksType DEF EnqueueLink, TypeOK, HandlerOK
  <2>3. QED
    BY <2>1, <2>2 DEF EnqueueLink
<1>6. DeliveryWorkerOK' /\ EnrichmentWorkerOK' /\ HistoryOK'
  BY <1>3 DEF TypeOK, EnqueueLink, DeliveryWorkerOK, EnrichmentWorkerOK, HistoryOK, outside
<1>7. BoundsOK'
  BY BoundsAssumption DEF TypeOK, BoundsOK, EnqueueLink, StoreFails
<1>8. QED
  BY <1>4, <1>5, <1>6, <1>7 DEF TypeOK

\* The steps of the delivery worker.
LEMMA DeliveryStepType ==
  ASSUME TypeOK, DeliveryStep
  PROVE  TypeOK'
<1> USE DEF TypeOK
<1>1. CASE DeliveryCanceled
  <2>1. DeliveryWorkerOK'
    BY <1>1 DEF DeliveryCanceled, DeliveryWorkerOK, DeliveryWorker, DeliveryBusy, Returned, Err
  <2>2. QED
    BY <1>1, <2>1 DEF DeliveryCanceled, tables, outside, TablesOK, HandlerOK,
                      EnrichmentWorkerOK, HistoryOK, BoundsOK
<1>2. CASE ClaimDelivery
  <2>0. 0 \in Nat /\ "past" \in When
    BY DEF When
  <2>1. \A i \in SelectTasks(deliveries) :
          /\ i \in DOMAIN deliveries
          /\ ClaimTask(deliveries, i) \in Seq(Delivery)
          /\ DOMAIN ClaimTask(deliveries, i) = DOMAIN deliveries
          /\ i \in Nat /\ deliveries[i].attempts \in Nat
    <3>1. ASSUME NEW i \in SelectTasks(deliveries)
          PROVE  i \in DOMAIN deliveries /\ i \in Nat /\ deliveries[i] \in Delivery
      BY SelectedIsPending DEF TablesOK
    <3>2. QED
      BY <3>1, <2>0, UpdateDelivery DEF TablesOK, Delivery
  <2>2. deliveries' \in Seq(Delivery) /\ DOMAIN deliveries' = DOMAIN deliveries
    BY <1>2, <2>1 DEF ClaimDelivery, TablesOK
  <2>3. DeliveryWorkerOK'
    BY <1>2, <2>1, <2>2 DEF ClaimDelivery, DeliveryWorkerOK, DeliveryWorker, DeliveryBusy,
                            Returned, Err, StoreError
  <2>4. BoundsOK'
    <3>0. faults' = faults \/ StoreFails
      BY <1>2 DEF ClaimDelivery
    <3>1. faults' \in 0 .. MaxFaults
      BY <3>0, BoundsAssumption DEF BoundsOK, StoreFails
    <3>2. QED
      BY <1>2, <3>1 DEF ClaimDelivery, BoundsOK
  <2>5. UNCHANGED <<messages, enrichmentTasks, enrichments, handler, enrichmentWorker,
                   requests, accepted, fetches>>
    BY <1>2 DEF ClaimDelivery, outside
  <2>6. QED
    BY <2>2, <2>3, <2>4, <2>5 DEF TablesOK, HandlerOK, EnrichmentWorkerOK, HistoryOK
<1>3. CASE ReleaseDelivery
  <2> DEFINE table == MarkRetry(deliveries, deliveryWorker.row, deliveryWorker.attempts, "past")
             after == Returned(deliveryWorker, "canceled")
  <2>1. table \in Seq(Delivery) /\ DOMAIN table = DOMAIN deliveries
    <3>1. /\ deliveryWorker.row \in DOMAIN deliveries
          /\ deliveryWorker.attempts \in Nat
          /\ "past" \in When
      BY <1>3 DEF ReleaseDelivery, DeliveryWorkerOK, DeliveryWorker, DeliveryBusy, When
    <3>2. QED
      BY <3>1, UpdateDelivery DEF TablesOK
  <2>2. after \in DeliveryWorker /\ after.pc \notin DeliveryBusy
    BY DEF DeliveryWorkerOK, DeliveryWorker, DeliveryBusy, Returned, Err
  <2>3. QED
    BY <1>3, <2>1, <2>2, SettleDeliveryType DEF ReleaseDelivery
<1>4. CASE StartSend
  <2>1. DeliveryWorkerOK'
    BY <1>4 DEF StartSend, DeliveryWorkerOK, DeliveryWorker, DeliveryBusy, tables
  <2>2. HistoryOK'
    <3>1. deliveryWorker.row \in DOMAIN deliveries
      BY <1>4 DEF StartSend, DeliveryWorkerOK, DeliveryBusy
    <3>2. /\ DOMAIN requests' = DOMAIN requests \cup {deliveryWorker.row}
          /\ \A j \in DOMAIN requests' : requests'[j] \in Nat
      BY <1>4, OneMoreType DEF StartSend, HistoryOK
    <3>3. QED
      BY <1>4, <3>1, <3>2 DEF StartSend, HistoryOK, tables
  <2>3. QED
    BY <1>4, <2>1, <2>2 DEF StartSend, tables, TablesOK, HandlerOK, EnrichmentWorkerOK, BoundsOK
<1>5. CASE SendReturns
  <2>1. DeliveryWorkerOK'
    BY <1>5 DEF SendReturns, DeliveryWorkerOK, DeliveryWorker, DeliveryBusy, tables
  <2>2. HistoryOK'
    BY <1>5 DEF SendReturns, HistoryOK, DeliveryWorkerOK, DeliveryBusy, tables
  <2>3. QED
    BY <1>5, <2>1, <2>2 DEF SendReturns, tables, TablesOK, HandlerOK, EnrichmentWorkerOK, BoundsOK
<1>6. CASE MarkDeliveryDone
  <2>0. 0 \in Nat /\ "past" \in When
    BY DEF When
  <2>1. DeliveryIdle \in DeliveryWorker /\ DeliveryIdle.pc \notin DeliveryBusy
    BY DEF DeliveryIdle, DeliveryWorker, DeliveryBusy, Err
  <2> DEFINE table == MarkDone(deliveries, deliveryWorker.row)
  <2>2. table \in Seq(Delivery) /\ DOMAIN table = DOMAIN deliveries
    BY <1>6, UpdateDelivery, <2>0
        DEF MarkDeliveryDone, TablesOK, DeliveryWorkerOK, DeliveryBusy
  <2>3. QED
    BY <1>6, <2>1, <2>2, SettleDeliveryType DEF MarkDeliveryDone
<1>7. CASE RetryOrFailDelivery
  <2>1. DeliveryIdle \in DeliveryWorker /\ DeliveryIdle.pc \notin DeliveryBusy
    BY DEF DeliveryIdle, DeliveryWorker, DeliveryBusy, Err
  <2> DEFINE next == deliveryWorker.attempts + 1
             failed == MarkFailed(deliveries, deliveryWorker.row)
             retried == MarkRetry(deliveries, deliveryWorker.row, next, "future")
  <2>2. /\ deliveries \in Seq(Delivery)
        /\ deliveryWorker.row \in DOMAIN deliveries
        /\ next \in Nat
        /\ "future" \in When
    BY <1>7 DEF RetryOrFailDelivery, DeliveryWorkerOK, DeliveryWorker, DeliveryBusy, When,
                TablesOK
  <2>3. /\ failed \in Seq(Delivery) /\ DOMAIN failed = DOMAIN deliveries
        /\ retried \in Seq(Delivery) /\ DOMAIN retried = DOMAIN deliveries
    <3> HIDE DEF TypeOK, next
    <3> QED
      BY <2>2, UpdateDelivery
  <2>4. SettleDelivery(IF next >= WeComMaxAttempts THEN failed ELSE retried, DeliveryIdle)
    BY <1>7 DEF RetryOrFailDelivery
  <2>5. QED
    BY <2>1, <2>3, <2>4, SettleDeliveryType
<1>8. QED
  BY <1>1, <1>2, <1>3, <1>4, <1>5, <1>6, <1>7 DEF DeliveryStep

\* The steps of the enrichment worker.
LEMMA EnrichmentStepType ==
  ASSUME TypeOK, EnrichmentStep
  PROVE  TypeOK'
<1> USE DEF TypeOK
<1>0. /\ 0 \in Nat /\ "past" \in When /\ "future" \in When
      /\ EnrichmentIdle \in EnrichmentWorker
      /\ EnrichmentIdle.pc \notin EnrichmentBusy
  BY DEF When, EnrichmentIdle, EnrichmentWorker, EnrichmentBusy, Err
<1>1. CASE EnrichmentCanceled
  <2>1. EnrichmentWorkerOK'
    BY <1>1 DEF EnrichmentCanceled, EnrichmentWorkerOK, EnrichmentWorker, EnrichmentBusy,
                Returned, Err
  <2>2. QED
    BY <1>1, <2>1 DEF EnrichmentCanceled, tables, outside, TablesOK, HandlerOK,
                      DeliveryWorkerOK, HistoryOK, BoundsOK
<1>2. CASE ClaimEnrichment
  <2>1. \A i \in SelectTasks(enrichmentTasks) :
          /\ i \in DOMAIN enrichmentTasks
          /\ ClaimTask(enrichmentTasks, i) \in Seq(EnrichmentTask)
          /\ DOMAIN ClaimTask(enrichmentTasks, i) = DOMAIN enrichmentTasks
          /\ i \in Nat /\ enrichmentTasks[i].attempts \in Nat
    <3>1. ASSUME NEW i \in SelectTasks(enrichmentTasks)
          PROVE  /\ i \in DOMAIN enrichmentTasks
                 /\ i \in Nat
                 /\ enrichmentTasks[i] \in EnrichmentTask
      BY SelectedIsPending DEF TablesOK
    <3>2. QED
      BY <1>0, <3>1, UpdateEnrichmentTask DEF TablesOK, EnrichmentTask
  <2>2. /\ enrichmentTasks' \in Seq(EnrichmentTask)
        /\ DOMAIN enrichmentTasks' = DOMAIN enrichmentTasks
    BY <1>2, <2>1 DEF ClaimEnrichment, TablesOK
  <2>3. EnrichmentWorkerOK'
    BY <1>2, <2>1, <2>2 DEF ClaimEnrichment, EnrichmentWorkerOK, EnrichmentWorker,
                            EnrichmentBusy, Returned, Err, StoreError
  <2>4. BoundsOK'
    <3>0. faults' = faults \/ StoreFails
      BY <1>2 DEF ClaimEnrichment
    <3>1. faults' \in 0 .. MaxFaults
      BY <3>0, BoundsAssumption DEF BoundsOK, StoreFails
    <3>2. QED
      BY <1>2, <3>1 DEF ClaimEnrichment, BoundsOK
  <2>5. UNCHANGED <<messages, deliveries, enrichments, handler, deliveryWorker,
                   requests, accepted, fetches>>
    BY <1>2 DEF ClaimEnrichment, outside
  <2>6. QED
    BY <2>2, <2>3, <2>4, <2>5 DEF TablesOK, HandlerOK, DeliveryWorkerOK, HistoryOK
<1>3. CASE ReleaseEnrichment
  <2> DEFINE table == MarkRetry(enrichmentTasks, enrichmentWorker.row,
                                enrichmentWorker.attempts, "past")
             after == Returned(enrichmentWorker, "canceled")
  <2>1. /\ enrichmentWorker.row \in DOMAIN enrichmentTasks
        /\ enrichmentWorker.attempts \in Nat
    BY <1>3 DEF ReleaseEnrichment, EnrichmentWorkerOK, EnrichmentWorker, EnrichmentBusy
  <2>2. table \in Seq(EnrichmentTask) /\ DOMAIN table = DOMAIN enrichmentTasks
    <3>1. enrichmentTasks \in Seq(EnrichmentTask) /\ "past" \in When
      BY DEF TablesOK, When
    <3>2. QED
      BY <2>1, <3>1, UpdateEnrichmentTask
  <2>3. after \in EnrichmentWorker /\ after.pc \notin EnrichmentBusy
    BY DEF EnrichmentWorkerOK, EnrichmentWorker, EnrichmentBusy, Returned, Err
  <2>4. QED
    BY <1>3, <2>2, <2>3, SettleEnrichmentType DEF ReleaseEnrichment
<1>4. CASE StartFetch
  <2>1. EnrichmentWorkerOK'
    BY <1>4 DEF StartFetch, EnrichmentWorkerOK, EnrichmentWorker, EnrichmentBusy, tables
  <2>2. HistoryOK'
    <3>1. enrichmentWorker.row \in DOMAIN enrichmentTasks
      BY <1>4 DEF StartFetch, EnrichmentWorkerOK, EnrichmentBusy
    <3>2. /\ DOMAIN fetches' = DOMAIN fetches \cup {enrichmentWorker.row}
          /\ \A j \in DOMAIN fetches' : fetches'[j] \in Nat
      BY <1>4, OneMoreType DEF StartFetch, HistoryOK
    <3>3. QED
      BY <1>4, <3>1, <3>2 DEF StartFetch, HistoryOK, tables
  <2>3. QED
    BY <1>4, <2>1, <2>2 DEF StartFetch, tables, TablesOK, HandlerOK, DeliveryWorkerOK, BoundsOK
<1>5. CASE FetchReturns
  <2>1. EnrichmentWorkerOK'
    BY <1>5 DEF FetchReturns, EnrichmentWorkerOK, EnrichmentWorker, EnrichmentBusy, tables
  <2>2. QED
    BY <1>5, <2>1 DEF FetchReturns, tables, outside, TablesOK, HandlerOK, DeliveryWorkerOK,
                      HistoryOK, BoundsOK
<1>6. CASE RecordPage
  <2> DEFINE task == enrichmentTasks[enrichmentWorker.row]
             recorded == SaveEnrichment(enrichments, task.msg, task.url, enrichmentWorker.page)
  <2>1. task \in EnrichmentTask /\ enrichmentWorker.page \in Page
    BY <1>6 DEF RecordPage, TablesOK, EnrichmentWorkerOK, EnrichmentBusy
  <2>2. <<task.msg, task.url>> \in Nat \X Url
    BY <2>1 DEF EnrichmentTask
  <2>3. /\ DOMAIN recorded = DOMAIN enrichments \cup {<<task.msg, task.url>>}
        /\ \A k \in DOMAIN recorded : recorded[k] \in Page
    BY <2>1 DEF SaveEnrichment, TablesOK
  <2>4. enrichments' = enrichments \/ enrichments' = recorded
    BY <1>6 DEF RecordPage
  <2>5. TablesOK'
    <3>1. /\ DOMAIN enrichments' \subseteq Nat \X Url
          /\ \A k \in DOMAIN enrichments' : enrichments'[k] \in Page
      BY <2>2, <2>3, <2>4 DEF TablesOK
    <3>2. QED
      BY <1>6, <3>1 DEF RecordPage, TablesOK
  <2>6. EnrichmentWorkerOK'
    BY <1>6 DEF RecordPage, Failing, EnrichmentWorkerOK, EnrichmentWorker, EnrichmentBusy
  <2>7. BoundsOK'
    <3>1. faults' \in 0 .. MaxFaults
      BY <1>6, BoundsAssumption DEF RecordPage, BoundsOK, StoreFails
    <3>2. QED
      BY <1>6, <3>1 DEF RecordPage, BoundsOK
  <2>8. QED
    BY <1>6, <2>5, <2>6, <2>7 DEF RecordPage, outside, HandlerOK, DeliveryWorkerOK, HistoryOK
<1>7. CASE EnqueueEnriched
  <2> DEFINE task == enrichmentTasks[enrichmentWorker.row]
             payload == EnrichedPayload(task.url, enrichmentWorker.page)
             queued == EnqueueDelivery(deliveries, task.msg, "enriched", payload)
  <2>1. task \in EnrichmentTask /\ enrichmentWorker.page \in Page
    BY <1>7 DEF EnqueueEnriched, TablesOK, EnrichmentWorkerOK, EnrichmentBusy
  <2>2. task.msg \in Nat /\ "enriched" \in DeliveryKind /\ payload \in Payload
    BY <2>1 DEF EnrichmentTask, DeliveryKind, Payload, EnrichedPayload
  <2>3. queued \in Seq(Delivery) /\ DOMAIN deliveries \subseteq DOMAIN queued
    BY <2>2, InsertDelivery DEF TablesOK
  <2>4. deliveries' = deliveries \/ deliveries' = queued
    BY <1>7 DEF EnqueueEnriched
  <2>5. deliveries' \in Seq(Delivery) /\ DOMAIN deliveries \subseteq DOMAIN deliveries'
    BY <2>3, <2>4 DEF TablesOK
  <2>6. TablesOK'
    BY <1>7, <2>5 DEF EnqueueEnriched, TablesOK
  <2>7. EnrichmentWorkerOK'
    BY <1>7 DEF EnqueueEnriched, Failing, EnrichmentWorkerOK, EnrichmentWorker, EnrichmentBusy
  <2>8. BoundsOK'
    <3>1. faults' \in 0 .. MaxFaults
      BY <1>7, BoundsAssumption DEF EnqueueEnriched, BoundsOK, StoreFails
    <3>2. QED
      BY <1>7, <3>1 DEF EnqueueEnriched, BoundsOK
  <2>9. QED
    BY <1>7, <2>5, <2>6, <2>7, <2>8 DEF EnqueueEnriched, outside, HandlerOK, DeliveryWorkerOK,
                                        HistoryOK
<1>8. CASE MarkEnrichmentDone
  <2> DEFINE done == MarkDone(enrichmentTasks, enrichmentWorker.row)
  <2>1. enrichmentWorker.row \in DOMAIN enrichmentTasks
    BY <1>8 DEF MarkEnrichmentDone, EnrichmentWorkerOK, EnrichmentBusy
  <2>2. done \in Seq(EnrichmentTask) /\ DOMAIN done = DOMAIN enrichmentTasks
    BY <1>0, <2>1, UpdateEnrichmentTask DEF TablesOK
  <2>3. enrichmentTasks' = enrichmentTasks \/ enrichmentTasks' = done
    BY <1>8 DEF MarkEnrichmentDone
  <2>4. /\ enrichmentTasks' \in Seq(EnrichmentTask)
        /\ DOMAIN enrichmentTasks' = DOMAIN enrichmentTasks
    BY <2>2, <2>3 DEF TablesOK
  <2>5. TablesOK'
    BY <1>8, <2>4 DEF MarkEnrichmentDone, TablesOK
  <2>6. EnrichmentWorkerOK'
    <3>1. CASE enrichmentWorker' = EnrichmentIdle
      BY <1>0, <3>1 DEF EnrichmentWorkerOK, EnrichmentBusy
    <3>2. CASE enrichmentWorker' = Failing
      BY <2>1, <2>4, <3>2 DEF Failing, EnrichmentWorkerOK, EnrichmentWorker, EnrichmentBusy
    <3>3. QED
      BY <1>8, <3>1, <3>2 DEF MarkEnrichmentDone
  <2>7. BoundsOK'
    <3>1. faults' \in 0 .. MaxFaults
      BY <1>8, BoundsAssumption DEF MarkEnrichmentDone, BoundsOK, StoreFails
    <3>2. QED
      BY <1>8, <3>1 DEF MarkEnrichmentDone, BoundsOK
  <2>8. QED
    BY <1>8, <2>4, <2>5, <2>6, <2>7 DEF MarkEnrichmentDone, outside, HandlerOK,
                                        DeliveryWorkerOK, HistoryOK
<1>9. CASE RetryOrFailEnrichment
  <2> DEFINE next == enrichmentWorker.attempts + 1
             failed == MarkFailed(enrichmentTasks, enrichmentWorker.row)
             retried == MarkRetry(enrichmentTasks, enrichmentWorker.row, next, "future")
  <2>1. enrichmentWorker.row \in DOMAIN enrichmentTasks /\ next \in Nat
    BY <1>9 DEF RetryOrFailEnrichment, EnrichmentWorkerOK, EnrichmentWorker, EnrichmentBusy
  <2>2. /\ failed \in Seq(EnrichmentTask) /\ DOMAIN failed = DOMAIN enrichmentTasks
        /\ retried \in Seq(EnrichmentTask) /\ DOMAIN retried = DOMAIN enrichmentTasks
    <3>1. enrichmentTasks \in Seq(EnrichmentTask) /\ "future" \in When
      BY DEF TablesOK, When
    <3>2. QED
      BY <2>1, <3>1, UpdateEnrichmentTask
  <2>3. SettleEnrichment(IF next >= EnrichmentMaxAttempts THEN failed ELSE retried,
                         EnrichmentIdle)
    BY <1>9 DEF RetryOrFailEnrichment
  <2>4. QED
    BY <1>0, <2>2, <2>3, SettleEnrichmentType
<1>10. QED
  BY <1>1, <1>2, <1>3, <1>4, <1>5, <1>6, <1>7, <1>8, <1>9 DEF EnrichmentStep

\* A backoff that runs out.
LEMMA BackoffType ==
  ASSUME TypeOK, BackoffElapses
  PROVE  TypeOK'
<1> USE DEF TypeOK
<1>0. 0 \in Nat /\ "past" \in When
  BY DEF When
<1>1. CASE DeliveryBackoffElapses
  <2>1. PICK i \in Waiting(deliveries) : deliveries' = BecomeDue(deliveries, i)
    BY <1>1 DEF DeliveryBackoffElapses
  <2>2. deliveries' \in Seq(Delivery) /\ DOMAIN deliveries' = DOMAIN deliveries
    BY <1>0, <2>1, UpdateDelivery DEF TablesOK, Waiting
  <2>3. QED
    BY <1>1, <2>2 DEF DeliveryBackoffElapses, outside, TablesOK, HandlerOK, DeliveryWorkerOK,
                      EnrichmentWorkerOK, HistoryOK, BoundsOK
<1>2. CASE EnrichmentBackoffElapses
  <2>1. PICK i \in Waiting(enrichmentTasks) :
          enrichmentTasks' = BecomeDue(enrichmentTasks, i)
    BY <1>2 DEF EnrichmentBackoffElapses
  <2>2. /\ enrichmentTasks' \in Seq(EnrichmentTask)
        /\ DOMAIN enrichmentTasks' = DOMAIN enrichmentTasks
    BY <1>0, <2>1, UpdateEnrichmentTask DEF TablesOK, Waiting
  <2>3. QED
    BY <1>2, <2>2 DEF EnrichmentBackoffElapses, outside, TablesOK, HandlerOK,
                      DeliveryWorkerOK, EnrichmentWorkerOK, HistoryOK, BoundsOK
<1>3. QED
  BY <1>1, <1>2 DEF BackoffElapses

\* Every step of the service keeps the types.
LEMMA NextType == TypeOK /\ [Next]_vars => TypeOK'
<1> SUFFICES ASSUME TypeOK, [Next]_vars PROVE TypeOK'
  OBVIOUS
<1>1. CASE Cancel
  BY <1>1 DEF Cancel, tables, outside, TypeOK, TablesOK, HandlerOK, DeliveryWorkerOK,
              EnrichmentWorkerOK, HistoryOK, BoundsOK
<1>2. CASE UNCHANGED vars
  BY <1>2 DEF vars, tables, outside, TypeOK, TablesOK, HandlerOK, DeliveryWorkerOK,
              EnrichmentWorkerOK, HistoryOK, BoundsOK
<1>3. QED
  BY <1>1, <1>2, ReceiveType, EnqueueOriginalType, EnqueueLinkType, DeliveryStepType,
     EnrichmentStepType, BackoffType
  DEF Next, HandlerStep

\* The type invariant of the service.
THEOREM TypeCorrect == Spec => []TypeOK
BY InitType, NextType, PTL DEF Spec

-----------------------------------------------------------------------------
(* Messages and the rows queued for them *)

(* That there cannot be two original rows of one message id follows from    *)
(* four facts: the stored messages have distinct keys, a row belongs to a   *)
(* stored message, an original row says what its message says, and no two   *)
(* rows have the same message, kind and payload.                            *)

KeysUnique ==
  \A m1, m2 \in DOMAIN messages :
    DedupeKey(messages[m1]) = DedupeKey(messages[m2]) => m1 = m2

RowsBelong ==
  \A i \in DOMAIN deliveries :
    /\ deliveries[i].msg \in DOMAIN messages
    /\ deliveries[i].kind = "original" =>
         deliveries[i].payload = OriginalPayload(messages[deliveries[i].msg])

TasksBelong ==
  \A t \in DOMAIN enrichmentTasks : enrichmentTasks[t].msg \in DOMAIN messages

SameRow(a, b) == a.msg = b.msg /\ a.kind = b.kind /\ a.payload = b.payload

RowsUnique ==
  \A i, j \in DOMAIN deliveries : SameRow(deliveries[i], deliveries[j]) => i = j

MessageInv == TypeOK /\ KeysUnique /\ RowsBelong /\ TasksBelong /\ RowsUnique

-----------------------------------------------------------------------------
(* What the updates leave alone *)

\* The update statements write neither message, kind nor payload.
LEMMA UpdatesKeepRows ==
  ASSUME NEW table \in Seq(Delivery), NEW i \in DOMAIN table,
         NEW n \in Nat, NEW when \in When,
         NEW new \in {table, ClaimTask(table, i), MarkDone(table, i), MarkFailed(table, i),
                      MarkRetry(table, i, n, when), BecomeDue(table, i)}
  PROVE  /\ DOMAIN new = DOMAIN table
         /\ \A j \in DOMAIN table : SameRow(table[j], new[j])
<1>1. table[i] \in Delivery
  OBVIOUS
<1>2. ASSUME NEW row, SameRow(table[i], row)
      PROVE  /\ DOMAIN Update(table, i, row) = DOMAIN table
             /\ \A j \in DOMAIN table : SameRow(table[j], Update(table, i, row)[j])
  BY <1>2, UpdateAt DEF SameRow
<1>3. /\ SameRow(table[i], [table[i] EXCEPT !.status = "running"])
      /\ SameRow(table[i], [table[i] EXCEPT !.status = "done"])
      /\ SameRow(table[i], [table[i] EXCEPT !.status = "failed"])
      /\ SameRow(table[i], [table[i] EXCEPT !.status = "pending", !.attempts = n,
                                            !.next = when])
      /\ SameRow(table[i], [table[i] EXCEPT !.next = "past"])
  BY <1>1 DEF SameRow, Delivery
<1>4. CASE new = table
  BY <1>4 DEF SameRow
<1>5. CASE new \in {ClaimTask(table, i), MarkDone(table, i), MarkFailed(table, i),
                    MarkRetry(table, i, n, when), BecomeDue(table, i)}
  BY <1>2, <1>3, <1>5 DEF ClaimTask, MarkDone, MarkFailed, MarkRetry, BecomeDue
<1>6. QED
  BY <1>4, <1>5

\* The same of the tasks' message.
LEMMA UpdatesKeepTasks ==
  ASSUME NEW table \in Seq(EnrichmentTask), NEW i \in DOMAIN table,
         NEW n \in Nat, NEW when \in When,
         NEW new \in {table, ClaimTask(table, i), MarkDone(table, i), MarkFailed(table, i),
                      MarkRetry(table, i, n, when), BecomeDue(table, i)}
  PROVE  /\ DOMAIN new = DOMAIN table
         /\ \A j \in DOMAIN table : new[j].msg = table[j].msg /\ new[j].url = table[j].url
<1>1. table[i] \in EnrichmentTask
  OBVIOUS
<1> DEFINE Same(row) == row.msg = table[i].msg /\ row.url = table[i].url
<1>2. ASSUME NEW row, Same(row)
      PROVE  /\ DOMAIN Update(table, i, row) = DOMAIN table
             /\ \A j \in DOMAIN table : /\ Update(table, i, row)[j].msg = table[j].msg
                                        /\ Update(table, i, row)[j].url = table[j].url
  BY <1>2, UpdateAt
<1>3. /\ Same([table[i] EXCEPT !.status = "running"])
      /\ Same([table[i] EXCEPT !.status = "done"])
      /\ Same([table[i] EXCEPT !.status = "failed"])
      /\ Same([table[i] EXCEPT !.status = "pending", !.attempts = n, !.next = when])
      /\ Same([table[i] EXCEPT !.next = "past"])
  BY <1>1 DEF EnrichmentTask
<1> HIDE DEF Same
<1>4. CASE new = table
  BY <1>4
<1>5. CASE new \in {ClaimTask(table, i), MarkDone(table, i), MarkFailed(table, i),
                    MarkRetry(table, i, n, when), BecomeDue(table, i)}
  BY <1>2, <1>3, <1>5 DEF ClaimTask, MarkDone, MarkFailed, MarkRetry, BecomeDue
<1>6. QED
  BY <1>4, <1>5

\* The delivery worker and the clock write no row's identity.
LEMMA WorkerKeepsRows ==
  ASSUME TypeOK, DeliveryStep \/ DeliveryBackoffElapses
  PROVE  /\ DOMAIN deliveries' = DOMAIN deliveries
         /\ \A j \in DOMAIN deliveries : SameRow(deliveries[j], deliveries'[j])
<1> DEFINE Kept == /\ DOMAIN deliveries' = DOMAIN deliveries
                   /\ \A j \in DOMAIN deliveries : SameRow(deliveries[j], deliveries'[j])
<1>0. deliveries \in Seq(Delivery) /\ deliveryWorker \in DeliveryWorker
  BY DEF TypeOK, TablesOK, DeliveryWorkerOK
<1>1. CASE deliveries' = deliveries
  BY <1>1 DEF SameRow
<1>2. ASSUME NEW i \in DOMAIN deliveries, NEW n \in Nat, NEW when \in When,
             deliveries' \in {deliveries, ClaimTask(deliveries, i), MarkDone(deliveries, i),
                              MarkFailed(deliveries, i), MarkRetry(deliveries, i, n, when),
                              BecomeDue(deliveries, i)}
      PROVE  Kept
  BY <1>0, <1>2, UpdatesKeepRows
<1>3. 0 \in Nat /\ "past" \in When /\ "future" \in When
  BY DEF When
<1>4. CASE ClaimDelivery
  <2>1. \/ deliveries' = deliveries
        \/ \E i \in SelectTasks(deliveries) : deliveries' = ClaimTask(deliveries, i)
    BY <1>4 DEF ClaimDelivery
  <2>2. QED
    BY <1>1, <1>2, <1>3, <2>1, SelectedIsPending
<1>5. CASE DeliveryBackoffElapses
  <2>1. \E i \in DOMAIN deliveries : deliveries' = BecomeDue(deliveries, i)
    BY <1>5 DEF DeliveryBackoffElapses, Waiting
  <2>2. QED
    BY <1>2, <1>3, <2>1
<1>6. CASE ReleaseDelivery \/ MarkDeliveryDone \/ RetryOrFailDelivery
  <2> DEFINE i == deliveryWorker.row
             n == deliveryWorker.attempts
  <2>1. i \in DOMAIN deliveries /\ n \in Nat /\ n + 1 \in Nat
    BY <1>6, <1>0 DEF ReleaseDelivery, MarkDeliveryDone, RetryOrFailDelivery, TypeOK,
                      DeliveryWorkerOK, DeliveryWorker, DeliveryBusy
  <2>2. \/ deliveries' \in {deliveries, MarkDone(deliveries, i), MarkFailed(deliveries, i)}
        \/ deliveries' = MarkRetry(deliveries, i, n, "past")
        \/ deliveries' = MarkRetry(deliveries, i, n + 1, "future")
    BY <1>6 DEF ReleaseDelivery, MarkDeliveryDone, RetryOrFailDelivery, SettleDelivery
  <2>3. QED
    BY <1>2, <1>3, <2>1, <2>2
<1>7. CASE DeliveryCanceled \/ StartSend \/ SendReturns
  BY <1>1, <1>7 DEF DeliveryCanceled, StartSend, SendReturns, tables
<1>8. QED
  BY <1>4, <1>5, <1>6, <1>7 DEF DeliveryStep

\* The enrichment worker and the clock write no task's identity.
LEMMA WorkerKeepsTasks ==
  ASSUME TypeOK, EnrichmentStep \/ EnrichmentBackoffElapses
  PROVE  /\ DOMAIN enrichmentTasks' = DOMAIN enrichmentTasks
         /\ \A t \in DOMAIN enrichmentTasks :
              /\ enrichmentTasks'[t].msg = enrichmentTasks[t].msg
              /\ enrichmentTasks'[t].url = enrichmentTasks[t].url
<1> DEFINE Kept == /\ DOMAIN enrichmentTasks' = DOMAIN enrichmentTasks
                   /\ \A t \in DOMAIN enrichmentTasks :
                        /\ enrichmentTasks'[t].msg = enrichmentTasks[t].msg
                        /\ enrichmentTasks'[t].url = enrichmentTasks[t].url
<1>0. enrichmentTasks \in Seq(EnrichmentTask) /\ enrichmentWorker \in EnrichmentWorker
  BY DEF TypeOK, TablesOK, EnrichmentWorkerOK
<1>1. CASE enrichmentTasks' = enrichmentTasks
  BY <1>1
<1>2. ASSUME NEW i \in DOMAIN enrichmentTasks, NEW n \in Nat, NEW when \in When,
             enrichmentTasks' \in
               {enrichmentTasks, ClaimTask(enrichmentTasks, i), MarkDone(enrichmentTasks, i),
                MarkFailed(enrichmentTasks, i), MarkRetry(enrichmentTasks, i, n, when),
                BecomeDue(enrichmentTasks, i)}
      PROVE  Kept
  BY <1>0, <1>2, UpdatesKeepTasks
<1>3. 0 \in Nat /\ "past" \in When /\ "future" \in When
  BY DEF When
<1>4. CASE ClaimEnrichment
  <2>1. \/ enrichmentTasks' = enrichmentTasks
        \/ \E i \in SelectTasks(enrichmentTasks) :
             enrichmentTasks' = ClaimTask(enrichmentTasks, i)
    BY <1>4 DEF ClaimEnrichment
  <2>2. QED
    BY <1>1, <1>2, <1>3, <2>1, SelectedIsPending
<1>5. CASE EnrichmentBackoffElapses
  <2>1. \E i \in DOMAIN enrichmentTasks : enrichmentTasks' = BecomeDue(enrichmentTasks, i)
    BY <1>5 DEF EnrichmentBackoffElapses, Waiting
  <2>2. QED
    BY <1>2, <1>3, <2>1
<1>6. CASE ReleaseEnrichment \/ MarkEnrichmentDone \/ RetryOrFailEnrichment
  <2> DEFINE i == enrichmentWorker.row
             n == enrichmentWorker.attempts
  <2>1. i \in DOMAIN enrichmentTasks /\ n \in Nat /\ n + 1 \in Nat
    BY <1>6, <1>0 DEF ReleaseEnrichment, MarkEnrichmentDone, RetryOrFailEnrichment, TypeOK,
                      EnrichmentWorkerOK, EnrichmentWorker, EnrichmentBusy
  <2>2. \/ enrichmentTasks' \in {enrichmentTasks, MarkDone(enrichmentTasks, i),
                                 MarkFailed(enrichmentTasks, i)}
        \/ enrichmentTasks' = MarkRetry(enrichmentTasks, i, n, "past")
        \/ enrichmentTasks' = MarkRetry(enrichmentTasks, i, n + 1, "future")
    BY <1>6 DEF ReleaseEnrichment, MarkEnrichmentDone, RetryOrFailEnrichment,
                SettleEnrichment
  <2>3. QED
    BY <1>2, <1>3, <2>1, <2>2
<1>7. CASE EnrichmentCanceled \/ StartFetch \/ FetchReturns \/ RecordPage \/ EnqueueEnriched
  BY <1>1, <1>7 DEF EnrichmentCanceled, StartFetch, FetchReturns, RecordPage,
                    EnqueueEnriched, tables
<1>8. QED
  BY <1>4, <1>5, <1>6, <1>7 DEF EnrichmentStep

-----------------------------------------------------------------------------
(* Steps *)

\* The service starts without messages.
LEMMA InitMessages == Init => MessageInv
<1> SUFFICES ASSUME Init PROVE MessageInv
  OBVIOUS
<1>1. DOMAIN messages = {} /\ DOMAIN deliveries = {} /\ DOMAIN enrichmentTasks = {}
  BY DEF Init
<1>2. QED
  BY <1>1, InitType DEF MessageInv, KeysUnique, RowsBelong, TasksBelong, RowsUnique

\* A message is stored only if its key is new.
LEMMA MessageReceived ==
  ASSUME MessageInv, TypeOK', NEW n \in Notification, ReceiveNotification(n)
  PROVE  MessageInv'
<1>1. messages \in Seq(Notification) /\ UNCHANGED <<deliveries, enrichmentTasks>>
  BY DEF ReceiveNotification, MessageInv, TypeOK, TablesOK
<1>2. \/ messages' = messages
      \/ messages' = Append(messages, n) /\ ~IsDuplicate(messages, n)
  BY DEF ReceiveNotification, SaveMessage
<1>3. CASE messages' = messages
  BY <1>1, <1>3 DEF MessageInv, KeysUnique, RowsBelong, TasksBelong, RowsUnique
<1>4. CASE messages' = Append(messages, n) /\ ~IsDuplicate(messages, n)
  <2> DEFINE new == Len(messages) + 1
  <2>1. /\ DOMAIN messages' = DOMAIN messages \cup {new}
        /\ messages'[new] = n
        /\ \A m \in DOMAIN messages : messages'[m] = messages[m]
    BY <1>1, <1>4, AddRow
  <2>2. \A m \in DOMAIN messages : DedupeKey(messages[m]) # DedupeKey(n)
    BY <1>4 DEF IsDuplicate
  <2> HIDE DEF new
  <2>3. KeysUnique'
    BY <2>1, <2>2 DEF MessageInv, KeysUnique
  <2>4. RowsBelong' /\ TasksBelong' /\ RowsUnique'
    BY <1>1, <2>1 DEF MessageInv, RowsBelong, TasksBelong, RowsUnique
  <2>5. QED
    BY <2>3, <2>4 DEF MessageInv
<1>5. QED
  BY <1>2, <1>3, <1>4

\* A row is queued for a stored message, and only if none says the same.
LEMMA RowQueued ==
  ASSUME MessageInv, TypeOK',
         NEW m \in DOMAIN messages, NEW kind \in DeliveryKind, NEW payload \in Payload,
         kind = "original" => payload = OriginalPayload(messages[m]),
         deliveries' \in {deliveries, EnqueueDelivery(deliveries, m, kind, payload)},
         UNCHANGED <<messages, enrichmentTasks>>
  PROVE  MessageInv'
<1>1. /\ deliveries \in Seq(Delivery)
      /\ m \in Nat
  BY DEF MessageInv, TypeOK, TablesOK
<1>2. CASE deliveries' = deliveries
  BY <1>2 DEF MessageInv, KeysUnique, RowsBelong, TasksBelong, RowsUnique
<1>3. CASE deliveries' # deliveries
  <2> DEFINE new == Len(deliveries) + 1
             row == NewDelivery(m, kind, payload)
  <2>1. /\ row \in Delivery
        /\ deliveries' = Append(deliveries, row)
        /\ \A i \in DOMAIN deliveries : ~ /\ deliveries[i].msg = m
                                          /\ deliveries[i].kind = kind
                                          /\ deliveries[i].payload = payload
    <3>1. row \in Delivery
      BY <1>1, InsertDelivery
    <3>2. /\ deliveries' = Append(deliveries, row)
          /\ ~ \E i \in DOMAIN deliveries : /\ deliveries[i].msg = m
                                            /\ deliveries[i].kind = kind
                                            /\ deliveries[i].payload = payload
      BY <1>3 DEF EnqueueDelivery, NewDelivery
    <3>3. QED
      BY <3>1, <3>2
  <2>2. row.msg = m /\ row.kind = kind /\ row.payload = payload
    BY DEF NewDelivery
  <2> HIDE DEF row
  <2>3. /\ DOMAIN deliveries' = DOMAIN deliveries \cup {new}
        /\ deliveries'[new] = row
        /\ \A i \in DOMAIN deliveries : deliveries'[i] = deliveries[i]
    BY <1>1, <2>1, AddRow
  <2> HIDE DEF new
  <2>4. RowsBelong'
    BY <2>2, <2>3 DEF MessageInv, RowsBelong
  <2>5. RowsUnique'
    BY <2>1, <2>2, <2>3 DEF MessageInv, RowsUnique, SameRow
  <2>6. KeysUnique' /\ TasksBelong'
    BY DEF MessageInv, KeysUnique, TasksBelong
  <2>7. QED
    BY <2>4, <2>5, <2>6 DEF MessageInv
<1>4. QED
  BY <1>2, <1>3

\* The handler queues its message's own row, the worker its task's message's.
LEMMA MessageQueued ==
  ASSUME MessageInv, TypeOK', EnqueueOriginal \/ EnqueueEnriched
  PROVE  MessageInv'
<1>1. UNCHANGED <<messages, enrichmentTasks>>
  BY DEF EnqueueOriginal, EnqueueEnriched
<1>2. CASE EnqueueOriginal
  <2>1. handler.msg \in DOMAIN messages
    BY <1>2 DEF EnqueueOriginal, MessageInv, TypeOK, HandlerOK
  <2>2. /\ "original" \in DeliveryKind
        /\ OriginalPayload(messages[handler.msg]) \in Payload
    BY <2>1 DEF DeliveryKind, Payload, MessageInv, TypeOK, TablesOK
  <2>3. deliveries' \in {deliveries, EnqueueDelivery(deliveries, handler.msg, "original",
                                       OriginalPayload(messages[handler.msg]))}
    BY <1>2 DEF EnqueueOriginal
  <2>4. QED
    BY <1>1, <2>1, <2>2, <2>3, RowQueued
<1>3. CASE EnqueueEnriched
  <2> DEFINE task == enrichmentTasks[enrichmentWorker.row]
             payload == EnrichedPayload(task.url, enrichmentWorker.page)
  <2>1. /\ enrichmentWorker.row \in DOMAIN enrichmentTasks
        /\ task \in EnrichmentTask /\ enrichmentWorker.page \in Page
    BY <1>3 DEF EnqueueEnriched, MessageInv, TypeOK, TablesOK, EnrichmentWorkerOK,
                EnrichmentBusy
  <2>2. task.msg \in DOMAIN messages
    BY <2>1 DEF MessageInv, TasksBelong
  <2>3. "enriched" \in DeliveryKind /\ payload \in Payload /\ "enriched" # "original"
    BY <2>1 DEF EnrichmentTask, DeliveryKind, Payload, EnrichedPayload
  <2>4. deliveries' \in {deliveries,
                         EnqueueDelivery(deliveries, task.msg, "enriched", payload)}
    BY <1>3 DEF EnqueueEnriched
  <2> HIDE DEF task, payload
  <2>5. QED
    BY <1>1, <2>2, <2>3, <2>4, RowQueued
<1>4. QED
  BY <1>2, <1>3

\* A link's task is queued for the message in the handler's hands.
LEMMA LinkQueued ==
  ASSUME MessageInv, TypeOK', EnqueueLink
  PROVE  MessageInv'
<1> DEFINE url == Head(handler.left)
           row == NewEnrichmentTask(handler.msg, url)
<1>1. UNCHANGED <<messages, deliveries>>
  BY DEF EnqueueLink
<1>2. enrichmentTasks \in Seq(EnrichmentTask) /\ handler.msg \in DOMAIN messages
  BY DEF EnqueueLink, MessageInv, TypeOK, TablesOK, HandlerOK
<1>3. TasksBelong'
  <2>1. \/ enrichmentTasks' = enrichmentTasks
        \/ enrichmentTasks' = Append(enrichmentTasks, row)
    BY DEF EnqueueLink, EnqueueEnrichment, NewEnrichmentTask
  <2>2. row.msg = handler.msg
    BY DEF NewEnrichmentTask
  <2>3. \A t \in DOMAIN enrichmentTasks' :
          \/ t \in DOMAIN enrichmentTasks /\ enrichmentTasks'[t] = enrichmentTasks[t]
          \/ enrichmentTasks'[t] = row
    <3> HIDE DEF row
    <3>1. QED
      BY <1>2, <2>1
  <2> HIDE DEF row
  <2>4. QED
    BY <1>1, <1>2, <2>2, <2>3 DEF MessageInv, TasksBelong
<1>4. KeysUnique' /\ RowsBelong' /\ RowsUnique'
  BY <1>1 DEF MessageInv, KeysUnique, RowsBelong, RowsUnique
<1>5. QED
  BY <1>3, <1>4 DEF MessageInv

\* Steps that keep the messages and what the rows and the tasks are about.
LEMMA MessagesUntouched ==
  ASSUME MessageInv, TypeOK', messages' = messages,
         DOMAIN deliveries' = DOMAIN deliveries,
         \A j \in DOMAIN deliveries : SameRow(deliveries[j], deliveries'[j]),
         DOMAIN enrichmentTasks' = DOMAIN enrichmentTasks,
         \A t \in DOMAIN enrichmentTasks : enrichmentTasks'[t].msg = enrichmentTasks[t].msg
  PROVE  MessageInv'
<1>1. KeysUnique' /\ TasksBelong'
  BY DEF MessageInv, KeysUnique, TasksBelong
<1>2. RowsBelong'
  BY DEF MessageInv, RowsBelong, SameRow
<1>3. RowsUnique'
  BY DEF MessageInv, RowsUnique, SameRow
<1>4. QED
  BY <1>1, <1>2, <1>3 DEF MessageInv

\* Every step of the service keeps the invariant.
LEMMA NextMessages == MessageInv /\ [Next]_vars => MessageInv'
<1> SUFFICES ASSUME MessageInv, [Next]_vars PROVE MessageInv'
  OBVIOUS
<1>1. TypeOK /\ TypeOK'
  BY NextType DEF MessageInv
<1>2. CASE \E n \in Notification : ReceiveNotification(n)
  BY <1>1, <1>2, MessageReceived
<1>3. CASE EnqueueOriginal \/ EnqueueEnriched
  BY <1>1, <1>3, MessageQueued
<1>4. CASE EnqueueLink
  BY <1>1, <1>4, LinkQueued
<1>5. CASE DeliveryStep \/ DeliveryBackoffElapses
  <2>1. UNCHANGED <<messages, enrichmentTasks>>
    BY <1>5 DEF DeliveryStep, DeliveryCanceled, ClaimDelivery, ReleaseDelivery, StartSend,
                SendReturns, MarkDeliveryDone, RetryOrFailDelivery, SettleDelivery,
                DeliveryBackoffElapses, tables
  <2>2. QED
    BY <1>1, <1>5, <2>1, WorkerKeepsRows, MessagesUntouched
<1>6. CASE (EnrichmentStep /\ ~EnqueueEnriched) \/ EnrichmentBackoffElapses
  <2>1. UNCHANGED <<messages, deliveries>>
    BY <1>6 DEF EnrichmentStep, EnrichmentCanceled, ClaimEnrichment, ReleaseEnrichment,
                StartFetch, FetchReturns, RecordPage, MarkEnrichmentDone,
                RetryOrFailEnrichment, SettleEnrichment, EnrichmentBackoffElapses, tables
  <2>2. /\ DOMAIN enrichmentTasks' = DOMAIN enrichmentTasks
        /\ \A t \in DOMAIN enrichmentTasks : enrichmentTasks'[t].msg = enrichmentTasks[t].msg
    BY <1>1, <1>6, WorkerKeepsTasks
  <2>3. \A j \in DOMAIN deliveries : SameRow(deliveries[j], deliveries'[j])
    BY <2>1 DEF SameRow
  <2>4. QED
    BY <1>1, <2>1, <2>2, <2>3, MessagesUntouched
<1>7. CASE Cancel \/ UNCHANGED vars
  <2>1. UNCHANGED <<messages, deliveries, enrichmentTasks>>
    BY <1>7 DEF Cancel, vars, tables
  <2>2. QED
    BY <1>1, <2>1, MessagesUntouched DEF SameRow
<1>8. QED
  BY <1>2, <1>3, <1>4, <1>5, <1>6, <1>7 DEF Next, HandlerStep, BackoffElapses

\* Two original rows of one message id are one row.
LEMMA MessageInvImplies == MessageInv => OneOriginalPerQid
<1> SUFFICES ASSUME MessageInv,
                    NEW i \in DOMAIN deliveries, NEW j \in DOMAIN deliveries,
                    deliveries[i].kind = "original",
                    deliveries[j].kind = "original",
                    messages[deliveries[i].msg].qid = messages[deliveries[j].msg].qid,
                    messages[deliveries[i].msg].qid # NoQid
             PROVE  i = j
  BY DEF OneOriginalPerQid
<1>1. deliveries[i].msg \in DOMAIN messages /\ deliveries[j].msg \in DOMAIN messages
  BY DEF MessageInv, RowsBelong
<1>2. deliveries[i].msg = deliveries[j].msg
  <2>1. DedupeKey(messages[deliveries[i].msg]) = DedupeKey(messages[deliveries[j].msg])
    BY DEF DedupeKey
  <2>2. QED
    BY <1>1, <2>1 DEF MessageInv, KeysUnique
<1>3. deliveries[i].payload = deliveries[j].payload
  BY <1>2 DEF MessageInv, RowsBelong
<1>4. QED
  BY <1>2, <1>3 DEF MessageInv, RowsUnique, SameRow

\* A message id is forwarded by one original row at most.
THEOREM QidsAreForwardedOnce == Spec => []OneOriginalPerQid
BY InitMessages, NextMessages, MessageInvImplies, PTL DEF Spec

-----------------------------------------------------------------------------
(* Delivery rows.  The properties lean on each other, so they are proved by one
   inductive invariant.  What it adds to them is the row the worker holds: it is
   running, has the attempts the worker remembers, and has had one request more than
   that from the moment the request is sent.  Every lemma about a step also says what
   the step does to the stranded rows, which is what module BridgeProofs counts. *)

\* What a row says of itself, after n requests; took: the robot accepted it.
RowOK(row, n, took) ==
  /\ n <= WeComMaxAttempts
  /\ row.status = "pending" => n = row.attempts /\ row.attempts < WeComMaxAttempts
  /\ row.status = "failed" => n = WeComMaxAttempts
  /\ row.status = "done" => took = "yes"

Took(i) == IF i \in accepted THEN "yes" ELSE "no"

RowsOK ==
  \A i \in DOMAIN deliveries : RowOK(deliveries[i], Count(requests, i), Took(i))

\* The row in the worker's hands.
HeldRowOK ==
  deliveryWorker.pc \in DeliveryBusy =>
    LET row == deliveries[deliveryWorker.row]
        n == Count(requests, deliveryWorker.row)
    IN  /\ row.status = "running"
        /\ row.attempts = deliveryWorker.attempts
        /\ row.attempts < WeComMaxAttempts
        /\ deliveryWorker.pc = "claimed" => n = row.attempts
        /\ deliveryWorker.pc # "claimed" => n = row.attempts + 1
        /\ deliveryWorker.pc = "sent" => Took(deliveryWorker.row) = "yes"

RowsInv == TypeOK /\ RowsOK /\ HeldRowOK

\* A step strands a row only if it is the one that ends the worker, and only for
\* a store error.
StrandsAtReturn(old, new, worker, next) ==
  /\ worker.pc = "returned" => next = worker
  /\ \/ new \subseteq old
     \/ /\ worker.pc # "returned"
        /\ next.pc = "returned" /\ next.err \in StoreError
        /\ \E i : new \subseteq old \cup {i}

StrandedRows == Stranded(deliveries, deliveryWorker, DeliveryBusy)

StrandsRow ==
  StrandsAtReturn(StrandedRows, StrandedRows', deliveryWorker, deliveryWorker')

DeliveryInv == RowsInv /\ StrandsOnlyByError(deliveries, deliveryWorker, DeliveryBusy)

-----------------------------------------------------------------------------
(* Steps *)

\* The service starts without rows.
LEMMA InitDelivery == Init => DeliveryInv
<1> SUFFICES ASSUME Init PROVE DeliveryInv
  OBVIOUS
<1>1. TypeOK
  BY InitType
<1>2. DOMAIN deliveries = {}
  BY DEF Init
<1>3. RowsOK
  BY <1>2 DEF RowsOK
<1>4. HeldRowOK
  BY DEF Init, HeldRowOK, DeliveryIdle, DeliveryBusy
<1>5. StrandsOnlyByError(deliveries, deliveryWorker, DeliveryBusy)
  BY <1>2 DEF StrandsOnlyByError, Stranded
<1>6. QED
  BY <1>1, <1>3, <1>4, <1>5 DEF DeliveryInv, RowsInv

\* Steps that leave the rows, the worker and its history alone.
LEMMA DeliveriesUntouched ==
  ASSUME RowsInv, TypeOK',
         UNCHANGED <<deliveries, deliveryWorker, requests, accepted>>
  PROVE  RowsInv' /\ StrandsRow
BY DEF RowsInv, RowsOK, RowOK, Took, Count, HeldRowOK, StrandsRow, StrandsAtReturn,
       StrandedRows, Stranded

\* A row that is queued is pending, with no attempts and no requests.
LEMMA DeliveryQueued ==
  ASSUME RowsInv, TypeOK',
         NEW m, NEW kind, NEW payload,
         deliveries' = Append(deliveries, NewDelivery(m, kind, payload)),
         UNCHANGED <<deliveryWorker, requests, accepted>>
  PROVE  RowsInv' /\ StrandsRow
<1> DEFINE new == Len(deliveries) + 1
<1>1. /\ DOMAIN deliveries' = DOMAIN deliveries \cup {new}
      /\ new \notin DOMAIN deliveries
      /\ deliveries'[new] = NewDelivery(m, kind, payload)
      /\ \A j \in DOMAIN deliveries : deliveries'[j] = deliveries[j]
  <2>1. deliveries \in Seq(Delivery) /\ deliveries' \in Seq(Delivery)
    BY DEF RowsInv, TypeOK, TablesOK
  <2>2. QED
    BY <2>1
<1>2. /\ deliveries'[new].status = "pending"
      /\ deliveries'[new].attempts = 0
  BY <1>1 DEF NewDelivery
<1>3. Count(requests, new) = 0
  BY <1>1 DEF RowsInv, TypeOK, HistoryOK, Count
<1>4. RowsOK'
  <2>1. ASSUME NEW j \in DOMAIN deliveries
        PROVE  RowOK(deliveries[j], Count(requests, j), Took(j))'
    BY <1>1, <2>1 DEF RowsInv, RowsOK, RowOK, Count, Took
  <2>2. RowOK(deliveries'[new], Count(requests, new), Took(new))
    BY <1>2, <1>3, AttemptsAssumption DEF RowOK
  <2>3. QED
    BY <1>1, <2>1, <2>2 DEF RowsOK, Took
<1>5. HeldRowOK'
  BY <1>1 DEF RowsInv, TypeOK, DeliveryWorkerOK, HeldRowOK, Count, Took
<1>6. StrandsRow
  BY <1>1, <1>2 DEF StrandsRow, StrandsAtReturn, StrandedRows, Stranded
<1>7. QED
  BY <1>4, <1>5, <1>6 DEF RowsInv

\* The worker settles the row it holds, or fails to and ends.
LEMMA DeliverySettled ==
  ASSUME RowsInv, TypeOK',
         deliveryWorker.pc \in DeliveryBusy,
         NEW row, row.status # "running",
         RowOK(row, Count(requests, deliveryWorker.row), Took(deliveryWorker.row)),
         NEW after, after.pc \notin DeliveryBusy,
         SettleDelivery(Update(deliveries, deliveryWorker.row, row), after)
  PROVE  RowsInv' /\ StrandsRow
<1> DEFINE i == deliveryWorker.row
           table == Update(deliveries, i, row)
<1>1. i \in DOMAIN deliveries
  BY DEF RowsInv, TypeOK, DeliveryWorkerOK
<1>2. /\ DOMAIN table = DOMAIN deliveries
      /\ table[i] = row
      /\ \A j : j \in DOMAIN deliveries /\ j # i => table[j] = deliveries[j]
  BY <1>1, UpdateAt
<1>3. /\ deliveries' \in {deliveries, table}
      /\ requests' = requests /\ accepted' = accepted
      /\ \/ deliveries' = table /\ deliveryWorker' = after
         \/ \E e \in StoreError : deliveryWorker' = Returned(deliveryWorker, e)
  BY DEF SettleDelivery, outside
<1>4. deliveryWorker.pc # "returned" /\ deliveryWorker \in DeliveryWorker
  BY DEF DeliveryBusy, RowsInv, TypeOK, DeliveryWorkerOK
<1>5. RowsOK'
  BY <1>2, <1>3 DEF RowsInv, RowsOK, RowOK, Count, Took
<1>6. HeldRowOK'
  BY <1>3 DEF HeldRowOK, Returned, DeliveryBusy, RowsInv, TypeOK, DeliveryWorkerOK,
              DeliveryWorker
<1>7. StrandsRow
  <2>1. CASE deliveries' = table /\ deliveryWorker' = after
    <3>1. StrandedRows' \subseteq StrandedRows
      BY <1>2, <2>1 DEF StrandedRows, Stranded
    <3>2. QED
      BY <1>4, <3>1 DEF StrandsRow, StrandsAtReturn
  <2>2. ASSUME NEW e \in StoreError, deliveryWorker' = Returned(deliveryWorker, e)
        PROVE  StrandsRow
    <3>1. deliveryWorker'.pc = "returned" /\ deliveryWorker'.err \in StoreError
      BY <1>4, <2>2 DEF Returned, DeliveryWorker
    <3>2. StrandedRows' \subseteq StrandedRows \cup {i}
      BY <1>2, <1>3 DEF StrandedRows, Stranded
    <3>3. QED
      BY <1>4, <3>1, <3>2 DEF StrandsRow, StrandsAtReturn
  <2>3. QED
    BY <1>3, <2>1, <2>2
<1>8. QED
  BY <1>5, <1>6, <1>7 DEF RowsInv

\* The worker takes a row that waits, or fails to and ends.
LEMMA DeliveryClaimed ==
  ASSUME RowsInv, TypeOK', ClaimDelivery
  PROVE  RowsInv' /\ StrandsRow
<1>1. /\ deliveryWorker.pc = "poll"
      /\ deliveryWorker \in DeliveryWorker
      /\ UNCHANGED <<requests, accepted>>
  BY DEF ClaimDelivery, RowsInv, TypeOK, DeliveryWorkerOK, outside
<1>2. deliveryWorker.pc # "returned" /\ deliveryWorker.pc \notin DeliveryBusy
  BY <1>1 DEF DeliveryBusy
<1>3. ASSUME NEW i \in SelectTasks(deliveries), deliveries' = ClaimTask(deliveries, i)
      PROVE  /\ DOMAIN deliveries' = DOMAIN deliveries
             /\ i \in DOMAIN deliveries
             /\ deliveries'[i].status = "running"
             /\ deliveries'[i].attempts = deliveries[i].attempts
             /\ deliveries[i].attempts = Count(requests, i)
             /\ Count(requests, i) < WeComMaxAttempts
             /\ \A j : j \in DOMAIN deliveries /\ j # i => deliveries'[j] = deliveries[j]
  <2>1. i \in DOMAIN deliveries /\ deliveries[i].status = "pending"
    BY SelectedIsPending
  <2>2. /\ deliveries' = Update(deliveries, i, [deliveries[i] EXCEPT !.status = "running"])
        /\ deliveries[i] \in Delivery
    BY <1>3, <2>1 DEF ClaimTask, RowsInv, TypeOK, TablesOK
  <2>3. /\ [deliveries[i] EXCEPT !.status = "running"].status = "running"
        /\ [deliveries[i] EXCEPT !.status = "running"].attempts = deliveries[i].attempts
    BY <2>2 DEF Delivery
  <2>4. deliveries[i].attempts = Count(requests, i) /\ Count(requests, i) < WeComMaxAttempts
    BY <2>1 DEF RowsInv, RowsOK, RowOK
  <2>5. /\ DOMAIN deliveries' = DOMAIN deliveries
        /\ deliveries'[i] = [deliveries[i] EXCEPT !.status = "running"]
        /\ \A j : j \in DOMAIN deliveries /\ j # i => deliveries'[j] = deliveries[j]
    BY <2>1, <2>2, UpdateAt
  <2>6. QED
    BY <2>1, <2>3, <2>4, <2>5
<1>4. CASE deliveries' = deliveries /\ deliveryWorker'.pc = "returned"
  <2>1. RowsOK' /\ HeldRowOK'
    BY <1>1, <1>4 DEF RowsInv, RowsOK, RowOK, Count, Took, HeldRowOK, DeliveryBusy
  <2>2. StrandedRows' \subseteq StrandedRows
    BY <1>2, <1>4 DEF StrandedRows, Stranded
  <2>3. QED
    BY <1>2, <2>1, <2>2 DEF RowsInv, StrandsRow, StrandsAtReturn
<1>5. ASSUME NEW i \in SelectTasks(deliveries), deliveries' = ClaimTask(deliveries, i),
             \/ /\ deliveryWorker'.pc = "claimed"
                /\ deliveryWorker'.row = i
                /\ deliveryWorker'.attempts = deliveries[i].attempts
             \/ deliveryWorker'.pc = "returned" /\ deliveryWorker'.err \in StoreError
      PROVE  RowsInv' /\ StrandsRow
  <2>1. RowsOK'
    BY <1>1, <1>3, <1>5 DEF RowsInv, RowsOK, RowOK, Count, Took
  <2>2. HeldRowOK'
    BY <1>1, <1>3, <1>5 DEF HeldRowOK, Count, DeliveryBusy
  <2>3. StrandsRow
    <3>1. StrandedRows' \subseteq StrandedRows \cup {i}
      BY <1>2, <1>3, <1>5 DEF StrandedRows, Stranded
    <3>2. CASE deliveryWorker'.pc = "claimed" /\ deliveryWorker'.row = i
      <4>1. i \notin StrandedRows'
        BY <3>2 DEF StrandedRows, Stranded, DeliveryBusy
      <4>2. StrandedRows' \subseteq StrandedRows
        BY <3>1, <4>1
      <4>3. QED
        BY <1>2, <4>2 DEF StrandsRow, StrandsAtReturn
    <3>3. CASE deliveryWorker'.pc = "returned" /\ deliveryWorker'.err \in StoreError
      BY <1>2, <3>1, <3>3 DEF StrandsRow, StrandsAtReturn
    <3>4. QED
      BY <1>5, <3>2, <3>3
  <2>4. QED
    BY <2>1, <2>2, <2>3 DEF RowsInv
<1>6. \/ deliveries' = deliveries /\ deliveryWorker'.pc = "returned"
      \/ \E i \in SelectTasks(deliveries) :
           /\ deliveries' = ClaimTask(deliveries, i)
           /\ \/ /\ deliveryWorker'.pc = "claimed"
                 /\ deliveryWorker'.row = i
                 /\ deliveryWorker'.attempts = deliveries[i].attempts
              \/ deliveryWorker'.pc = "returned" /\ deliveryWorker'.err \in StoreError
  <2>1. \A i : /\ [deliveryWorker EXCEPT !.pc = "claimed", !.row = i,
                     !.attempts = deliveries[i].attempts].pc = "claimed"
               /\ [deliveryWorker EXCEPT !.pc = "claimed", !.row = i,
                     !.attempts = deliveries[i].attempts].row = i
               /\ [deliveryWorker EXCEPT !.pc = "claimed", !.row = i,
                     !.attempts = deliveries[i].attempts].attempts = deliveries[i].attempts
    BY <1>1 DEF DeliveryWorker
  <2>2. \A e : /\ Returned(deliveryWorker, e).pc = "returned"
               /\ Returned(deliveryWorker, e).err = e
    BY <1>1 DEF DeliveryWorker, Returned
  <2>3. \/ \E i \in SelectTasks(deliveries) :
             /\ deliveries' = ClaimTask(deliveries, i)
             /\ deliveryWorker' = [deliveryWorker EXCEPT !.pc = "claimed", !.row = i,
                                     !.attempts = deliveries[i].attempts]
        \/ /\ \E e \in StoreError : deliveryWorker' = Returned(deliveryWorker, e)
           /\ \/ deliveries' = deliveries
              \/ \E i \in SelectTasks(deliveries) : deliveries' = ClaimTask(deliveries, i)
    BY DEF ClaimDelivery, StoreError
  <2>4. CASE \E e \in StoreError : deliveryWorker' = Returned(deliveryWorker, e)
    <3>1. deliveryWorker'.pc = "returned" /\ deliveryWorker'.err \in StoreError
      BY <2>2, <2>4
    <3>2. \/ deliveries' = deliveries
          \/ \E i \in SelectTasks(deliveries) : deliveries' = ClaimTask(deliveries, i)
      BY <2>3
    <3>3. QED
      BY <3>1, <3>2
  <2>5. ASSUME NEW i \in SelectTasks(deliveries),
               deliveries' = ClaimTask(deliveries, i),
               deliveryWorker' = [deliveryWorker EXCEPT !.pc = "claimed", !.row = i,
                                    !.attempts = deliveries[i].attempts]
        PROVE  /\ deliveries' = ClaimTask(deliveries, i)
               /\ deliveryWorker'.pc = "claimed"
               /\ deliveryWorker'.row = i
               /\ deliveryWorker'.attempts = deliveries[i].attempts
    BY <2>1, <2>5
  <2>6. QED
    BY <2>3, <2>4, <2>5
<1>7. QED
  BY <1>4, <1>5, <1>6

\* The request and the robot's answer.
LEMMA DeliveryRequested ==
  ASSUME RowsInv, TypeOK', StartSend \/ SendReturns
  PROVE  RowsInv' /\ StrandsRow
<1>0. PICK i : i = deliveryWorker.row
  OBVIOUS
<1>a. /\ deliveryWorker.pc \in {"claimed", "sending"}
      /\ deliveries' = deliveries
  BY DEF StartSend, SendReturns, tables
<1>b. /\ deliveryWorker \in DeliveryWorker
      /\ i \in DOMAIN deliveries
      /\ deliveries[i] \in Delivery
  BY <1>0, <1>a DEF RowsInv, TypeOK, TablesOK, DeliveryWorkerOK, DeliveryBusy
<1>1. /\ deliveryWorker.pc \in {"claimed", "sending"}
      /\ deliveryWorker \in DeliveryWorker
      /\ i \in DOMAIN deliveries
      /\ deliveries' = deliveries
      /\ deliveries[i].status = "running"
      /\ deliveries[i].attempts = deliveryWorker.attempts
      /\ deliveries[i].attempts \in Nat
      /\ deliveries[i].attempts < WeComMaxAttempts
  BY <1>0, <1>a, <1>b DEF RowsInv, HeldRowOK, DeliveryBusy, Delivery
<1>2. deliveryWorker.pc # "returned" /\ deliveryWorker.pc \in DeliveryBusy
  BY <1>1 DEF DeliveryBusy
<1>3. /\ deliveryWorker'.row = i
      /\ deliveryWorker'.attempts = deliveryWorker.attempts
      /\ deliveryWorker'.pc \in DeliveryBusy \ {"claimed"}
  BY <1>0, <1>1 DEF StartSend, SendReturns, DeliveryWorker, DeliveryBusy
<1>4. /\ Count(requests', i) = deliveries[i].attempts + 1
      /\ \A j : j # i => Count(requests', j) = Count(requests, j)
  <2>1. CASE StartSend
    <3>1. requests' = OneMore(requests, i) /\ deliveryWorker.pc = "claimed"
      BY <1>0, <2>1 DEF StartSend
    <3>2. \A j \in DOMAIN requests : requests[j] \in Nat
      BY DEF RowsInv, TypeOK, HistoryOK
    <3>3. /\ Count(requests', i) = Count(requests, i) + 1
          /\ \A j : j # i => Count(requests', j) = Count(requests, j)
      <4>1. /\ Count(OneMore(requests, i), i) = Count(requests, i) + 1
            /\ \A j : j # i => Count(OneMore(requests, i), j) = Count(requests, j)
        BY <3>2, OneMoreType
      <4>2. QED
        BY <3>1, <4>1
    <3>4. Count(requests, i) = deliveries[i].attempts
      BY <1>0, <3>1 DEF RowsInv, HeldRowOK, DeliveryBusy
    <3>5. QED
      BY <3>3, <3>4
  <2>2. CASE SendReturns
    BY <1>0, <1>1, <2>2 DEF SendReturns, RowsInv, HeldRowOK, DeliveryBusy
  <2>3. QED
    BY <2>1, <2>2
<1>5. /\ \A j \in accepted : j \in accepted'
      /\ deliveryWorker'.pc = "sent" => i \in accepted'
  BY <1>0, <1>1 DEF StartSend, SendReturns, DeliveryWorker
<1>6. RowsOK'
  <2>1. ASSUME NEW j \in DOMAIN deliveries, j # i
        PROVE  RowOK(deliveries[j], Count(requests, j), Took(j))'
    BY <1>1, <1>4, <1>5, <2>1 DEF RowsInv, RowsOK, RowOK, Took
  <2>2. RowOK(deliveries[i], Count(requests, i), Took(i))'
    BY <1>1, <1>4, AttemptsAssumption DEF RowOK
  <2>3. QED
    BY <1>1, <2>1, <2>2 DEF RowsOK
<1>7. HeldRowOK'
  BY <1>1, <1>3, <1>4, <1>5 DEF HeldRowOK, Took, DeliveryBusy
<1>8. StrandsRow
  <2>1. StrandedRows' = StrandedRows
    BY <1>0, <1>1, <1>2, <1>3 DEF StrandedRows, Stranded
  <2>2. QED
    BY <1>2, <2>1 DEF StrandsRow, StrandsAtReturn
<1>9. QED
  BY <1>6, <1>7, <1>8 DEF RowsInv

\* The rows a worker may write back: pending again, done, or failed.
LEMMA DeliveryGivenUp ==
  ASSUME RowsInv, TypeOK',
         DeliveryCanceled \/ ReleaseDelivery \/ MarkDeliveryDone \/ RetryOrFailDelivery
  PROVE  RowsInv' /\ StrandsRow
<1>0. PICK i : i = deliveryWorker.row
  OBVIOUS
<1>1. deliveryWorker \in DeliveryWorker
  BY DEF RowsInv, TypeOK, DeliveryWorkerOK
<1>2. ASSUME deliveryWorker.pc \in DeliveryBusy
      PROVE  /\ deliveries[i] \in Delivery
             /\ deliveries[i].attempts = deliveryWorker.attempts
             /\ deliveries[i].attempts < WeComMaxAttempts
             /\ Count(requests, i) =
                  deliveries[i].attempts + (IF deliveryWorker.pc = "claimed" THEN 0 ELSE 1)
             /\ deliveryWorker.pc = "sent" => Took(i) = "yes"
             /\ Count(requests, i) <= WeComMaxAttempts
  <2>1. deliveries[i] \in Delivery /\ i \in DOMAIN deliveries
    BY <1>0, <1>2 DEF RowsInv, TypeOK, TablesOK, DeliveryWorkerOK
  <2>2. /\ deliveries[i].attempts = deliveryWorker.attempts
        /\ deliveries[i].attempts < WeComMaxAttempts
        /\ deliveryWorker.pc = "claimed" => Count(requests, i) = deliveries[i].attempts
        /\ deliveryWorker.pc # "claimed" => Count(requests, i) = deliveries[i].attempts + 1
        /\ deliveryWorker.pc = "sent" => Took(i) = "yes"
    BY <1>0, <1>2 DEF RowsInv, HeldRowOK
  <2>3. deliveries[i].attempts \in Nat
    BY <2>1 DEF Delivery
  <2>4. Count(requests, i) <= WeComMaxAttempts
    BY <2>1 DEF RowsInv, RowsOK, RowOK
  <2>5. QED
    BY <2>1, <2>2, <2>3, <2>4
<1>3. CASE DeliveryCanceled
  <2>1. /\ deliveryWorker.pc = "poll"
        /\ deliveryWorker'.pc = "returned"
        /\ UNCHANGED <<deliveries, requests, accepted>>
    BY <1>1, <1>3 DEF DeliveryCanceled, Returned, DeliveryWorker, tables, outside
  <2>2. RowsOK' /\ HeldRowOK'
    BY <2>1 DEF RowsInv, RowsOK, RowOK, Took, Count, HeldRowOK, DeliveryBusy
  <2>3. StrandedRows' \subseteq StrandedRows
    BY <2>1 DEF StrandedRows, Stranded, DeliveryBusy
  <2>4. QED
    BY <2>1, <2>2, <2>3 DEF RowsInv, StrandsRow, StrandsAtReturn
<1>4. CASE ReleaseDelivery
  <2> DEFINE row == [deliveries[i] EXCEPT !.status = "pending",
                                          !.attempts = deliveryWorker.attempts,
                                          !.next = "past"]
             after == Returned(deliveryWorker, "canceled")
  <2>1. deliveryWorker.pc = "claimed" /\ deliveryWorker.pc \in DeliveryBusy
    BY <1>4 DEF ReleaseDelivery, DeliveryBusy
  <2>2. row.status = "pending" /\ row.attempts = deliveryWorker.attempts
    BY <1>2, <2>1 DEF Delivery
  <2>3. RowOK(row, Count(requests, i), Took(i))
    <3> HIDE DEF row
    <3>1. deliveries[i].attempts \in Nat
      BY <1>2, <2>1 DEF Delivery
    <3>2. QED
      BY <1>2, <2>1, <2>2, <3>1 DEF RowOK
  <2>4. after.pc \notin DeliveryBusy
    BY <1>1 DEF Returned, DeliveryWorker, DeliveryBusy
  <2>5. SettleDelivery(Update(deliveries, deliveryWorker.row, row), after)
    BY <1>0, <1>4 DEF ReleaseDelivery, MarkRetry
  <2> HIDE DEF row, after
  <2>6. QED
    BY <1>0, <2>1, <2>2, <2>3, <2>4, <2>5, DeliverySettled
<1>5. CASE MarkDeliveryDone
  <2> DEFINE row == [deliveries[i] EXCEPT !.status = "done"]
  <2>1. deliveryWorker.pc = "sent" /\ deliveryWorker.pc \in DeliveryBusy
    BY <1>5 DEF MarkDeliveryDone, DeliveryBusy
  <2>2. row.status = "done"
    BY <1>2, <2>1 DEF Delivery
  <2>3. RowOK(row, Count(requests, i), Took(i))
    <3> HIDE DEF row
    <3>1. QED
      BY <1>2, <2>1, <2>2 DEF RowOK
  <2>4. DeliveryIdle.pc \notin DeliveryBusy
    BY DEF DeliveryIdle, DeliveryBusy
  <2>5. SettleDelivery(Update(deliveries, deliveryWorker.row, row), DeliveryIdle)
    BY <1>0, <1>5 DEF MarkDeliveryDone, MarkDone
  <2> HIDE DEF row
  <2>6. QED
    BY <1>0, <2>1, <2>2, <2>3, <2>4, <2>5, DeliverySettled
<1>6. CASE RetryOrFailDelivery
  <2> DEFINE spent == deliveryWorker.attempts + 1
             failed == [deliveries[i] EXCEPT !.status = "failed"]
             retried == [deliveries[i] EXCEPT !.status = "pending", !.attempts = spent,
                                              !.next = "future"]
  <2>1. deliveryWorker.pc = "refused" /\ deliveryWorker.pc \in DeliveryBusy
    BY <1>6 DEF RetryOrFailDelivery, DeliveryBusy
  <2>2. /\ failed.status = "failed"
        /\ retried.status = "pending" /\ retried.attempts = spent
    BY <1>2, <2>1 DEF Delivery
  <2>3. spent \in Nat /\ spent <= WeComMaxAttempts /\ Count(requests, i) = spent
    <3>1. deliveries[i].attempts \in Nat
      BY <1>2, <2>1 DEF Delivery
    <3>2. QED
      BY <1>2, <2>1, <3>1, AttemptsAssumption
  <2>4. DeliveryIdle.pc \notin DeliveryBusy
    BY DEF DeliveryIdle, DeliveryBusy
  <2>5. SettleDelivery(IF spent >= WeComMaxAttempts
                       THEN Update(deliveries, deliveryWorker.row, failed)
                       ELSE Update(deliveries, deliveryWorker.row, retried), DeliveryIdle)
    BY <1>0, <1>6 DEF RetryOrFailDelivery, MarkFailed, MarkRetry
  <2> HIDE DEF spent, failed, retried
  <2>6. CASE spent >= WeComMaxAttempts
    <3>1. RowOK(failed, Count(requests, i), Took(i))
      BY <2>2, <2>3, <2>6, AttemptsAssumption DEF RowOK
    <3>2. SettleDelivery(Update(deliveries, deliveryWorker.row, failed), DeliveryIdle)
      BY <2>5, <2>6
    <3>3. QED
      BY <1>0, <2>1, <2>2, <2>4, <3>1, <3>2, DeliverySettled
  <2>7. CASE ~(spent >= WeComMaxAttempts)
    <3>1. RowOK(retried, Count(requests, i), Took(i))
      BY <2>2, <2>3, <2>7, AttemptsAssumption DEF RowOK
    <3>2. SettleDelivery(Update(deliveries, deliveryWorker.row, retried), DeliveryIdle)
      BY <2>5, <2>7
    <3>3. QED
      BY <1>0, <2>1, <2>2, <2>4, <3>1, <3>2, DeliverySettled
  <2>8. QED
    BY <2>6, <2>7
<1>7. QED
  BY <1>3, <1>4, <1>5, <1>6

\* A row whose backoff runs out only becomes due.
LEMMA DeliveryDue ==
  ASSUME RowsInv, TypeOK', DeliveryBackoffElapses
  PROVE  RowsInv' /\ StrandsRow
<1>1. PICK i \in Waiting(deliveries) : deliveries' = BecomeDue(deliveries, i)
  BY DEF DeliveryBackoffElapses
<1>2. UNCHANGED <<deliveryWorker, requests, accepted>>
  BY DEF DeliveryBackoffElapses, outside
<1>3. i \in DOMAIN deliveries /\ deliveries[i] \in Delivery
  BY DEF Waiting, RowsInv, TypeOK, TablesOK
<1>4. /\ [deliveries[i] EXCEPT !.next = "past"].status = deliveries[i].status
      /\ [deliveries[i] EXCEPT !.next = "past"].attempts = deliveries[i].attempts
  BY <1>3 DEF Delivery
<1>5. /\ DOMAIN deliveries' = DOMAIN deliveries
      /\ deliveries'[i] = [deliveries[i] EXCEPT !.next = "past"]
      /\ \A j : j \in DOMAIN deliveries /\ j # i => deliveries'[j] = deliveries[j]
  BY <1>1, <1>3, UpdateAt DEF BecomeDue
<1>6. \A j \in DOMAIN deliveries : /\ deliveries'[j].status = deliveries[j].status
                                   /\ deliveries'[j].attempts = deliveries[j].attempts
  BY <1>4, <1>5
<1>7. RowsOK'
  BY <1>2, <1>5, <1>6 DEF RowsInv, RowsOK, RowOK, Count, Took
<1>8. HeldRowOK'
  BY <1>2, <1>5, <1>6 DEF RowsInv, TypeOK, DeliveryWorkerOK, HeldRowOK, Count, Took
<1>9. StrandsRow
  BY <1>2, <1>5, <1>6 DEF StrandsRow, StrandsAtReturn, StrandedRows, Stranded
<1>10. QED
  BY <1>7, <1>8, <1>9 DEF RowsInv

\* The handler and the enrichment worker only queue rows.
LEMMA DeliveryHandled ==
  ASSUME RowsInv, TypeOK', EnqueueOriginal \/ EnqueueEnriched
  PROVE  RowsInv' /\ StrandsRow
<1>1. deliveries \in Seq(Delivery) /\ messages \in Seq(Notification)
  BY DEF RowsInv, TypeOK, TablesOK
<1>2. UNCHANGED <<deliveryWorker, requests, accepted>>
  BY DEF EnqueueOriginal, EnqueueEnriched, outside
<1>3. \E m, kind, payload :
        \/ deliveries' = deliveries
        \/ deliveries' = Append(deliveries, NewDelivery(m, kind, payload))
  <2>1. CASE EnqueueOriginal
    <3>1. \/ deliveries' = deliveries
          \/ deliveries' = EnqueueDelivery(deliveries, handler.msg, "original",
                                           OriginalPayload(messages[handler.msg]))
      BY <2>1 DEF EnqueueOriginal
    <3>2. QED
      BY <3>1 DEF EnqueueDelivery, NewDelivery
  <2>2. CASE EnqueueEnriched
    <3>1. \/ deliveries' = deliveries
          \/ deliveries' = EnqueueDelivery(deliveries,
               enrichmentTasks[enrichmentWorker.row].msg, "enriched",
               EnrichedPayload(enrichmentTasks[enrichmentWorker.row].url,
                               enrichmentWorker.page))
      BY <2>2 DEF EnqueueEnriched
    <3>2. QED
      BY <3>1 DEF EnqueueDelivery, NewDelivery
  <2>3. QED
    BY <2>1, <2>2
<1>4. CASE deliveries' = deliveries
  BY <1>2, <1>4, DeliveriesUntouched
<1>5. QED
  BY <1>2, <1>3, <1>4, DeliveryQueued

\* Every step of the service keeps what the rows and the held row say.
LEMMA NextRows == RowsInv /\ [Next]_vars => RowsInv' /\ StrandsRow
<1> SUFFICES ASSUME RowsInv, [Next]_vars PROVE RowsInv' /\ StrandsRow
  OBVIOUS
<1>1. TypeOK'
  BY NextType DEF RowsInv
<1>2. CASE DeliveryStep
  BY <1>1, <1>2, DeliveryClaimed, DeliveryRequested, DeliveryGivenUp DEF DeliveryStep
<1>3. CASE EnqueueOriginal \/ EnqueueEnriched
  BY <1>1, <1>3, DeliveryHandled
<1>4. CASE DeliveryBackoffElapses
  BY <1>1, <1>4, DeliveryDue
<1>5. CASE EnrichmentStep /\ ~EnqueueEnriched
  <2>1. UNCHANGED <<deliveries, deliveryWorker, requests, accepted>>
    BY <1>5 DEF EnrichmentStep, EnrichmentCanceled, ClaimEnrichment, ReleaseEnrichment,
                StartFetch, FetchReturns, RecordPage, MarkEnrichmentDone,
                RetryOrFailEnrichment, SettleEnrichment, tables, outside
  <2>2. QED
    BY <1>1, <2>1, DeliveriesUntouched
<1>6. CASE \/ \E n \in Notification : ReceiveNotification(n)
           \/ EnqueueLink \/ EnrichmentBackoffElapses \/ Cancel \/ UNCHANGED vars
  <2>1. UNCHANGED <<deliveries, deliveryWorker, requests, accepted>>
    BY <1>6 DEF ReceiveNotification, EnqueueLink, EnrichmentBackoffElapses, Cancel, vars,
                tables, outside
  <2>2. QED
    BY <1>1, <2>1, DeliveriesUntouched
<1>7. QED
  BY <1>2, <1>3, <1>4, <1>5, <1>6 DEF Next, HandlerStep, BackoffElapses

\* A worker that strands one row at most when it ends strands one row at most.
LEMMA StrandsOnce ==
  ASSUME NEW old, NEW new, NEW worker, NEW next, StrandsAtReturn(old, new, worker, next),
         \/ old = {}
         \/ /\ worker.pc = "returned"
            /\ worker.err \in StoreError
            /\ \A i, j \in old : i = j
  PROVE  \/ new = {}
         \/ /\ next.pc = "returned"
            /\ next.err \in StoreError
            /\ \A i, j \in new : i = j
BY DEF StrandsAtReturn

LEMMA NextDelivery == DeliveryInv /\ [Next]_vars => DeliveryInv'
<1> SUFFICES ASSUME DeliveryInv, [Next]_vars PROVE DeliveryInv'
  OBVIOUS
<1>1. RowsInv' /\ StrandsRow
  BY NextRows DEF DeliveryInv
<1>2. StrandsOnlyByError(deliveries, deliveryWorker, DeliveryBusy)'
  BY <1>1, StrandsOnce DEF DeliveryInv, StrandsOnlyByError, StrandsRow, StrandedRows
<1>3. QED
  BY <1>1, <1>2 DEF DeliveryInv

\* What the rows' invariant says of the properties.
LEMMA RowsInvImplies ==
  RowsInv => DoneWasAccepted /\ DeliveryBudget
BY DEF RowsInv, RowsOK, RowOK, Took, DoneWasAccepted, DeliveryBudget

\* The inductive invariant holds throughout.
LEMMA DeliveryInvariant == Spec => []DeliveryInv
BY InitDelivery, NextDelivery, PTL DEF Spec

-----------------------------------------------------------------------------
(* The rows as an outbox: each statement is an Outbox step or none. *)

OutcomeOf(row) == IF Settled(row) THEN row.status ELSE "open"

\* Writing one row changes one outcome.
LEMMA OutcomeOfUpdate ==
  ASSUME NEW table, NEW i \in DOMAIN table, NEW row
  PROVE  OutboxOf(Update(table, i, row)) = [OutboxOf(table) EXCEPT ![i] = OutcomeOf(row)]
BY DEF OutboxOf, OutcomeOf, Update

\* Writing a row with the outcome it had changes none.
LEMMA SameOutcome ==
  ASSUME NEW table, NEW i \in DOMAIN table, NEW row, OutcomeOf(row) = OutcomeOf(table[i])
  PROVE  OutboxOf(Update(table, i, row)) = OutboxOf(table)
BY DEF OutboxOf, OutcomeOf, Update

\* A row that is queued is pending.
LEMMA InsertPending ==
  ASSUME NEW table \in Seq(Delivery),
         NEW m \in Nat, NEW kind \in DeliveryKind, NEW payload \in Payload
  PROVE  \/ EnqueueDelivery(table, m, kind, payload) = table
         \/ \E row \in Delivery :
              /\ row.status = "pending"
              /\ EnqueueDelivery(table, m, kind, payload) = Append(table, row)
<1>1. NewDelivery(m, kind, payload) \in Delivery
  BY InsertDelivery
<1>2. NewDelivery(m, kind, payload).status = "pending"
  BY DEF NewDelivery
<1>3. \/ EnqueueDelivery(table, m, kind, payload) = table
      \/ EnqueueDelivery(table, m, kind, payload) =
           Append(table, NewDelivery(m, kind, payload))
  BY DEF EnqueueDelivery, NewDelivery
<1>4. QED
  BY <1>1, <1>2, <1>3

\* A queued row is an open entry.
LEMMA OutcomeOfInsert ==
  ASSUME NEW table \in Seq(Delivery), NEW row \in Delivery, row.status = "pending"
  PROVE  OutboxOf(Append(table, row)) = Append(OutboxOf(table), "open")
<1> DEFINE new == Len(table) + 1
<1>1. /\ DOMAIN Append(table, row) = 1 .. new
      /\ DOMAIN table = 1 .. Len(table)
      /\ Len(table) \in Nat
      /\ Append(table, row)[new] = row
      /\ \A j \in 1 .. Len(table) : Append(table, row)[j] = table[j]
  OBVIOUS
<1>2. /\ OutboxOf(table) \in Seq({"open", "done", "failed"})
      /\ Len(OutboxOf(table)) = Len(table)
  <2>1. OutboxOf(table) \in [1 .. Len(table) -> {"open", "done", "failed"}]
    BY <1>1 DEF OutboxOf, Settled
  <2>2. QED
    BY <1>1, <2>1
<1>3. /\ DOMAIN Append(OutboxOf(table), "open") = 1 .. new
      /\ Append(OutboxOf(table), "open")[new] = "open"
      /\ \A j \in 1 .. Len(table) :
           Append(OutboxOf(table), "open")[j] = OutboxOf(table)[j]
  BY <1>1, <1>2
<1>4. /\ DOMAIN OutboxOf(Append(table, row)) = 1 .. new
      /\ OutboxOf(Append(table, row))[new] = "open"
      /\ \A j \in 1 .. Len(table) : OutboxOf(Append(table, row))[j] = OutboxOf(table)[j]
  BY <1>1 DEF OutboxOf, Settled
<1>5. \A j \in 1 .. new :
        OutboxOf(Append(table, row))[j] = Append(OutboxOf(table), "open")[j]
  BY <1>1, <1>3, <1>4
<1>6. /\ OutboxOf(Append(table, row)) \in Seq({"open", "done", "failed"})
      /\ Append(OutboxOf(table), "open") \in Seq({"open", "done", "failed"})
  <2>1. OutboxOf(Append(table, row)) \in [1 .. new -> {"open", "done", "failed"}]
    BY <1>1, <1>4 DEF OutboxOf, Settled
  <2>2. QED
    BY <1>1, <1>2, <2>1
<1>7. QED
  BY <1>3, <1>4, <1>5, <1>6, SeqEqual

-----------------------------------------------------------------------------

\* The service starts as an empty outbox.
LEMMA InitRefines == Init => Promise!Init
<1> SUFFICES ASSUME Init PROVE Promise!Init
  OBVIOUS
<1>1. deliveries = <<>> /\ requests = <<>> /\ accepted = {}
  BY DEF Init
<1>2. OutboxOf(deliveries) = <<>>
  BY <1>1 DEF OutboxOf
<1>3. QED
  BY <1>1, <1>2 DEF Promise!Init

\* Steps that leave the rows alone, or their outcomes, are stutters.
LEMMA Stutters ==
  ASSUME OutboxOf(deliveries)' = OutboxOf(deliveries), UNCHANGED <<requests, accepted>>
  PROVE  [Promise!Next]_Promise!outbox
BY DEF Promise!outbox

\* Queueing a row offers an entry.
LEMMA QueueingOffers ==
  ASSUME TypeOK, TypeOK', EnqueueOriginal \/ EnqueueEnriched
  PROVE  [Promise!Next]_Promise!outbox
<1>1. UNCHANGED <<requests, accepted>>
  BY DEF EnqueueOriginal, EnqueueEnriched, outside
<1>2. \/ deliveries' = deliveries
      \/ \E row \in Delivery : /\ row.status = "pending"
                               /\ deliveries' = Append(deliveries, row)
  <2>0. deliveries \in Seq(Delivery)
    BY DEF TypeOK, TablesOK
  <2>1. ASSUME NEW m \in Nat, NEW kind \in DeliveryKind, NEW payload \in Payload,
               deliveries' \in {deliveries, EnqueueDelivery(deliveries, m, kind, payload)}
        PROVE  \/ deliveries' = deliveries
               \/ \E row \in Delivery : /\ row.status = "pending"
                                        /\ deliveries' = Append(deliveries, row)
    BY <2>0, <2>1, InsertPending
  <2>2. CASE EnqueueOriginal
    <3>1. handler.msg \in DOMAIN messages /\ handler.msg \in Nat
      BY <2>2 DEF EnqueueOriginal, TypeOK, HandlerOK, Handler
    <3>2. /\ "original" \in DeliveryKind
          /\ OriginalPayload(messages[handler.msg]) \in Payload
      BY <3>1 DEF DeliveryKind, Payload, TypeOK, TablesOK
    <3>3. deliveries' \in {deliveries, EnqueueDelivery(deliveries, handler.msg, "original",
                                         OriginalPayload(messages[handler.msg]))}
      BY <2>2 DEF EnqueueOriginal
    <3>4. QED
      BY <2>1, <3>1, <3>2, <3>3
  <2>3. CASE EnqueueEnriched
    <3> DEFINE task == enrichmentTasks[enrichmentWorker.row]
               payload == EnrichedPayload(task.url, enrichmentWorker.page)
    <3>1. task \in EnrichmentTask /\ enrichmentWorker.page \in Page
      BY <2>3 DEF EnqueueEnriched, TypeOK, TablesOK, EnrichmentWorkerOK, EnrichmentBusy
    <3>2. task.msg \in Nat /\ "enriched" \in DeliveryKind /\ payload \in Payload
      BY <3>1 DEF EnrichmentTask, DeliveryKind, Payload, EnrichedPayload
    <3>3. deliveries' \in {deliveries,
                           EnqueueDelivery(deliveries, task.msg, "enriched", payload)}
      BY <2>3 DEF EnqueueEnriched
    <3> HIDE DEF task, payload
    <3>4. QED
      BY <2>1, <3>2, <3>3
  <2>4. QED
    BY <2>2, <2>3
<1>3. CASE deliveries' = deliveries
  BY <1>1, <1>3, Stutters DEF OutboxOf
<1>4. ASSUME NEW row \in Delivery, row.status = "pending",
             deliveries' = Append(deliveries, row)
      PROVE  [Promise!Next]_Promise!outbox
  <2>1. OutboxOf(deliveries)' = Append(OutboxOf(deliveries), "open")
    <3>1. deliveries \in Seq(Delivery)
      BY DEF TypeOK, TablesOK
    <3>2. OutboxOf(Append(deliveries, row)) = Append(OutboxOf(deliveries), "open")
      BY <1>4, <3>1, OutcomeOfInsert
    <3>3. QED
      BY <1>4, <3>2
  <2>2. QED
    BY <1>1, <2>1 DEF Promise!Next, Promise!Offer
<1>5. QED
  BY <1>2, <1>3, <1>4

\* The held row is an open entry.
LEMMA HeldIsOpen ==
  ASSUME RowsInv, deliveryWorker.pc \in DeliveryBusy
  PROVE  /\ deliveryWorker.row \in DOMAIN deliveries
         /\ OutcomeOf(deliveries[deliveryWorker.row]) = "open"
         /\ Promise!Open(deliveryWorker.row)
<1>1. /\ deliveryWorker.row \in DOMAIN deliveries
      /\ deliveries[deliveryWorker.row].status = "running"
  BY DEF RowsInv, TypeOK, DeliveryWorkerOK, HeldRowOK
<1>2. QED
  BY <1>1 DEF OutcomeOf, Settled, Promise!Open, OutboxOf

\* Settling the held row closes its entry, or leaves it open.
LEMMA SettlingCloses ==
  ASSUME RowsInv, deliveryWorker.pc \in DeliveryBusy,
         NEW row, NEW after,
         \/ OutcomeOf(row) = "open"
         \/ OutcomeOf(row) = "done" /\ deliveryWorker.row \in accepted
         \/ OutcomeOf(row) = "failed" /\ Count(requests, deliveryWorker.row) = WeComMaxAttempts,
         SettleDelivery(Update(deliveries, deliveryWorker.row, row), after)
  PROVE  [Promise!Next]_Promise!outbox
<1> DEFINE i == deliveryWorker.row
<1>1. /\ i \in DOMAIN deliveries
      /\ OutcomeOf(deliveries[i]) = "open"
      /\ Promise!Open(i)
  BY HeldIsOpen
<1>2. /\ UNCHANGED <<requests, accepted>>
      /\ deliveries' \in {deliveries, Update(deliveries, i, row)}
  BY DEF SettleDelivery, outside
<1>3. CASE OutboxOf(deliveries)' = OutboxOf(deliveries)
  BY <1>2, <1>3, Stutters
<1>4. CASE deliveries' = Update(deliveries, i, row) /\ OutcomeOf(row) # "open"
  <2>1. OutboxOf(deliveries') = [OutboxOf(deliveries) EXCEPT ![i] = OutcomeOf(row)]
    BY <1>1, <1>4, OutcomeOfUpdate
  <2>2. OutboxOf(deliveries)' = OutboxOf(deliveries')
    BY DEF OutboxOf
  <2>3. Promise!Close(i)
    BY <1>1, <1>2, <1>4, <2>1, <2>2 DEF Promise!Close, Promise!Requested, Count
  <2>4. QED
    BY <1>1, <2>3 DEF Promise!Next, Promise!Open
<1>5. CASE deliveries' = Update(deliveries, i, row) /\ OutcomeOf(row) = "open"
  <2>1. OutboxOf(Update(deliveries, i, row)) = OutboxOf(deliveries)
    BY <1>1, <1>5, SameOutcome
  <2>2. QED
    BY <1>3, <1>5, <2>1 DEF OutboxOf
<1>6. QED
  BY <1>2, <1>3, <1>4, <1>5 DEF OutboxOf

\* A request, and an answer.
LEMMA RequestingRefines ==
  ASSUME RowsInv, StartSend \/ SendReturns
  PROVE  [Promise!Next]_Promise!outbox
<1> DEFINE i == deliveryWorker.row
<1>1. deliveryWorker.pc \in DeliveryBusy /\ deliveries' = deliveries
  BY DEF StartSend, SendReturns, DeliveryBusy, tables
<1>2. i \in DOMAIN deliveries /\ Promise!Open(i) /\ i \in DOMAIN OutboxOf(deliveries)
  BY <1>1, HeldIsOpen DEF OutboxOf
<1>3. OutboxOf(deliveries)' = OutboxOf(deliveries)
  BY <1>1 DEF OutboxOf
<1>4. CASE StartSend
  <2>1. Promise!Requested(i) < WeComMaxAttempts
    <3>1. Count(requests, i) < WeComMaxAttempts
      BY <1>4 DEF StartSend, RowsInv, HeldRowOK, DeliveryBusy
    <3>2. QED
      BY <3>1 DEF Promise!Requested, Count
  <2>2. requests' = [j \in DOMAIN requests \cup {i} |->
                       Promise!Requested(j) + (IF j = i THEN 1 ELSE 0)]
    BY <1>4 DEF StartSend, OneMore, Count, Promise!Requested
  <2>3. Promise!Request(i)
    BY <1>2, <1>3, <1>4, <2>1, <2>2 DEF StartSend, Promise!Request
  <2>4. QED
    BY <1>2, <2>3 DEF Promise!Next
<1>5. CASE SendReturns
  <2>1. CASE accepted' = accepted
    BY <1>3, <1>5, <2>1, Stutters DEF SendReturns
  <2>2. CASE accepted' = accepted \cup {i}
    <3>1. Promise!Requested(i) > 0
      <4>1. deliveries[i].attempts \in Nat
        <5>1. deliveries[i] \in Delivery
          BY <1>2 DEF RowsInv, TypeOK, TablesOK
        <5>2. QED
          BY <5>1 DEF Delivery
      <4>2. Count(requests, i) = deliveries[i].attempts + 1
        BY <1>5 DEF SendReturns, RowsInv, HeldRowOK, DeliveryBusy
      <4>3. QED
        BY <4>1, <4>2 DEF Promise!Requested, Count
    <3>2. Promise!Take(i)
      BY <1>2, <1>3, <1>5, <2>2, <3>1 DEF SendReturns, Promise!Take
    <3>3. QED
      BY <1>2, <3>2 DEF Promise!Next
  <2>3. QED
    BY <1>5, <2>1, <2>2 DEF SendReturns
<1>6. QED
  BY <1>4, <1>5

\* The claim, and the clock, change no outcome.
LEMMA ClaimingStutters ==
  ASSUME RowsInv, ClaimDelivery \/ DeliveryBackoffElapses
  PROVE  [Promise!Next]_Promise!outbox
<1>1. UNCHANGED <<requests, accepted>>
  BY DEF ClaimDelivery, DeliveryBackoffElapses, outside
<1>2. CASE deliveries' = deliveries
  BY <1>1, <1>2, Stutters DEF OutboxOf
<1>3. ASSUME NEW i \in DOMAIN deliveries, NEW row,
             deliveries' = Update(deliveries, i, row),
             OutcomeOf(row) = OutcomeOf(deliveries[i])
      PROVE  [Promise!Next]_Promise!outbox
  <2>1. OutboxOf(Update(deliveries, i, row)) = OutboxOf(deliveries)
    BY <1>3, SameOutcome
  <2>2. QED
    BY <1>1, <1>3, <2>1, Stutters DEF OutboxOf
<1>4. CASE \E i \in SelectTasks(deliveries) : deliveries' = ClaimTask(deliveries, i)
  <2>1. PICK i \in SelectTasks(deliveries) : deliveries' = ClaimTask(deliveries, i)
    BY <1>4
  <2>2. i \in DOMAIN deliveries /\ deliveries[i].status = "pending"
    BY SelectedIsPending
  <2>3. deliveries[i] \in Delivery
    BY <2>2 DEF RowsInv, TypeOK, TablesOK
  <2>4. OutcomeOf([deliveries[i] EXCEPT !.status = "running"]) = OutcomeOf(deliveries[i])
    BY <2>2, <2>3 DEF OutcomeOf, Settled, Delivery
  <2>5. QED
    BY <1>3, <2>1, <2>2, <2>4 DEF ClaimTask
<1>5. CASE DeliveryBackoffElapses
  <2>1. PICK i \in Waiting(deliveries) : deliveries' = BecomeDue(deliveries, i)
    BY <1>5 DEF DeliveryBackoffElapses
  <2>2. i \in DOMAIN deliveries /\ deliveries[i] \in Delivery
    BY DEF Waiting, RowsInv, TypeOK, TablesOK
  <2>3. OutcomeOf([deliveries[i] EXCEPT !.next = "past"]) = OutcomeOf(deliveries[i])
    BY <2>2 DEF OutcomeOf, Settled, Delivery
  <2>4. QED
    BY <1>3, <2>1, <2>2, <2>3 DEF BecomeDue
<1>6. QED
  BY <1>2, <1>4, <1>5 DEF ClaimDelivery

\* What the worker writes back.
LEMMA WorkerSettles ==
  ASSUME RowsInv, ReleaseDelivery \/ MarkDeliveryDone \/ RetryOrFailDelivery
  PROVE  [Promise!Next]_Promise!outbox
<1> DEFINE i == deliveryWorker.row
<1>1. /\ deliveryWorker.pc \in DeliveryBusy
      /\ deliveries[i] \in Delivery
  BY DEF ReleaseDelivery, MarkDeliveryDone, RetryOrFailDelivery, DeliveryBusy, RowsInv,
         TypeOK, TablesOK, DeliveryWorkerOK
<1>2. CASE ReleaseDelivery
  <2> DEFINE row == [deliveries[i] EXCEPT !.status = "pending",
                                          !.attempts = deliveryWorker.attempts,
                                          !.next = "past"]
             after == Returned(deliveryWorker, "canceled")
  <2>1. OutcomeOf(row) = "open"
    BY <1>1 DEF OutcomeOf, Settled, Delivery
  <2>2. SettleDelivery(Update(deliveries, i, row), after)
    BY <1>2 DEF ReleaseDelivery, MarkRetry
  <2> HIDE DEF row, after
  <2>3. QED
    BY <1>1, <2>1, <2>2, SettlingCloses
<1>3. CASE MarkDeliveryDone
  <2> DEFINE row == [deliveries[i] EXCEPT !.status = "done"]
  <2>1. OutcomeOf(row) = "done"
    BY <1>1 DEF OutcomeOf, Settled, Delivery
  <2>2. i \in accepted
    BY <1>1, <1>3 DEF MarkDeliveryDone, RowsInv, HeldRowOK, Took
  <2>3. SettleDelivery(Update(deliveries, i, row), DeliveryIdle)
    BY <1>3 DEF MarkDeliveryDone, MarkDone
  <2> HIDE DEF row
  <2>4. QED
    BY <1>1, <2>1, <2>2, <2>3, SettlingCloses
<1>4. CASE RetryOrFailDelivery
  <2> DEFINE spent == deliveryWorker.attempts + 1
             failed == [deliveries[i] EXCEPT !.status = "failed"]
             retried == [deliveries[i] EXCEPT !.status = "pending", !.attempts = spent,
                                              !.next = "future"]
  <2>1. OutcomeOf(failed) = "failed" /\ OutcomeOf(retried) = "open"
    BY <1>1 DEF OutcomeOf, Settled, Delivery
  <2>2. SettleDelivery(IF spent >= WeComMaxAttempts
                       THEN Update(deliveries, i, failed)
                       ELSE Update(deliveries, i, retried), DeliveryIdle)
    BY <1>4 DEF RetryOrFailDelivery, MarkFailed, MarkRetry
  <2>3. spent \in Nat /\ Count(requests, i) = spent /\ spent <= WeComMaxAttempts
    <3>1. deliveries[i].attempts \in Nat
      BY <1>1 DEF Delivery
    <3>2. /\ deliveries[i].attempts = deliveryWorker.attempts
          /\ deliveries[i].attempts < WeComMaxAttempts
          /\ Count(requests, i) = deliveries[i].attempts + 1
      BY <1>1, <1>4 DEF RetryOrFailDelivery, RowsInv, HeldRowOK
    <3>3. QED
      BY <3>1, <3>2, AttemptsAssumption
  <2> HIDE DEF spent, failed, retried
  <2>4. CASE spent >= WeComMaxAttempts
    <3>1. Count(requests, i) = WeComMaxAttempts
      BY <2>3, <2>4, AttemptsAssumption
    <3>2. SettleDelivery(Update(deliveries, i, failed), DeliveryIdle)
      BY <2>2, <2>4
    <3>3. QED
      BY <1>1, <2>1, <3>1, <3>2, SettlingCloses
  <2>5. CASE ~(spent >= WeComMaxAttempts)
    <3>1. SettleDelivery(Update(deliveries, i, retried), DeliveryIdle)
      BY <2>2, <2>5
    <3>2. QED
      BY <1>1, <2>1, <3>1, SettlingCloses
  <2>6. QED
    BY <2>4, <2>5
<1>5. QED
  BY <1>2, <1>3, <1>4

\* Every step of the service is a step of the outbox, or none.
LEMMA NextRefines ==
  RowsInv /\ TypeOK' /\ [Next]_vars => [Promise!Next]_Promise!outbox
<1> SUFFICES ASSUME RowsInv, TypeOK', [Next]_vars PROVE [Promise!Next]_Promise!outbox
  OBVIOUS
<1>1. CASE DeliveryStep /\ ~DeliveryCanceled
  BY <1>1, ClaimingStutters, RequestingRefines, WorkerSettles DEF DeliveryStep
<1>2. CASE EnqueueOriginal \/ EnqueueEnriched
  BY <1>2, QueueingOffers DEF RowsInv
<1>3. CASE DeliveryBackoffElapses
  BY <1>3, ClaimingStutters
<1>4. CASE DeliveryCanceled \/ (EnrichmentStep /\ ~EnqueueEnriched)
  <2>1. UNCHANGED <<deliveries, requests, accepted>>
    BY <1>4 DEF DeliveryCanceled, EnrichmentStep, EnrichmentCanceled, ClaimEnrichment,
                ReleaseEnrichment, StartFetch, FetchReturns, RecordPage, MarkEnrichmentDone,
                RetryOrFailEnrichment, SettleEnrichment, tables, outside
  <2>2. QED
    BY <2>1, Stutters DEF OutboxOf
<1>5. CASE \/ \E n \in Notification : ReceiveNotification(n)
           \/ EnqueueLink \/ EnrichmentBackoffElapses \/ Cancel \/ UNCHANGED vars
  <2>1. UNCHANGED <<deliveries, requests, accepted>>
    BY <1>5 DEF ReceiveNotification, EnqueueLink, EnrichmentBackoffElapses, Cancel, vars,
                tables, outside
  <2>2. QED
    BY <2>1, Stutters DEF OutboxOf
<1>6. QED
  BY <1>1, <1>2, <1>3, <1>4, <1>5 DEF Next, HandlerStep, BackoffElapses

-----------------------------------------------------------------------------
(* What a step may do to a row *)

Keeps(row, next) ==
  /\ Settled(row) => next.status = row.status
  /\ next.attempts >= row.attempts
  /\ next.msg = row.msg
  /\ next.payload = row.payload

NoRowUndone ==
  \A i \in DOMAIN deliveries :
    i \in DOMAIN deliveries' /\ Keeps(deliveries[i], deliveries'[i])

\* A step that leaves the rows alone keeps them.
LEMMA UntouchedKeeps ==
  ASSUME TypeOK, deliveries' = deliveries
  PROVE  NoRowUndone
<1>1. \A i \in DOMAIN deliveries : deliveries[i] \in Delivery
  BY DEF TypeOK, TablesOK
<1>2. QED
  BY <1>1 DEF NoRowUndone, Keeps, Delivery

\* A row that is queued disturbs no other.
LEMMA QueueingKeeps ==
  ASSUME TypeOK, NEW row, deliveries' = Append(deliveries, row)
  PROVE  NoRowUndone
<1>1. deliveries \in Seq(Delivery)
  BY DEF TypeOK, TablesOK
<1>2. \A i \in DOMAIN deliveries : i \in DOMAIN deliveries' /\ deliveries'[i] = deliveries[i]
  BY <1>1
<1>3. \A i \in DOMAIN deliveries : deliveries[i] \in Delivery
  BY <1>1
<1>4. QED
  BY <1>2, <1>3 DEF NoRowUndone, Keeps, Delivery

\* Nor does one that is written back.
LEMMA UpdatingKeeps ==
  ASSUME TypeOK, NEW i \in DOMAIN deliveries, NEW row, Keeps(deliveries[i], row),
         deliveries' \in {deliveries, Update(deliveries, i, row)}
  PROVE  NoRowUndone
<1>1. CASE deliveries' = deliveries
  BY <1>1, UntouchedKeeps
<1>2. CASE deliveries' = Update(deliveries, i, row)
  <2>1. /\ DOMAIN deliveries' = DOMAIN deliveries
        /\ deliveries'[i] = row
        /\ \A j : j \in DOMAIN deliveries /\ j # i => deliveries'[j] = deliveries[j]
    BY <1>2, UpdateAt
  <2>2. \A j \in DOMAIN deliveries : deliveries[j] \in Delivery
    BY DEF TypeOK, TablesOK
  <2>3. ASSUME NEW j \in DOMAIN deliveries
        PROVE  Keeps(deliveries[j], deliveries'[j])
    BY <2>1, <2>2 DEF Keeps, Delivery
  <2>4. QED
    BY <2>1, <2>3 DEF NoRowUndone
<1>3. QED
  BY <1>1, <1>2

\* The claim and the clock take pending rows.
LEMMA ClaimingKeeps ==
  ASSUME TypeOK, ClaimDelivery \/ DeliveryBackoffElapses
  PROVE  NoRowUndone
<1>1. \A i \in DOMAIN deliveries : deliveries[i] \in Delivery
  BY DEF TypeOK, TablesOK
<1>2. ASSUME NEW i \in SelectTasks(deliveries), deliveries' = ClaimTask(deliveries, i)
      PROVE  NoRowUndone
  <2>1. i \in DOMAIN deliveries /\ deliveries[i].status = "pending"
    BY SelectedIsPending
  <2>2. Keeps(deliveries[i], [deliveries[i] EXCEPT !.status = "running"])
    BY <1>1, <2>1 DEF Keeps, Settled, Delivery
  <2>3. QED
    BY <1>2, <2>1, <2>2, UpdatingKeeps DEF ClaimTask
<1>3. ASSUME NEW i \in Waiting(deliveries), deliveries' = BecomeDue(deliveries, i)
      PROVE  NoRowUndone
  <2>1. i \in DOMAIN deliveries
    BY DEF Waiting
  <2>2. Keeps(deliveries[i], [deliveries[i] EXCEPT !.next = "past"])
    BY <1>1, <2>1 DEF Keeps, Delivery
  <2>3. QED
    BY <1>3, <2>1, <2>2, UpdatingKeeps DEF BecomeDue
<1>4. CASE deliveries' = deliveries
  BY <1>4, UntouchedKeeps
<1>5. QED
  BY <1>2, <1>3, <1>4 DEF ClaimDelivery, DeliveryBackoffElapses

\* What the worker writes back is the row it holds, which is running.
LEMMA SettlingKeeps ==
  ASSUME RowsInv, ReleaseDelivery \/ MarkDeliveryDone \/ RetryOrFailDelivery
  PROVE  NoRowUndone
<1> DEFINE i == deliveryWorker.row
           spent == deliveryWorker.attempts + 1
           Written(status, attempts, next) ==
             [deliveries[i] EXCEPT !.status = status, !.attempts = attempts, !.next = next]
           done == [deliveries[i] EXCEPT !.status = "done"]
           failed == [deliveries[i] EXCEPT !.status = "failed"]
           released == Written("pending", deliveryWorker.attempts, "past")
           retried == Written("pending", spent, "future")
<1>1. deliveryWorker.pc \in DeliveryBusy
  BY DEF ReleaseDelivery, MarkDeliveryDone, RetryOrFailDelivery, DeliveryBusy
<1>2. /\ TypeOK
      /\ i \in DOMAIN deliveries
      /\ deliveries[i] \in Delivery
      /\ deliveries[i].status = "running"
      /\ deliveries[i].attempts = deliveryWorker.attempts
      /\ deliveries[i].attempts \in Nat
  <2>1. TypeOK /\ i \in DOMAIN deliveries /\ deliveries[i] \in Delivery
    BY <1>1 DEF RowsInv, TypeOK, TablesOK, DeliveryWorkerOK
  <2>2. QED
    BY <1>1, <2>1 DEF RowsInv, HeldRowOK, Delivery
<1>3. /\ Keeps(deliveries[i], done)
      /\ Keeps(deliveries[i], failed)
      /\ Keeps(deliveries[i], released)
      /\ Keeps(deliveries[i], retried)
  BY <1>2 DEF Keeps, Settled, Delivery
<1>4. \E row \in {done, failed, released, retried} :
        deliveries' \in {deliveries, Update(deliveries, i, row)}
  <2>1. CASE ReleaseDelivery
    BY <2>1 DEF ReleaseDelivery, SettleDelivery, MarkRetry
  <2>2. CASE MarkDeliveryDone
    BY <2>2 DEF MarkDeliveryDone, SettleDelivery, MarkDone
  <2>3. CASE RetryOrFailDelivery
    BY <2>3 DEF RetryOrFailDelivery, SettleDelivery, MarkRetry, MarkFailed
  <2>4. QED
    BY <2>1, <2>2, <2>3
<1> HIDE DEF done, failed, released, retried
<1>5. QED
  BY <1>2, <1>3, <1>4, UpdatingKeeps

\* No step of the service undoes what a row has become.
LEMMA NextKeeps == RowsInv /\ [Next]_vars => NoRowUndone
<1> SUFFICES ASSUME RowsInv, [Next]_vars PROVE NoRowUndone
  OBVIOUS
<1>1. TypeOK
  BY DEF RowsInv
<1>2. CASE ClaimDelivery \/ DeliveryBackoffElapses
  BY <1>1, <1>2, ClaimingKeeps
<1>3. CASE ReleaseDelivery \/ MarkDeliveryDone \/ RetryOrFailDelivery
  BY <1>3, SettlingKeeps
<1>4. CASE EnqueueOriginal \/ EnqueueEnriched
  <2>1. \/ deliveries' = deliveries
        \/ \E row : deliveries' = Append(deliveries, row)
    BY <1>4 DEF EnqueueOriginal, EnqueueEnriched, EnqueueDelivery
  <2>2. QED
    BY <1>1, <2>1, UntouchedKeeps, QueueingKeeps
<1>5. CASE \/ DeliveryCanceled \/ StartSend \/ SendReturns
           \/ (EnrichmentStep /\ ~EnqueueEnriched)
           \/ (\E n \in Notification : ReceiveNotification(n))
           \/ EnqueueLink \/ EnrichmentBackoffElapses \/ Cancel \/ UNCHANGED vars
  <2>1. deliveries' = deliveries
    BY <1>5 DEF DeliveryCanceled, StartSend, SendReturns, EnrichmentStep,
                EnrichmentCanceled, ClaimEnrichment, ReleaseEnrichment, StartFetch,
                FetchReturns, RecordPage, MarkEnrichmentDone, RetryOrFailEnrichment,
                SettleEnrichment, ReceiveNotification, EnqueueLink,
                EnrichmentBackoffElapses, Cancel, vars, tables
  <2>2. QED
    BY <1>1, <2>1, UntouchedKeeps
<1>6. QED
  BY <1>2, <1>3, <1>4, <1>5 DEF Next, HandlerStep, DeliveryStep, BackoffElapses

-----------------------------------------------------------------------------
(* Theorems *)

\* A row is marked done only after the robot accepted it.
THEOREM DoneIsAccepted == Spec => []DoneWasAccepted
BY DeliveryInvariant, RowsInvImplies, PTL DEF DeliveryInv

\* No row is requested more often than the limit allows; a waiting row's attempts
\* are its requests, and a failed row has used all of them.
THEOREM BudgetIsKept == Spec => []DeliveryBudget
BY DeliveryInvariant, RowsInvImplies, PTL DEF DeliveryInv

\* Only a store error leaves a running delivery behind, and only one.
THEOREM RunningDeliveryIsHeld ==
  Spec => []StrandsOnlyByError(deliveries, deliveryWorker, DeliveryBusy)
BY DeliveryInvariant, PTL DEF DeliveryInv

\* The service implements the outbox.
THEOREM ServiceImplementsOutbox == Spec => ImplementsOutbox
BY InitRefines, NextRefines, DeliveryInvariant, TypeCorrect, PTL
  DEF Spec, ImplementsOutbox, Promise!Spec, DeliveryInv

\* A delivery that is done or failed stays so, and no delivery loses attempts or
\* becomes another one's.
THEOREM SettledStaysSettled == Spec => SettledIsFinal
<1>1. RowsInv /\ [Next]_vars =>
        \A i \in DOMAIN deliveries :
          /\ i \in DOMAIN deliveries'
          /\ Settled(deliveries[i]) => deliveries'[i].status = deliveries[i].status
          /\ deliveries'[i].attempts >= deliveries[i].attempts
          /\ deliveries'[i].msg = deliveries[i].msg
          /\ deliveries'[i].payload = deliveries[i].payload
  BY NextKeeps DEF NoRowUndone, Keeps
<1>2. QED
  BY <1>1, DeliveryInvariant, PTL DEF Spec, SettledIsFinal, DeliveryInv
=============================================================================
