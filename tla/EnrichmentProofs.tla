--------------------------- MODULE EnrichmentProofs ---------------------------
(***************************************************************************)
(* The enrichment tasks of the dispatch service: the budget of fetches,    *)
(* who holds a running task, and that tasks, records and enriched rows     *)
(* agree, for any limits and any number of notifications and failures.     *)
(*                                                                         *)
(* As with the deliveries, the invariant adds the task the worker holds.   *)
(* It is running, with one exception: when the statement that closes it    *)
(* took effect and still failed, the worker holds a task that is done, and *)
(* goes on to retry it.                                                    *)
(***************************************************************************)
EXTENDS DispatchProofs

\* What a task says of itself, after n fetches.
TaskOK(row, n) ==
  /\ n <= EnrichmentMaxAttempts
  /\ row.status = "pending" => n = row.attempts /\ row.attempts < EnrichmentMaxAttempts
  /\ row.status = "failed" => n = EnrichmentMaxAttempts

TasksOK == \A t \in DOMAIN enrichmentTasks : TaskOK(enrichmentTasks[t], Count(fetches, t))

\* The task in the worker's hands.
HeldTaskOK ==
  enrichmentWorker.pc \in EnrichmentBusy =>
    LET row == enrichmentTasks[enrichmentWorker.row]
        n == Count(fetches, enrichmentWorker.row)
    IN  /\ \/ row.status = "running"
           \/ row.status = "done" /\ enrichmentWorker.pc = "failing"
        /\ row.attempts = enrichmentWorker.attempts
        /\ row.attempts < EnrichmentMaxAttempts
        /\ enrichmentWorker.pc = "claimed" => n = row.attempts
        /\ enrichmentWorker.pc # "claimed" => n = row.attempts + 1

TasksInv == TypeOK /\ TasksOK /\ HeldTaskOK

\* As with the rows, a step strands a task only by ending the worker with an error.
StrandedTasks == Stranded(enrichmentTasks, enrichmentWorker, EnrichmentBusy)

StrandsTask ==
  StrandsAtReturn(StrandedTasks, StrandedTasks', enrichmentWorker, enrichmentWorker')

EnrichmentInv ==
  TasksInv /\ StrandsOnlyByError(enrichmentTasks, enrichmentWorker, EnrichmentBusy)

-----------------------------------------------------------------------------
(* Steps of the tasks *)

\* The service starts without tasks.
LEMMA InitEnrichment == Init => EnrichmentInv
<1> SUFFICES ASSUME Init PROVE EnrichmentInv
  OBVIOUS
<1>1. DOMAIN enrichmentTasks = {}
  BY DEF Init
<1>2. HeldTaskOK
  BY DEF Init, HeldTaskOK, EnrichmentIdle, EnrichmentBusy
<1>3. QED
  BY <1>1, <1>2, InitType DEF EnrichmentInv, TasksInv, TasksOK, StrandsOnlyByError,
                              Stranded

\* Steps that leave the tasks, the worker and its history alone.
LEMMA TasksUntouched ==
  ASSUME TasksInv, TypeOK',
         UNCHANGED <<enrichmentTasks, enrichmentWorker, fetches>>
  PROVE  TasksInv' /\ StrandsTask
BY DEF TasksInv, TasksOK, TaskOK, Count, HeldTaskOK, StrandsTask, StrandsAtReturn,
       StrandedTasks, Stranded

\* A task that is queued is pending, with no attempts and no fetches.
LEMMA TaskQueued ==
  ASSUME TasksInv, TypeOK', EnqueueLink
  PROVE  TasksInv' /\ StrandsTask
<1> DEFINE row == NewEnrichmentTask(handler.msg, Head(handler.left))
           new == Len(enrichmentTasks) + 1
<1>1. /\ UNCHANGED <<enrichmentWorker, fetches>>
      /\ \/ enrichmentTasks' = enrichmentTasks
         \/ enrichmentTasks' = Append(enrichmentTasks, row)
  BY DEF EnqueueLink, EnqueueEnrichment, NewEnrichmentTask, outside
<1>2. row.status = "pending" /\ row.attempts = 0
  BY DEF NewEnrichmentTask
<1>3. enrichmentTasks \in Seq(EnrichmentTask)
  BY DEF TasksInv, TypeOK, TablesOK
<1> HIDE DEF row
<1>4. CASE enrichmentTasks' = enrichmentTasks
  BY <1>1, <1>4, TasksUntouched
<1>5. CASE enrichmentTasks' = Append(enrichmentTasks, row)
  <2>1. /\ DOMAIN enrichmentTasks' = DOMAIN enrichmentTasks \cup {new}
        /\ new \notin DOMAIN enrichmentTasks
        /\ enrichmentTasks'[new] = row
        /\ \A t \in DOMAIN enrichmentTasks : enrichmentTasks'[t] = enrichmentTasks[t]
    BY <1>3, <1>5
  <2> HIDE DEF new
  <2>2. Count(fetches, new) = 0
    BY <2>1 DEF TasksInv, TypeOK, HistoryOK, Count
  <2>3. TasksOK'
    <3>1. ASSUME NEW t \in DOMAIN enrichmentTasks
          PROVE  TaskOK(enrichmentTasks'[t], Count(fetches, t))
      BY <2>1, <3>1 DEF TasksInv, TasksOK
    <3>2. TaskOK(row, Count(fetches, new))
      BY <1>2, <2>2, AttemptsAssumption DEF TaskOK
    <3>3. QED
      BY <1>1, <2>1, <3>1, <3>2 DEF TasksOK
  <2>4. HeldTaskOK'
    BY <1>1, <2>1 DEF TasksInv, TypeOK, EnrichmentWorkerOK, HeldTaskOK, Count
  <2>5. StrandsTask
    BY <1>1, <1>2, <2>1 DEF StrandsTask, StrandsAtReturn, StrandedTasks, Stranded
  <2>6. QED
    BY <2>3, <2>4, <2>5 DEF TasksInv
<1>6. QED
  BY <1>1, <1>4, <1>5

\* The worker settles the task it holds, or fails to and ends.
LEMMA EnrichmentSettled ==
  ASSUME TasksInv, TypeOK',
         enrichmentWorker.pc \in EnrichmentBusy,
         NEW row, row.status # "running",
         TaskOK(row, Count(fetches, enrichmentWorker.row)),
         NEW after, after.pc \notin EnrichmentBusy,
         SettleEnrichment(Update(enrichmentTasks, enrichmentWorker.row, row), after)
  PROVE  TasksInv' /\ StrandsTask
<1> DEFINE i == enrichmentWorker.row
           table == Update(enrichmentTasks, i, row)
<1>1. i \in DOMAIN enrichmentTasks
  BY DEF TasksInv, TypeOK, EnrichmentWorkerOK
<1>2. /\ DOMAIN table = DOMAIN enrichmentTasks
      /\ table[i] = row
      /\ \A j : j \in DOMAIN enrichmentTasks /\ j # i => table[j] = enrichmentTasks[j]
  BY <1>1, UpdateAt
<1>3. /\ enrichmentTasks' \in {enrichmentTasks, table}
      /\ fetches' = fetches
      /\ \/ enrichmentTasks' = table /\ enrichmentWorker' = after
         \/ \E e \in StoreError : enrichmentWorker' = Returned(enrichmentWorker, e)
  BY DEF SettleEnrichment, outside
<1>4. enrichmentWorker.pc # "returned" /\ enrichmentWorker \in EnrichmentWorker
  BY DEF EnrichmentBusy, TasksInv, TypeOK, EnrichmentWorkerOK
<1>5. TasksOK'
  BY <1>2, <1>3 DEF TasksInv, TasksOK, TaskOK, Count
<1>6. HeldTaskOK'
  BY <1>3 DEF HeldTaskOK, Returned, EnrichmentBusy, TasksInv, TypeOK, EnrichmentWorkerOK,
              EnrichmentWorker
<1>7. StrandsTask
  <2>1. CASE enrichmentTasks' = table /\ enrichmentWorker' = after
    <3>1. StrandedTasks' \subseteq StrandedTasks
      BY <1>2, <2>1 DEF StrandedTasks, Stranded
    <3>2. QED
      BY <1>4, <3>1 DEF StrandsTask, StrandsAtReturn
  <2>2. ASSUME NEW e \in StoreError, enrichmentWorker' = Returned(enrichmentWorker, e)
        PROVE  StrandsTask
    <3>1. enrichmentWorker'.pc = "returned" /\ enrichmentWorker'.err \in StoreError
      BY <1>4, <2>2 DEF Returned, EnrichmentWorker
    <3>2. StrandedTasks' \subseteq StrandedTasks \cup {i}
      BY <1>2, <1>3 DEF StrandedTasks, Stranded
    <3>3. QED
      BY <1>4, <3>1, <3>2 DEF StrandsTask, StrandsAtReturn
  <2>3. QED
    BY <1>3, <2>1, <2>2
<1>8. QED
  BY <1>5, <1>6, <1>7 DEF TasksInv

\* The worker takes a task that waits, or fails to and ends.
LEMMA EnrichmentClaimed ==
  ASSUME TasksInv, TypeOK', ClaimEnrichment
  PROVE  TasksInv' /\ StrandsTask
<1> DEFINE Claimed(i) == [enrichmentWorker EXCEPT !.pc = "claimed", !.row = i,
                            !.attempts = enrichmentTasks[i].attempts]
<1>1. /\ enrichmentWorker.pc = "poll"
      /\ enrichmentWorker \in EnrichmentWorker
      /\ UNCHANGED fetches
  BY DEF ClaimEnrichment, TasksInv, TypeOK, EnrichmentWorkerOK, outside
<1>2. enrichmentWorker.pc # "returned" /\ enrichmentWorker.pc \notin EnrichmentBusy
  BY <1>1 DEF EnrichmentBusy
<1>3. /\ \A i : /\ Claimed(i).pc = "claimed" /\ Claimed(i).row = i
                /\ Claimed(i).attempts = enrichmentTasks[i].attempts
      /\ \A e : /\ Returned(enrichmentWorker, e).pc = "returned"
                /\ Returned(enrichmentWorker, e).err = e
  BY <1>1 DEF EnrichmentWorker, Returned
<1>4. \/ \E i \in SelectTasks(enrichmentTasks) :
           /\ enrichmentTasks' = ClaimTask(enrichmentTasks, i)
           /\ enrichmentWorker' = Claimed(i)
      \/ /\ \E e \in StoreError : enrichmentWorker' = Returned(enrichmentWorker, e)
         /\ \/ enrichmentTasks' = enrichmentTasks
            \/ \E i \in SelectTasks(enrichmentTasks) :
                 enrichmentTasks' = ClaimTask(enrichmentTasks, i)
  BY DEF ClaimEnrichment, StoreError
<1> HIDE DEF Claimed
<1>5. \/ enrichmentTasks' = enrichmentTasks /\ enrichmentWorker'.pc = "returned"
      \/ \E i \in SelectTasks(enrichmentTasks) :
           /\ enrichmentTasks' = ClaimTask(enrichmentTasks, i)
           /\ \/ /\ enrichmentWorker'.pc = "claimed"
                 /\ enrichmentWorker'.row = i
                 /\ enrichmentWorker'.attempts = enrichmentTasks[i].attempts
              \/ enrichmentWorker'.pc = "returned" /\ enrichmentWorker'.err \in StoreError
  <2>1. CASE \E e \in StoreError : enrichmentWorker' = Returned(enrichmentWorker, e)
    <3>1. enrichmentWorker'.pc = "returned" /\ enrichmentWorker'.err \in StoreError
      BY <1>3, <2>1
    <3>2. \/ enrichmentTasks' = enrichmentTasks
          \/ \E i \in SelectTasks(enrichmentTasks) :
               enrichmentTasks' = ClaimTask(enrichmentTasks, i)
      BY <1>4
    <3>3. QED
      BY <3>1, <3>2
  <2>2. ASSUME NEW i \in SelectTasks(enrichmentTasks), enrichmentWorker' = Claimed(i),
               enrichmentTasks' = ClaimTask(enrichmentTasks, i)
        PROVE  /\ enrichmentTasks' = ClaimTask(enrichmentTasks, i)
               /\ enrichmentWorker'.pc = "claimed"
               /\ enrichmentWorker'.row = i
               /\ enrichmentWorker'.attempts = enrichmentTasks[i].attempts
    BY <1>3, <2>2
  <2>3. QED
    BY <1>4, <2>1, <2>2
<1>6. CASE enrichmentTasks' = enrichmentTasks /\ enrichmentWorker'.pc = "returned"
  <2>1. TasksOK' /\ HeldTaskOK'
    BY <1>1, <1>6 DEF TasksInv, TasksOK, TaskOK, Count, HeldTaskOK, EnrichmentBusy
  <2>2. StrandedTasks' \subseteq StrandedTasks
    BY <1>2, <1>6 DEF StrandedTasks, Stranded
  <2>3. QED
    BY <1>2, <2>1, <2>2 DEF TasksInv, StrandsTask, StrandsAtReturn
<1>7. ASSUME NEW i \in SelectTasks(enrichmentTasks),
             enrichmentTasks' = ClaimTask(enrichmentTasks, i),
             \/ /\ enrichmentWorker'.pc = "claimed"
                /\ enrichmentWorker'.row = i
                /\ enrichmentWorker'.attempts = enrichmentTasks[i].attempts
             \/ enrichmentWorker'.pc = "returned" /\ enrichmentWorker'.err \in StoreError
      PROVE  TasksInv' /\ StrandsTask
  <2> DEFINE row == [enrichmentTasks[i] EXCEPT !.status = "running"]
  <2>1. i \in DOMAIN enrichmentTasks /\ enrichmentTasks[i].status = "pending"
    BY SelectedIsPending
  <2>2. enrichmentTasks' = Update(enrichmentTasks, i, row)
    BY <1>7 DEF ClaimTask
  <2>3. row.status = "running" /\ row.attempts = enrichmentTasks[i].attempts
    BY <2>1 DEF TasksInv, TypeOK, TablesOK, EnrichmentTask
  <2> HIDE DEF row
  <2>4. /\ DOMAIN enrichmentTasks' = DOMAIN enrichmentTasks
        /\ enrichmentTasks'[i] = row
        /\ \A j : j \in DOMAIN enrichmentTasks /\ j # i =>
                    enrichmentTasks'[j] = enrichmentTasks[j]
    BY <2>1, <2>2, UpdateAt
  <2>5. /\ enrichmentTasks[i].attempts = Count(fetches, i)
        /\ Count(fetches, i) < EnrichmentMaxAttempts
        /\ Count(fetches, i) <= EnrichmentMaxAttempts
    BY <2>1 DEF TasksInv, TasksOK, TaskOK
  <2>6. TasksOK'
    BY <1>1, <2>3, <2>4, <2>5 DEF TasksInv, TasksOK, TaskOK, Count
  <2>7. HeldTaskOK'
    BY <1>1, <1>7, <2>3, <2>4, <2>5 DEF HeldTaskOK, Count, EnrichmentBusy
  <2>8. StrandsTask
    <3>1. StrandedTasks' \subseteq StrandedTasks \cup {i}
      BY <1>2, <2>4 DEF StrandedTasks, Stranded
    <3>2. CASE enrichmentWorker'.pc = "claimed" /\ enrichmentWorker'.row = i
      <4>1. i \notin StrandedTasks'
        BY <3>2 DEF StrandedTasks, Stranded, EnrichmentBusy
      <4>2. StrandedTasks' \subseteq StrandedTasks
        BY <3>1, <4>1
      <4>3. QED
        BY <1>2, <4>2 DEF StrandsTask, StrandsAtReturn
    <3>3. CASE enrichmentWorker'.pc = "returned" /\ enrichmentWorker'.err \in StoreError
      BY <1>2, <3>1, <3>3 DEF StrandsTask, StrandsAtReturn
    <3>4. QED
      BY <1>7, <3>2, <3>3
  <2>9. QED
    BY <2>6, <2>7, <2>8 DEF TasksInv
<1>8. QED
  BY <1>5, <1>6, <1>7

\* The worker goes from the fetch to what follows it, with the same task.
LEMMA EnrichmentWorks ==
  ASSUME TasksInv, TypeOK', StartFetch \/ FetchReturns \/ RecordPage \/ EnqueueEnriched
  PROVE  TasksInv' /\ StrandsTask
<1>0. PICK i : i = enrichmentWorker.row
  OBVIOUS
<1>1. /\ enrichmentWorker.pc \in EnrichmentBusy \ {"failing"}
      /\ enrichmentTasks' = enrichmentTasks
  BY DEF StartFetch, FetchReturns, RecordPage, EnqueueEnriched, EnrichmentBusy, tables
<1>2. /\ enrichmentWorker \in EnrichmentWorker
      /\ i \in DOMAIN enrichmentTasks
      /\ enrichmentTasks[i].attempts \in Nat
  <2>1. /\ enrichmentWorker \in EnrichmentWorker
        /\ i \in DOMAIN enrichmentTasks
        /\ enrichmentTasks \in Seq(EnrichmentTask)
    BY <1>0, <1>1 DEF TasksInv, TypeOK, TablesOK, EnrichmentWorkerOK
  <2>2. enrichmentTasks[i] \in EnrichmentTask
    BY <2>1
  <2>3. QED
    BY <2>1, <2>2 DEF EnrichmentTask
<1>3. /\ enrichmentTasks[i].status = "running"
      /\ enrichmentTasks[i].attempts = enrichmentWorker.attempts
      /\ enrichmentTasks[i].attempts < EnrichmentMaxAttempts
  BY <1>0, <1>1 DEF TasksInv, HeldTaskOK
<1>4. enrichmentWorker.pc # "returned" /\ enrichmentWorker.pc \in EnrichmentBusy
  BY <1>1 DEF EnrichmentBusy
<1>5. /\ enrichmentWorker'.row = i
      /\ enrichmentWorker'.attempts = enrichmentWorker.attempts
      /\ enrichmentWorker'.pc \in EnrichmentBusy \ {"claimed"}
  BY <1>0, <1>2 DEF StartFetch, FetchReturns, RecordPage, EnqueueEnriched, Failing,
                    EnrichmentWorker, EnrichmentBusy
<1>6. /\ Count(fetches', i) = enrichmentTasks[i].attempts + 1
      /\ \A j : j # i => Count(fetches', j) = Count(fetches, j)
  <2>1. CASE StartFetch
    <3>1. fetches' = OneMore(fetches, i) /\ enrichmentWorker.pc = "claimed"
      BY <1>0, <2>1 DEF StartFetch
    <3>2. \A j \in DOMAIN fetches : fetches[j] \in Nat
      BY DEF TasksInv, TypeOK, HistoryOK
    <3>3. /\ Count(OneMore(fetches, i), i) = Count(fetches, i) + 1
          /\ \A j : j # i => Count(OneMore(fetches, i), j) = Count(fetches, j)
      BY <3>2, OneMoreType
    <3>4. Count(fetches, i) = enrichmentTasks[i].attempts
      BY <1>0, <3>1 DEF TasksInv, HeldTaskOK, EnrichmentBusy
    <3>5. QED
      BY <3>1, <3>3, <3>4
  <2>2. CASE FetchReturns \/ RecordPage \/ EnqueueEnriched
    <3>1. fetches' = fetches /\ enrichmentWorker.pc \in EnrichmentBusy \ {"claimed"}
      BY <2>2 DEF FetchReturns, RecordPage, EnqueueEnriched, EnrichmentBusy, outside
    <3>2. Count(fetches, i) = enrichmentTasks[i].attempts + 1
      BY <1>0, <3>1 DEF TasksInv, HeldTaskOK
    <3>3. QED
      BY <3>1, <3>2
  <2>3. QED
    BY <2>1, <2>2
<1>7. TasksOK'
  <2>1. ASSUME NEW j \in DOMAIN enrichmentTasks, j # i
        PROVE  TaskOK(enrichmentTasks[j], Count(fetches', j))
    BY <1>6, <2>1 DEF TasksInv, TasksOK
  <2>2. TaskOK(enrichmentTasks[i], Count(fetches', i))
    BY <1>2, <1>3, <1>6, AttemptsAssumption DEF TaskOK
  <2>3. QED
    BY <1>1, <2>1, <2>2 DEF TasksOK
<1>8. HeldTaskOK'
  BY <1>1, <1>3, <1>5, <1>6 DEF HeldTaskOK, EnrichmentBusy
<1>9. StrandsTask
  <2>1. StrandedTasks' = StrandedTasks
    BY <1>0, <1>1, <1>4, <1>5 DEF StrandedTasks, Stranded
  <2>2. QED
    BY <1>4, <2>1 DEF StrandsTask, StrandsAtReturn
<1>10. QED
  BY <1>7, <1>8, <1>9 DEF TasksInv

\* The task is closed; if that fails it may be closed all the same.
LEMMA EnrichmentClosed ==
  ASSUME TasksInv, TypeOK', MarkEnrichmentDone
  PROVE  TasksInv' /\ StrandsTask
<1>0. PICK i : i = enrichmentWorker.row
  OBVIOUS
<1> DEFINE row == [enrichmentTasks[i] EXCEPT !.status = "done"]
<1>1. /\ enrichmentWorker.pc = "queued"
      /\ enrichmentWorker.pc \in EnrichmentBusy
      /\ fetches' = fetches
  BY DEF MarkEnrichmentDone, EnrichmentBusy, outside
<1>2. /\ enrichmentWorker \in EnrichmentWorker
      /\ i \in DOMAIN enrichmentTasks
      /\ enrichmentTasks[i] \in EnrichmentTask
  BY <1>0, <1>1 DEF TasksInv, TypeOK, TablesOK, EnrichmentWorkerOK
<1>3. row.status = "done" /\ row.attempts = enrichmentTasks[i].attempts
  BY <1>2 DEF EnrichmentTask
<1>4. /\ enrichmentTasks[i].attempts = enrichmentWorker.attempts
      /\ enrichmentTasks[i].attempts < EnrichmentMaxAttempts
      /\ Count(fetches, i) = enrichmentTasks[i].attempts + 1
  BY <1>0, <1>1 DEF TasksInv, HeldTaskOK
<1>5. enrichmentWorker.pc # "returned"
  BY <1>1
<1>6. /\ \/ enrichmentTasks' = enrichmentTasks /\ enrichmentWorker' = Failing
         \/ enrichmentTasks' = Update(enrichmentTasks, i, row)
      /\ enrichmentWorker' \in {EnrichmentIdle, Failing}
  BY <1>0 DEF MarkEnrichmentDone, MarkDone
<1>7. /\ Failing.pc = "failing" /\ Failing.row = i
      /\ Failing.attempts = enrichmentWorker.attempts
      /\ EnrichmentIdle.pc \notin EnrichmentBusy
  BY <1>0, <1>2 DEF Failing, EnrichmentWorker, EnrichmentIdle, EnrichmentBusy
<1> HIDE DEF row
<1>8. CASE enrichmentTasks' = enrichmentTasks /\ enrichmentWorker' = Failing
  <2>1. TasksOK'
    BY <1>1, <1>8 DEF TasksInv, TasksOK
  <2>2. HeldTaskOK'
    <3>1. enrichmentTasks[i].status = "running"
      BY <1>0, <1>1 DEF TasksInv, HeldTaskOK
    <3>2. QED
      BY <1>1, <1>4, <1>7, <1>8, <3>1 DEF HeldTaskOK
  <2>3. StrandsTask
    <3>1. StrandedTasks' \subseteq StrandedTasks
      BY <1>0, <1>1, <1>7, <1>8 DEF StrandedTasks, Stranded, EnrichmentBusy
    <3>2. QED
      BY <1>5, <3>1 DEF StrandsTask, StrandsAtReturn
  <2>4. QED
    BY <2>1, <2>2, <2>3 DEF TasksInv
<1>9. CASE enrichmentTasks' = Update(enrichmentTasks, i, row)
  <2>1. /\ DOMAIN enrichmentTasks' = DOMAIN enrichmentTasks
        /\ enrichmentTasks'[i] = row
        /\ \A j : j \in DOMAIN enrichmentTasks /\ j # i =>
                    enrichmentTasks'[j] = enrichmentTasks[j]
    BY <1>2, <1>9, UpdateAt
  <2>2. TasksOK'
    BY <1>1, <1>3, <2>1 DEF TasksInv, TasksOK, TaskOK
  <2>3. HeldTaskOK'
    <3>1. CASE enrichmentWorker' = EnrichmentIdle
      BY <1>7, <3>1 DEF HeldTaskOK
    <3>2. CASE enrichmentWorker' = Failing
      BY <1>1, <1>3, <1>4, <1>7, <2>1, <3>2 DEF HeldTaskOK
    <3>3. QED
      BY <1>6, <3>1, <3>2
  <2>4. StrandsTask
    <3>1. StrandedTasks' \subseteq StrandedTasks
      BY <1>0, <1>3, <2>1 DEF StrandedTasks, Stranded
    <3>2. QED
      BY <1>5, <3>1 DEF StrandsTask, StrandsAtReturn
  <2>5. QED
    BY <2>2, <2>3, <2>4 DEF TasksInv
<1>10. QED
  BY <1>6, <1>8, <1>9

\* The tasks a worker may write back: pending again, or failed.
LEMMA EnrichmentGivenUp ==
  ASSUME TasksInv, TypeOK',
         EnrichmentCanceled \/ ReleaseEnrichment \/ RetryOrFailEnrichment
  PROVE  TasksInv' /\ StrandsTask
<1>0. PICK i : i = enrichmentWorker.row
  OBVIOUS
<1>1. enrichmentWorker \in EnrichmentWorker
  BY DEF TasksInv, TypeOK, EnrichmentWorkerOK
<1>2. ASSUME enrichmentWorker.pc \in EnrichmentBusy
      PROVE  /\ enrichmentTasks[i] \in EnrichmentTask
             /\ enrichmentTasks[i].attempts \in Nat
             /\ enrichmentTasks[i].attempts = enrichmentWorker.attempts
             /\ enrichmentTasks[i].attempts < EnrichmentMaxAttempts
             /\ enrichmentWorker.pc = "claimed" =>
                  Count(fetches, i) = enrichmentTasks[i].attempts
             /\ enrichmentWorker.pc # "claimed" =>
                  Count(fetches, i) = enrichmentTasks[i].attempts + 1
  <2>1. enrichmentTasks[i] \in EnrichmentTask
    BY <1>0, <1>2 DEF TasksInv, TypeOK, TablesOK, EnrichmentWorkerOK
  <2>2. enrichmentTasks[i].attempts \in Nat
    BY <2>1 DEF EnrichmentTask
  <2>3. QED
    BY <1>0, <1>2, <2>1, <2>2 DEF TasksInv, HeldTaskOK
<1>3. CASE EnrichmentCanceled
  <2>1. /\ enrichmentWorker.pc = "poll"
        /\ enrichmentWorker'.pc = "returned"
        /\ UNCHANGED <<enrichmentTasks, fetches>>
    BY <1>1, <1>3 DEF EnrichmentCanceled, Returned, EnrichmentWorker, tables, outside
  <2>2. TasksOK' /\ HeldTaskOK'
    BY <2>1 DEF TasksInv, TasksOK, TaskOK, Count, HeldTaskOK, EnrichmentBusy
  <2>3. StrandedTasks' \subseteq StrandedTasks
    BY <2>1 DEF StrandedTasks, Stranded, EnrichmentBusy
  <2>4. QED
    BY <2>1, <2>2, <2>3 DEF TasksInv, StrandsTask, StrandsAtReturn
<1>4. CASE ReleaseEnrichment
  <2> DEFINE row == [enrichmentTasks[i] EXCEPT !.status = "pending",
                                               !.attempts = enrichmentWorker.attempts,
                                               !.next = "past"]
             after == Returned(enrichmentWorker, "canceled")
  <2>1. enrichmentWorker.pc = "claimed" /\ enrichmentWorker.pc \in EnrichmentBusy
    BY <1>4 DEF ReleaseEnrichment, EnrichmentBusy
  <2>2. row.status = "pending" /\ row.attempts = enrichmentWorker.attempts
    BY <1>2, <2>1 DEF EnrichmentTask
  <2>3. after.pc \notin EnrichmentBusy
    BY <1>1 DEF Returned, EnrichmentWorker, EnrichmentBusy
  <2>4. SettleEnrichment(Update(enrichmentTasks, enrichmentWorker.row, row), after)
    BY <1>0, <1>4 DEF ReleaseEnrichment, MarkRetry
  <2> HIDE DEF row, after
  <2>5. TaskOK(row, Count(fetches, i))
    BY <1>2, <2>1, <2>2, AttemptsAssumption DEF TaskOK
  <2>6. QED
    BY <1>0, <2>1, <2>2, <2>3, <2>4, <2>5, EnrichmentSettled
<1>5. CASE RetryOrFailEnrichment
  <2> DEFINE spent == enrichmentWorker.attempts + 1
             failed == [enrichmentTasks[i] EXCEPT !.status = "failed"]
             retried == [enrichmentTasks[i] EXCEPT !.status = "pending", !.attempts = spent,
                                                   !.next = "future"]
  <2>1. /\ enrichmentWorker.pc # "claimed"
        /\ enrichmentWorker.pc \in EnrichmentBusy
    BY <1>5 DEF RetryOrFailEnrichment, EnrichmentBusy
  <2>2. /\ failed.status = "failed"
        /\ retried.status = "pending" /\ retried.attempts = spent
    BY <1>2, <2>1 DEF EnrichmentTask
  <2>3. spent \in Nat /\ spent <= EnrichmentMaxAttempts /\ Count(fetches, i) = spent
    BY <1>2, <2>1, AttemptsAssumption
  <2>4. EnrichmentIdle.pc \notin EnrichmentBusy
    BY DEF EnrichmentIdle, EnrichmentBusy
  <2>5. SettleEnrichment(IF spent >= EnrichmentMaxAttempts
                         THEN Update(enrichmentTasks, enrichmentWorker.row, failed)
                         ELSE Update(enrichmentTasks, enrichmentWorker.row, retried),
                         EnrichmentIdle)
    BY <1>0, <1>5 DEF RetryOrFailEnrichment, MarkFailed, MarkRetry
  <2> HIDE DEF spent, failed, retried
  <2>6. CASE spent >= EnrichmentMaxAttempts
    <3>1. TaskOK(failed, Count(fetches, i))
      BY <2>2, <2>3, <2>6, AttemptsAssumption DEF TaskOK
    <3>2. SettleEnrichment(Update(enrichmentTasks, enrichmentWorker.row, failed),
                           EnrichmentIdle)
      BY <2>5, <2>6
    <3>3. QED
      BY <1>0, <2>1, <2>2, <2>4, <3>1, <3>2, EnrichmentSettled
  <2>7. CASE ~(spent >= EnrichmentMaxAttempts)
    <3>1. TaskOK(retried, Count(fetches, i))
      BY <2>2, <2>3, <2>7, AttemptsAssumption DEF TaskOK
    <3>2. SettleEnrichment(Update(enrichmentTasks, enrichmentWorker.row, retried),
                           EnrichmentIdle)
      BY <2>5, <2>7
    <3>3. QED
      BY <1>0, <2>1, <2>2, <2>4, <3>1, <3>2, EnrichmentSettled
  <2>8. QED
    BY <2>6, <2>7
<1>6. QED
  BY <1>3, <1>4, <1>5

\* A task whose backoff runs out only becomes due.
LEMMA EnrichmentDue ==
  ASSUME TasksInv, TypeOK', EnrichmentBackoffElapses
  PROVE  TasksInv' /\ StrandsTask
<1>1. PICK i \in Waiting(enrichmentTasks) : enrichmentTasks' = BecomeDue(enrichmentTasks, i)
  BY DEF EnrichmentBackoffElapses
<1> DEFINE row == [enrichmentTasks[i] EXCEPT !.next = "past"]
<1>2. UNCHANGED <<enrichmentWorker, fetches>>
  BY DEF EnrichmentBackoffElapses, outside
<1>3. i \in DOMAIN enrichmentTasks /\ enrichmentTasks[i] \in EnrichmentTask
  BY DEF Waiting, TasksInv, TypeOK, TablesOK
<1>4. /\ row.status = enrichmentTasks[i].status
      /\ row.attempts = enrichmentTasks[i].attempts
  BY <1>3 DEF EnrichmentTask
<1>5. enrichmentTasks' = Update(enrichmentTasks, i, row)
  BY <1>1 DEF BecomeDue
<1> HIDE DEF row
<1>6. /\ DOMAIN enrichmentTasks' = DOMAIN enrichmentTasks
      /\ \A j \in DOMAIN enrichmentTasks :
           /\ enrichmentTasks'[j].status = enrichmentTasks[j].status
           /\ enrichmentTasks'[j].attempts = enrichmentTasks[j].attempts
  BY <1>3, <1>4, <1>5, UpdateAt
<1>7. TasksOK'
  BY <1>2, <1>6 DEF TasksInv, TasksOK, TaskOK
<1>8. HeldTaskOK'
  BY <1>2, <1>6 DEF TasksInv, TypeOK, EnrichmentWorkerOK, HeldTaskOK
<1>9. StrandsTask
  BY <1>2, <1>6 DEF StrandsTask, StrandsAtReturn, StrandedTasks, Stranded
<1>10. QED
  BY <1>7, <1>8, <1>9 DEF TasksInv

\* Every step of the service keeps what the tasks and the held task say.
LEMMA NextTasks == TasksInv /\ [Next]_vars => TasksInv' /\ StrandsTask
<1> SUFFICES ASSUME TasksInv, [Next]_vars PROVE TasksInv' /\ StrandsTask
  OBVIOUS
<1>1. TypeOK'
  BY NextType DEF TasksInv
<1>2. CASE EnrichmentStep
  BY <1>1, <1>2, EnrichmentClaimed, EnrichmentWorks, EnrichmentClosed, EnrichmentGivenUp
     DEF EnrichmentStep
<1>3. CASE EnqueueLink
  BY <1>1, <1>3, TaskQueued
<1>4. CASE EnrichmentBackoffElapses
  BY <1>1, <1>4, EnrichmentDue
<1>5. CASE DeliveryStep
  <2>1. UNCHANGED <<enrichmentTasks, enrichmentWorker, fetches>>
    BY <1>5 DEF DeliveryStep, DeliveryCanceled, ClaimDelivery, ReleaseDelivery, StartSend,
                SendReturns, MarkDeliveryDone, RetryOrFailDelivery, SettleDelivery, tables,
                outside
  <2>2. QED
    BY <1>1, <2>1, TasksUntouched
<1>6. CASE \/ \E n \in Notification : ReceiveNotification(n)
           \/ EnqueueOriginal \/ DeliveryBackoffElapses \/ Cancel \/ UNCHANGED vars
  <2>1. UNCHANGED <<enrichmentTasks, enrichmentWorker, fetches>>
    BY <1>6 DEF ReceiveNotification, EnqueueOriginal, DeliveryBackoffElapses, Cancel, vars,
                tables, outside
  <2>2. QED
    BY <1>1, <2>1, TasksUntouched
<1>7. QED
  BY <1>2, <1>3, <1>4, <1>5, <1>6 DEF Next, HandlerStep, BackoffElapses

LEMMA NextEnrichment == EnrichmentInv /\ [Next]_vars => EnrichmentInv'
<1> SUFFICES ASSUME EnrichmentInv, [Next]_vars PROVE EnrichmentInv'
  OBVIOUS
<1>1. TasksInv' /\ StrandsTask
  BY NextTasks DEF EnrichmentInv
<1>2. StrandsOnlyByError(enrichmentTasks, enrichmentWorker, EnrichmentBusy)'
  BY <1>1, StrandsOnce DEF EnrichmentInv, StrandsOnlyByError, StrandsTask, StrandedTasks
<1>3. QED
  BY <1>1, <1>2 DEF EnrichmentInv

\* What the tasks' invariant says of the budget.
LEMMA TasksInvImplies == TasksInv => EnrichmentBudget
BY DEF TasksInv, TasksOK, TaskOK, EnrichmentBudget

\* The inductive invariant holds throughout.
LEMMA EnrichmentInvariant == Spec => []EnrichmentInv
BY InitEnrichment, NextEnrichment, PTL DEF Spec

-----------------------------------------------------------------------------
(* Tasks, records and rows *)

Link(t) == <<enrichmentTasks[t].msg, enrichmentTasks[t].url>>

TasksUnique == \A s, t \in DOMAIN enrichmentTasks : Link(s) = Link(t) => s = t

QueuedFor(link, page) ==
  \E i \in DOMAIN deliveries : /\ deliveries[i].msg = link[1]
                               /\ deliveries[i].payload = EnrichedPayload(link[2], page)

\* How far the worker has come with its task.
HeldRecordOK ==
  LET link == Link(enrichmentWorker.row)
  IN  /\ enrichmentWorker.pc \in {"saved", "queued"} =>
           link \in DOMAIN enrichments /\ enrichments[link] = enrichmentWorker.page
      /\ enrichmentWorker.pc = "queued" => QueuedFor(link, enrichmentWorker.page)

DoneOK ==
  \A t \in DOMAIN enrichmentTasks :
    enrichmentTasks[t].status = "done" =>
      Link(t) \in DOMAIN enrichments /\ QueuedFor(Link(t), enrichments[Link(t)])

RecordInv ==
  TasksInv /\ TasksUnique /\ HeldRecordOK /\ EnrichedIsRecorded /\ DoneOK

\* The service starts without tasks and rows.
LEMMA InitRecords == Init => RecordInv
<1> SUFFICES ASSUME Init PROVE RecordInv
  OBVIOUS
<1>1. DOMAIN enrichmentTasks = {} /\ DOMAIN deliveries = {}
  BY DEF Init
<1>2. HeldRecordOK
  BY DEF Init, HeldRecordOK, EnrichmentIdle
<1>3. QED
  BY <1>1, <1>2, InitEnrichment DEF RecordInv, EnrichmentInv, TasksUnique, EnrichedIsRecorded, DoneOK

\* The rows are kept, and none is lost.
RowsKept ==
  /\ DOMAIN deliveries \subseteq DOMAIN deliveries'
  /\ \A j \in DOMAIN deliveries : SameRow(deliveries[j], deliveries'[j])

TasksKept ==
  /\ DOMAIN enrichmentTasks' = DOMAIN enrichmentTasks
  /\ \A t \in DOMAIN enrichmentTasks :
       /\ enrichmentTasks'[t].msg = enrichmentTasks[t].msg
       /\ enrichmentTasks'[t].url = enrichmentTasks[t].url

\* What was queued stays queued.
LEMMA QueuedStays ==
  ASSUME RowsKept, NEW link, NEW page, QueuedFor(link, page)
  PROVE  QueuedFor(link, page)'
BY DEF RowsKept, QueuedFor, SameRow

\* Steps that write no record, queue no enriched row and close no task.
LEMMA RecordsUntouched ==
  ASSUME RecordInv, TasksInv', RowsKept, TasksKept, enrichments' = enrichments,
         \A i \in DOMAIN deliveries' \ DOMAIN deliveries : deliveries'[i].kind = "original",
         \A t \in DOMAIN enrichmentTasks :
           enrichmentTasks'[t].status = "done" => enrichmentTasks[t].status = "done",
         \/ UNCHANGED enrichmentWorker
         \/ enrichmentWorker'.pc \notin {"saved", "queued"}
  PROVE  RecordInv'
<1>1. \A t \in DOMAIN enrichmentTasks : Link(t)' = Link(t)
  BY DEF TasksKept, Link
<1>2. DOMAIN enrichmentTasks' = DOMAIN enrichmentTasks
  BY DEF TasksKept
<1>3. TasksUnique'
  BY <1>1, <1>2 DEF RecordInv, TasksUnique
<1>4. HeldRecordOK'
  <2>1. CASE UNCHANGED enrichmentWorker /\ enrichmentWorker.pc \in {"saved", "queued"}
    <3>1. enrichmentWorker.row \in DOMAIN enrichmentTasks
      BY <2>1 DEF RecordInv, TasksInv, TypeOK, EnrichmentWorkerOK, EnrichmentBusy
    <3>2. Link(enrichmentWorker.row)' = Link(enrichmentWorker.row)
      BY <1>1, <2>1, <3>1
    <3>3. QED
      BY <2>1, <3>2, QueuedStays DEF RecordInv, HeldRecordOK
  <2>2. CASE enrichmentWorker'.pc \notin {"saved", "queued"}
    BY <2>2 DEF HeldRecordOK
  <2>3. QED
    BY <2>1, <2>2
<1>5. EnrichedIsRecorded'
  BY DEF RecordInv, EnrichedIsRecorded, RowsKept, SameRow
<1>6. DoneOK'
  <2>1. ASSUME NEW t \in DOMAIN enrichmentTasks', enrichmentTasks'[t].status = "done"
        PROVE  /\ Link(t)' \in DOMAIN enrichments'
               /\ QueuedFor(Link(t), enrichments[Link(t)])'
    <3>1. t \in DOMAIN enrichmentTasks /\ enrichmentTasks[t].status = "done"
      BY <1>2, <2>1
    <3>2. Link(t) \in DOMAIN enrichments /\ QueuedFor(Link(t), enrichments[Link(t)])
      BY <3>1 DEF RecordInv, DoneOK
    <3>3. QED
      BY <1>1, <3>1, <3>2, QueuedStays
  <2>2. QED
    BY <2>1 DEF DoneOK
<1>7. QED
  BY <1>3, <1>4, <1>5, <1>6 DEF RecordInv

\* The record is written: of the worker's task, which is not done, and of no other.
LEMMA PageRecorded ==
  ASSUME RecordInv, TasksInv', RecordPage
  PROVE  RecordInv'
<1> DEFINE i == enrichmentWorker.row
           recorded == SaveEnrichment(enrichments, enrichmentTasks[i].msg,
                                      enrichmentTasks[i].url, enrichmentWorker.page)
<1>1. /\ UNCHANGED <<deliveries, enrichmentTasks>>
      /\ i \in DOMAIN enrichmentTasks
      /\ enrichmentTasks[i].status # "done"
      /\ enrichmentWorker \in EnrichmentWorker
  BY DEF RecordPage, RecordInv, TasksInv, TypeOK, EnrichmentWorkerOK, HeldTaskOK,
         EnrichmentBusy
<1>2. /\ DOMAIN recorded = DOMAIN enrichments \cup {Link(i)}
      /\ recorded[Link(i)] = enrichmentWorker.page
      /\ \A k \in DOMAIN enrichments : k # Link(i) => recorded[k] = enrichments[k]
  BY DEF SaveEnrichment, Link
<1>3. \/ enrichments' = recorded
      \/ enrichments' = enrichments /\ enrichmentWorker' = Failing
  BY DEF RecordPage
<1>4. /\ Failing.pc = "failing"
      /\ \/ enrichmentWorker' = Failing
         \/ /\ enrichments' = recorded
            /\ enrichmentWorker'.pc = "saved"
            /\ enrichmentWorker'.row = i
            /\ enrichmentWorker'.page = enrichmentWorker.page
  BY <1>1 DEF RecordPage, Failing, EnrichmentWorker
<1>5. \A t : Link(t)' = Link(t)
  BY <1>1 DEF Link
<1> HIDE DEF recorded
<1>6. \A k \in DOMAIN enrichments : /\ k \in DOMAIN enrichments'
                                    /\ k # Link(i) => enrichments'[k] = enrichments[k]
  BY <1>2, <1>3
<1>7. TasksUnique'
  BY <1>1, <1>5 DEF RecordInv, TasksUnique
<1>8. HeldRecordOK'
  <2>1. CASE enrichmentWorker' = Failing
    BY <1>4, <2>1 DEF HeldRecordOK
  <2>2. CASE enrichmentWorker' # Failing
    <3>1. /\ Link(i) \in DOMAIN enrichments'
          /\ enrichments'[Link(i)] = enrichmentWorker.page
      BY <1>2, <1>4, <2>2
    <3>2. QED
      BY <1>4, <1>5, <2>2, <3>1 DEF HeldRecordOK
  <2>3. QED
    BY <2>1, <2>2
<1>9. EnrichedIsRecorded'
  <2>1. EnrichedIsRecorded
    BY DEF RecordInv
  <2>2. QED
    BY <1>1, <1>6, <2>1 DEF EnrichedIsRecorded
<1>10. DoneOK'
  <2>1. ASSUME NEW t \in DOMAIN enrichmentTasks, enrichmentTasks[t].status = "done"
        PROVE  /\ Link(t) \in DOMAIN enrichments'
               /\ QueuedFor(Link(t), enrichments'[Link(t)])
    <3>1. Link(t) # Link(i)
      BY <1>1, <2>1 DEF RecordInv, TasksUnique
    <3>2. Link(t) \in DOMAIN enrichments /\ QueuedFor(Link(t), enrichments[Link(t)])
      BY <2>1 DEF RecordInv, DoneOK
    <3>3. enrichments'[Link(t)] = enrichments[Link(t)]
      BY <1>6, <3>1, <3>2
    <3>4. QED
      BY <1>6, <3>2, <3>3
  <2>2. QED
    BY <1>1, <1>5, <2>1 DEF DoneOK, QueuedFor
<1>11. QED
  BY <1>7, <1>8, <1>9, <1>10 DEF RecordInv

\* The enriched row is queued, for a link that is on record with the page it says.
LEMMA EnrichedQueued ==
  ASSUME RecordInv, TasksInv', EnqueueEnriched
  PROVE  RecordInv'
<1> DEFINE i == enrichmentWorker.row
           row == NewDelivery(Link(i)[1], "enriched",
                              EnrichedPayload(Link(i)[2], enrichmentWorker.page))
           new == Len(deliveries) + 1
<1>1. /\ UNCHANGED <<enrichments, enrichmentTasks>>
      /\ enrichmentWorker.pc = "saved"
      /\ enrichmentWorker \in EnrichmentWorker
      /\ deliveries \in Seq(Delivery)
  BY DEF EnqueueEnriched, RecordInv, TasksInv, TypeOK, TablesOK, EnrichmentWorkerOK
<1>2. Link(i) \in DOMAIN enrichments /\ enrichments[Link(i)] = enrichmentWorker.page
  BY <1>1 DEF RecordInv, HeldRecordOK
<1>3. /\ row.msg = Link(i)[1]
      /\ row.payload = EnrichedPayload(Link(i)[2], enrichmentWorker.page)
      /\ row.payload[1] = Link(i)[2]
      /\ Link(i) = <<Link(i)[1], Link(i)[2]>>
  BY DEF NewDelivery, EnrichedPayload, Link
<1>4. /\ Failing.pc = "failing"
      /\ \/ enrichmentWorker' = Failing
         \/ /\ enrichmentWorker'.pc = "queued"
            /\ enrichmentWorker'.row = i
            /\ enrichmentWorker'.page = enrichmentWorker.page
  BY <1>1 DEF EnqueueEnriched, Failing, EnrichmentWorker
<1>5. \/ deliveries' = deliveries /\ enrichmentWorker' = Failing
      \/ deliveries' = deliveries /\ QueuedFor(Link(i), enrichmentWorker.page)
      \/ deliveries' = Append(deliveries, row)
  <2>1. \/ deliveries' = deliveries /\ enrichmentWorker' = Failing
        \/ deliveries' = EnqueueDelivery(deliveries, Link(i)[1], "enriched",
                            EnrichedPayload(Link(i)[2], enrichmentWorker.page))
    BY DEF EnqueueEnriched, Link
  <2>2. QED
    BY <2>1 DEF EnqueueDelivery, NewDelivery, QueuedFor
<1>6. \A t : Link(t)' = Link(t)
  BY <1>1 DEF Link
<1> HIDE DEF row
<1>7. /\ RowsKept
      /\ \/ DOMAIN deliveries' = DOMAIN deliveries
         \/ DOMAIN deliveries' = DOMAIN deliveries \cup {new} /\ deliveries'[new] = row
      /\ \/ enrichmentWorker' = Failing
         \/ \E j \in DOMAIN deliveries' :
              /\ deliveries'[j].msg = Link(i)[1]
              /\ deliveries'[j].payload = EnrichedPayload(Link(i)[2], enrichmentWorker.page)
  <2>1. CASE deliveries' = deliveries
    <3>1. RowsKept
      BY <2>1 DEF RowsKept, SameRow
    <3>2. Append(deliveries, row) # deliveries
      BY <1>1
    <3>3. enrichmentWorker' = Failing \/ QueuedFor(Link(i), enrichmentWorker.page)
      BY <1>5, <2>1, <3>2
    <3>4. QED
      BY <2>1, <3>1, <3>3 DEF QueuedFor
  <2>2. CASE deliveries' = Append(deliveries, row)
    <3>1. /\ DOMAIN deliveries' = DOMAIN deliveries \cup {new}
          /\ deliveries'[new] = row
          /\ \A j \in DOMAIN deliveries : deliveries'[j] = deliveries[j]
      BY <1>1, <2>2
    <3> HIDE DEF new
    <3>2. RowsKept
      BY <3>1 DEF RowsKept, SameRow
    <3>3. QED
      BY <1>3, <1>4, <1>6, <3>1, <3>2 DEF QueuedFor
  <2>3. QED
    BY <1>5, <2>1, <2>2
<1> HIDE DEF new
<1>8. TasksUnique'
  BY <1>1, <1>6 DEF RecordInv, TasksUnique
<1>9. HeldRecordOK'
  BY <1>1, <1>2, <1>4, <1>6, <1>7 DEF HeldRecordOK, QueuedFor
<1>10. EnrichedIsRecorded'
  BY <1>1, <1>2, <1>3, <1>7 DEF RecordInv, EnrichedIsRecorded, RowsKept, SameRow
<1>11. DoneOK'
  <2>1. ASSUME NEW t \in DOMAIN enrichmentTasks, enrichmentTasks[t].status = "done"
        PROVE  Link(t) \in DOMAIN enrichments /\ QueuedFor(Link(t), enrichments[Link(t)])'
    BY <1>1, <1>6, <1>7, <2>1, QueuedStays DEF RecordInv, DoneOK
  <2>2. QED
    BY <1>1, <1>6, <2>1 DEF DoneOK
<1>12. QED
  BY <1>8, <1>9, <1>10, <1>11 DEF RecordInv

\* The task is closed: its page is on record and queued.
LEMMA RecordClosed ==
  ASSUME RecordInv, TasksInv', MarkEnrichmentDone
  PROVE  RecordInv'
<1> DEFINE i == enrichmentWorker.row
           done == MarkDone(enrichmentTasks, i)
<1>1. /\ UNCHANGED <<deliveries, enrichments>>
      /\ enrichmentWorker.pc = "queued"
      /\ enrichmentWorker \in EnrichmentWorker
      /\ enrichmentTasks \in Seq(EnrichmentTask)
      /\ i \in DOMAIN enrichmentTasks
      /\ TypeOK
  BY DEF MarkEnrichmentDone, RecordInv, TasksInv, TypeOK, TablesOK, EnrichmentWorkerOK,
         EnrichmentBusy
<1>2. TasksKept
  BY <1>1, WorkerKeepsTasks DEF EnrichmentStep, TasksKept
<1>3. \A t \in DOMAIN enrichmentTasks : Link(t)' = Link(t)
  BY <1>2 DEF TasksKept, Link
<1>4. \A t \in DOMAIN enrichmentTasks : t # i => enrichmentTasks'[t] = enrichmentTasks[t]
  <2>1. enrichmentTasks' = enrichmentTasks \/ enrichmentTasks' = done
    BY DEF MarkEnrichmentDone
  <2>2. QED
    BY <1>1, <2>1, UpdateAt DEF MarkDone
<1>5. enrichmentWorker'.pc \notin {"saved", "queued"}
  BY <1>1 DEF MarkEnrichmentDone, EnrichmentIdle, Failing, EnrichmentWorker
<1> HIDE DEF done
<1>6. DOMAIN enrichmentTasks' = DOMAIN enrichmentTasks
  BY <1>2 DEF TasksKept
<1>7. TasksUnique'
  BY <1>3, <1>6 DEF RecordInv, TasksUnique
<1>8. HeldRecordOK'
  BY <1>5 DEF HeldRecordOK
<1>9. EnrichedIsRecorded'
  BY <1>1 DEF RecordInv, EnrichedIsRecorded
<1>10. DoneOK'
  <2>1. Link(i) \in DOMAIN enrichments /\ QueuedFor(Link(i), enrichments[Link(i)])
    BY <1>1 DEF RecordInv, HeldRecordOK
  <2>2. ASSUME NEW t \in DOMAIN enrichmentTasks, enrichmentTasks'[t].status = "done"
        PROVE  Link(t) \in DOMAIN enrichments /\ QueuedFor(Link(t), enrichments[Link(t)])
    <3>1. CASE t = i
      BY <2>1, <3>1
    <3>2. CASE t # i
      BY <1>4, <2>2, <3>2 DEF RecordInv, DoneOK
    <3>3. QED
      BY <3>1, <3>2
  <2>3. QED
    BY <1>1, <1>3, <1>6, <2>2 DEF DoneOK, QueuedFor
<1>11. QED
  BY <1>7, <1>8, <1>9, <1>10 DEF RecordInv

\* A task is queued only for a link that has none.
LEMMA LinkRecorded ==
  ASSUME RecordInv, TasksInv', EnqueueLink
  PROVE  RecordInv'
<1> DEFINE row == NewEnrichmentTask(handler.msg, Head(handler.left))
<1>0. PICK new : new = Len(enrichmentTasks) + 1
  OBVIOUS
<1>1. /\ UNCHANGED <<deliveries, enrichments, enrichmentWorker>>
      /\ enrichmentTasks \in Seq(EnrichmentTask)
  BY DEF EnqueueLink, RecordInv, TasksInv, TypeOK, TablesOK
<1>2. \/ enrichmentTasks' = enrichmentTasks
      \/ /\ enrichmentTasks' = Append(enrichmentTasks, row)
         /\ \A t \in DOMAIN enrichmentTasks :
              ~(enrichmentTasks[t].msg = row.msg /\ enrichmentTasks[t].url = row.url)
  BY DEF EnqueueLink, EnqueueEnrichment, NewEnrichmentTask
<1>3. row.status # "done"
  BY DEF NewEnrichmentTask
<1> HIDE DEF row
<1>4. CASE enrichmentTasks' = enrichmentTasks
  BY <1>1, <1>4 DEF RecordInv, TasksUnique, HeldRecordOK, EnrichedIsRecorded, DoneOK, Link,
                    QueuedFor
<1>5. CASE enrichmentTasks' # enrichmentTasks
  <2>1. /\ DOMAIN enrichmentTasks' = DOMAIN enrichmentTasks \cup {new}
        /\ enrichmentTasks'[new] = row
        /\ \A t \in DOMAIN enrichmentTasks : enrichmentTasks'[t] = enrichmentTasks[t]
    <3>1. enrichmentTasks' = Append(enrichmentTasks, row)
      BY <1>2, <1>5
    <3>2. QED
      BY <1>0, <1>1, <3>1
  <2>2. /\ \A t \in DOMAIN enrichmentTasks : Link(t)' = Link(t)
        /\ \A t \in DOMAIN enrichmentTasks : Link(t) # Link(new)'
    <3>1. \A t \in DOMAIN enrichmentTasks : Link(t)' = Link(t)
      BY <2>1 DEF Link
    <3>2. Link(new)' = <<row.msg, row.url>>
      BY <2>1 DEF Link
    <3>3. \A t \in DOMAIN enrichmentTasks : Link(t) # <<row.msg, row.url>>
      BY <1>2, <1>5 DEF Link
    <3>4. QED
      BY <3>1, <3>2, <3>3
  <2>3. TasksUnique'
    <3>1. TasksUnique
      BY DEF RecordInv
    <3>2. QED
      BY <2>1, <2>2, <3>1 DEF TasksUnique
  <2>4. HeldRecordOK'
    <3>1. CASE enrichmentWorker.pc \in {"saved", "queued"}
      <4>1. enrichmentWorker.row \in DOMAIN enrichmentTasks
        BY <3>1 DEF RecordInv, TasksInv, TypeOK, EnrichmentWorkerOK, EnrichmentBusy
      <4>2. Link(enrichmentWorker.row)' = Link(enrichmentWorker.row)
        BY <1>1, <2>2, <4>1
      <4>3. QED
        BY <1>1, <4>2 DEF RecordInv, HeldRecordOK, QueuedFor
    <3>2. CASE enrichmentWorker.pc \notin {"saved", "queued"}
      BY <1>1, <3>2 DEF HeldRecordOK
    <3>3. QED
      BY <3>1, <3>2
  <2>5. EnrichedIsRecorded'
    BY <1>1 DEF RecordInv, EnrichedIsRecorded
  <2>6. DoneOK'
    <3>1. ASSUME NEW t \in DOMAIN enrichmentTasks', enrichmentTasks'[t].status = "done"
          PROVE  /\ Link(t)' \in DOMAIN enrichments
                 /\ QueuedFor(Link(t)', enrichments[Link(t)'])
      <4>1. t \in DOMAIN enrichmentTasks /\ enrichmentTasks[t].status = "done"
        BY <1>3, <2>1, <3>1
      <4>2. QED
        BY <2>2, <4>1 DEF RecordInv, DoneOK
    <3>2. QED
      BY <1>1, <3>1 DEF DoneOK, QueuedFor
  <2>7. QED
    BY <2>3, <2>4, <2>5, <2>6 DEF RecordInv
<1>6. QED
  BY <1>4, <1>5

\* The worker's other steps, and the clock, close no task.
LEMMA NothingClosed ==
  ASSUME RecordInv, TasksInv',
         \/ EnrichmentCanceled \/ ClaimEnrichment \/ ReleaseEnrichment \/ StartFetch
         \/ FetchReturns \/ RetryOrFailEnrichment \/ EnrichmentBackoffElapses
  PROVE  RecordInv'
<1>1. /\ UNCHANGED <<deliveries, enrichments>>
      /\ enrichmentTasks \in Seq(EnrichmentTask)
      /\ enrichmentWorker \in EnrichmentWorker
      /\ TypeOK
  BY DEF EnrichmentCanceled, ClaimEnrichment, ReleaseEnrichment, StartFetch, FetchReturns,
         RetryOrFailEnrichment, SettleEnrichment, EnrichmentBackoffElapses, tables, RecordInv,
         TasksInv, TypeOK, TablesOK, EnrichmentWorkerOK
<1>2. TasksKept
  BY <1>1, WorkerKeepsTasks DEF EnrichmentStep, TasksKept
<1>3. RowsKept /\ DOMAIN deliveries' = DOMAIN deliveries
  BY <1>1 DEF RowsKept, SameRow
<1>4. ASSUME NEW i \in DOMAIN enrichmentTasks, NEW row,
             row.status = "done" => enrichmentTasks[i].status = "done",
             enrichmentTasks' = Update(enrichmentTasks, i, row)
      PROVE  \A t \in DOMAIN enrichmentTasks :
               enrichmentTasks'[t].status = "done" => enrichmentTasks[t].status = "done"
  BY <1>4, UpdateAt
<1>5. ASSUME NEW i \in DOMAIN enrichmentTasks, NEW n
      PROVE  /\ [enrichmentTasks[i] EXCEPT !.status = "running"].status = "running"
             /\ [enrichmentTasks[i] EXCEPT !.status = "failed"].status = "failed"
             /\ [enrichmentTasks[i] EXCEPT !.status = "pending", !.attempts = n,
                                           !.next = "past"].status = "pending"
             /\ [enrichmentTasks[i] EXCEPT !.status = "pending", !.attempts = n,
                                           !.next = "future"].status = "pending"
             /\ [enrichmentTasks[i] EXCEPT !.next = "past"].status = enrichmentTasks[i].status
  <2>1. enrichmentTasks[i] \in EnrichmentTask
    BY <1>1
  <2>2. QED
    BY <2>1 DEF EnrichmentTask
<1>6. \/ enrichmentTasks' = enrichmentTasks
      \/ \E i \in DOMAIN enrichmentTasks : \E n :
           \/ enrichmentTasks' = ClaimTask(enrichmentTasks, i)
           \/ enrichmentTasks' = MarkFailed(enrichmentTasks, i)
           \/ enrichmentTasks' = MarkRetry(enrichmentTasks, i, n, "past")
           \/ enrichmentTasks' = MarkRetry(enrichmentTasks, i, n, "future")
           \/ enrichmentTasks' = BecomeDue(enrichmentTasks, i)
  <2>1. CASE EnrichmentCanceled \/ StartFetch \/ FetchReturns
    BY <2>1 DEF EnrichmentCanceled, StartFetch, FetchReturns, tables
  <2>2. CASE ClaimEnrichment
    BY <2>2, SelectedIsPending DEF ClaimEnrichment
  <2>3. CASE EnrichmentBackoffElapses
    BY <2>3 DEF EnrichmentBackoffElapses, Waiting
  <2>4. CASE ReleaseEnrichment \/ RetryOrFailEnrichment
    <3>1. enrichmentWorker.row \in DOMAIN enrichmentTasks
      BY <1>1, <2>4 DEF ReleaseEnrichment, RetryOrFailEnrichment, TypeOK, EnrichmentWorkerOK,
                        EnrichmentBusy
    <3>2. QED
      BY <2>4, <3>1 DEF ReleaseEnrichment, RetryOrFailEnrichment, SettleEnrichment
  <2>5. QED
    BY <2>1, <2>2, <2>3, <2>4
<1>7. \A t \in DOMAIN enrichmentTasks :
        enrichmentTasks'[t].status = "done" => enrichmentTasks[t].status = "done"
  <2>1. CASE enrichmentTasks' = enrichmentTasks
    BY <2>1
  <2>2. ASSUME NEW i \in DOMAIN enrichmentTasks, NEW n,
               \/ enrichmentTasks' = ClaimTask(enrichmentTasks, i)
               \/ enrichmentTasks' = MarkFailed(enrichmentTasks, i)
               \/ enrichmentTasks' = MarkRetry(enrichmentTasks, i, n, "past")
               \/ enrichmentTasks' = MarkRetry(enrichmentTasks, i, n, "future")
               \/ enrichmentTasks' = BecomeDue(enrichmentTasks, i)
        PROVE  \E row : /\ row.status = "done" => enrichmentTasks[i].status = "done"
                        /\ enrichmentTasks' = Update(enrichmentTasks, i, row)
    <3> DEFINE r == [enrichmentTasks[i] EXCEPT !.status = "running"]
               f == [enrichmentTasks[i] EXCEPT !.status = "failed"]
               p == [enrichmentTasks[i] EXCEPT !.status = "pending", !.attempts = n,
                                               !.next = "past"]
               q == [enrichmentTasks[i] EXCEPT !.status = "pending", !.attempts = n,
                                               !.next = "future"]
               d == [enrichmentTasks[i] EXCEPT !.next = "past"]
    <3>1. \E row \in {r, f, p, q, d} : enrichmentTasks' = Update(enrichmentTasks, i, row)
      BY <2>2 DEF ClaimTask, MarkFailed, MarkRetry, BecomeDue
    <3>2. /\ r.status # "done" /\ f.status # "done" /\ p.status # "done"
          /\ q.status # "done" /\ d.status = enrichmentTasks[i].status
      BY <1>5
    <3> HIDE DEF r, f, p, q, d
    <3>3. QED
      BY <3>1, <3>2
  <2>3. QED
    BY <1>4, <1>6, <2>1, <2>2
<1>8. \/ UNCHANGED enrichmentWorker
      \/ enrichmentWorker'.pc \notin {"saved", "queued"}
  <2>1. \A e : Returned(enrichmentWorker, e).pc = "returned"
    BY <1>1 DEF Returned, EnrichmentWorker
  <2>2. EnrichmentIdle.pc \notin {"saved", "queued"}
    BY DEF EnrichmentIdle
  <2>3. CASE EnrichmentBackoffElapses
    BY <2>3 DEF EnrichmentBackoffElapses
  <2>4. CASE EnrichmentCanceled \/ ReleaseEnrichment \/ RetryOrFailEnrichment
    <3>1. \/ \E e : enrichmentWorker' = Returned(enrichmentWorker, e)
          \/ enrichmentWorker' = EnrichmentIdle
      BY <2>4 DEF EnrichmentCanceled, ReleaseEnrichment, RetryOrFailEnrichment,
                  SettleEnrichment
    <3>2. QED
      BY <2>1, <2>2, <3>1
  <2>5. CASE ClaimEnrichment
    <3>1. \/ enrichmentWorker'.pc = "claimed"
          \/ enrichmentWorker' = Returned(enrichmentWorker, "error")
      BY <1>1, <2>5 DEF ClaimEnrichment, EnrichmentWorker
    <3>2. QED
      BY <2>1, <3>1
  <2>6. CASE StartFetch \/ FetchReturns
    BY <1>1, <2>6 DEF StartFetch, FetchReturns, EnrichmentWorker
  <2>7. QED
    BY <2>3, <2>4, <2>5, <2>6
<1>9. QED
  BY <1>1, <1>2, <1>3, <1>7, <1>8, RecordsUntouched

\* A message's own row is no enriched one.
LEMMA OriginalRecorded ==
  ASSUME RecordInv, TasksInv', EnqueueOriginal
  PROVE  RecordInv'
<1> DEFINE row == NewDelivery(handler.msg, "original",
                              OriginalPayload(messages[handler.msg]))
<1>1. /\ UNCHANGED <<enrichmentTasks, enrichments, enrichmentWorker>>
      /\ deliveries \in Seq(Delivery)
  BY DEF EnqueueOriginal, RecordInv, TasksInv, TypeOK, TablesOK
<1>2. deliveries' = deliveries \/ deliveries' = Append(deliveries, row)
  BY DEF EnqueueOriginal, EnqueueDelivery, NewDelivery
<1>3. row.kind = "original"
  BY DEF NewDelivery
<1> HIDE DEF row
<1>4. TasksKept
  BY <1>1 DEF TasksKept
<1>5. /\ DOMAIN deliveries \subseteq DOMAIN deliveries'
      /\ \A j \in DOMAIN deliveries : deliveries'[j] = deliveries[j]
      /\ \A j \in DOMAIN deliveries' \ DOMAIN deliveries : deliveries'[j] = row
  BY <1>1, <1>2
<1>6. RowsKept
  BY <1>5 DEF RowsKept, SameRow
<1>7. \A j \in DOMAIN deliveries' \ DOMAIN deliveries : deliveries'[j].kind = "original"
  BY <1>3, <1>5
<1>8. QED
  BY <1>1, <1>4, <1>6, <1>7, RecordsUntouched

\* Every step of the service keeps the invariant.
LEMMA NextRecords == RecordInv /\ [Next]_vars => RecordInv'
<1> SUFFICES ASSUME RecordInv, [Next]_vars PROVE RecordInv'
  OBVIOUS
<1>1. TasksInv' /\ TypeOK
  BY NextTasks DEF RecordInv, TasksInv
<1>2. CASE EnrichmentStep \/ EnrichmentBackoffElapses
  BY <1>1, <1>2, PageRecorded, EnrichedQueued, RecordClosed, NothingClosed DEF EnrichmentStep
<1>3. CASE EnqueueLink
  BY <1>1, <1>3, LinkRecorded
<1>4. CASE EnqueueOriginal
  BY <1>1, <1>4, OriginalRecorded
<1>5. CASE DeliveryStep \/ DeliveryBackoffElapses
  <2>1. UNCHANGED <<enrichmentTasks, enrichments, enrichmentWorker>>
    BY <1>5 DEF DeliveryStep, DeliveryCanceled, ClaimDelivery, ReleaseDelivery, StartSend,
                SendReturns, MarkDeliveryDone, RetryOrFailDelivery, SettleDelivery,
                DeliveryBackoffElapses, tables
  <2>2. RowsKept /\ DOMAIN deliveries' = DOMAIN deliveries
    BY <1>1, <1>5, WorkerKeepsRows DEF RowsKept
  <2>3. TasksKept
    BY <2>1 DEF TasksKept
  <2>4. QED
    BY <1>1, <2>1, <2>2, <2>3, RecordsUntouched
<1>6. CASE \/ \E n \in Notification : ReceiveNotification(n)
           \/ Cancel \/ UNCHANGED vars
  <2>1. UNCHANGED <<deliveries, enrichmentTasks, enrichments, enrichmentWorker>>
    BY <1>6 DEF ReceiveNotification, Cancel, vars, tables
  <2>2. RowsKept /\ TasksKept
    BY <2>1 DEF RowsKept, SameRow, TasksKept
  <2>3. QED
    BY <1>1, <2>1, <2>2, RecordsUntouched
<1>7. QED
  BY <1>2, <1>3, <1>4, <1>5, <1>6 DEF Next, HandlerStep, BackoffElapses

\* The inductive invariant holds throughout.
LEMMA RecordInvariant == Spec => []RecordInv
BY InitRecords, NextRecords, PTL DEF Spec

\* What it says of the properties.
LEMMA RecordInvImplies == RecordInv => EnrichedIsRecorded /\ EnrichmentDoneIsQueued
<1> SUFFICES ASSUME RecordInv PROVE EnrichmentDoneIsQueued
  BY DEF RecordInv
<1>1. \A t \in DOMAIN enrichmentTasks :
        enrichmentTasks[t].status = "done" =>
          Link(t) \in DOMAIN enrichments /\ QueuedFor(Link(t), enrichments[Link(t)])
  BY DEF RecordInv, DoneOK
<1>2. QED
  BY <1>1 DEF EnrichmentDoneIsQueued, Link, QueuedFor

-----------------------------------------------------------------------------
(* Theorems *)

\* No link is fetched more often than the limit allows; a waiting task's attempts
\* are its fetches, and a failed task has used all of them.
THEOREM FetchBudgetIsKept == Spec => []EnrichmentBudget
BY EnrichmentInvariant, TasksInvImplies, PTL DEF EnrichmentInv

\* Only a store error leaves a running row behind, and only one in each queue.
THEOREM RunningRowsAreHeld == Spec => []RunningIsHeld
<1>1. DeliveryInv /\ EnrichmentInv => RunningIsHeld
  BY DEF DeliveryInv, EnrichmentInv, RunningIsHeld
<1>2. QED
  BY <1>1, DeliveryInvariant, EnrichmentInvariant, PTL

\* An enriched row is queued only for a link that is on record.
THEOREM EnrichedRowsAreRecorded == Spec => []EnrichedIsRecorded
BY RecordInvariant, RecordInvImplies, PTL

\* A task that is done has the page on record queued, whatever was fetched before.
THEOREM DoneTasksAreQueued == Spec => []EnrichmentDoneIsQueued
BY RecordInvariant, RecordInvImplies, PTL
=============================================================================
