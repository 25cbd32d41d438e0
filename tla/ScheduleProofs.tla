---------------------------- MODULE ScheduleProofs ----------------------------
(***************************************************************************)
(* Theorems about the schedule of the retries: any number of digits, any   *)
(* rows, attempts, waits and length of time.                               *)
(***************************************************************************)
EXTENDS Schedule, TLAPS

-----------------------------------------------------------------------------
(* Times *)

\* Whatever the fractions do to a text, the seconds decide first.
LEMMA SecondsDecide ==
  ASSUME NEW t \in Time, NEW u \in Time
  PROVE  /\ t.sec < u.sec => TextLeq(t, u)
         /\ TextLeq(t, u) => t.sec <= u.sec
<1>1. 0 \in 0 .. Places + 1
  BY DigitsAssumption
<1>2. t.sec \in Nat /\ u.sec \in Nat
  BY DEF Time
<1>3. /\ DOMAIN EncodeTime(t) = 0 .. Places + 1
      /\ EncodeTime(t)[0] = t.sec
      /\ EncodeTime(u)[0] = u.sec
  BY <1>1 DEF EncodeTime
<1>4. t.sec < u.sec => TextLeq(t, u)
  BY <1>1, <1>3 DEF TextLeq
<1>5. ASSUME EncodeTime(t) = EncodeTime(u)
      PROVE  t.sec <= u.sec
  BY <1>2, <1>3, <1>5
<1>6. ASSUME NEW k \in 0 .. Places + 1, EncodeTime(t)[k] < EncodeTime(u)[k],
             \A j \in 0 .. k - 1 : EncodeTime(t)[j] = EncodeTime(u)[j]
      PROVE  t.sec <= u.sec
  <2>1. CASE k = 0
    BY <2>1, <1>2, <1>3, <1>6
  <2>2. CASE k # 0
    <3>1. 0 \in 0 .. k - 1
      BY <2>2, DigitsAssumption
    <3>2. QED
      BY <3>1, <1>2, <1>3, <1>6
  <2>3. QED
    BY <2>1, <2>2
<1>7. QED
  BY <1>3, <1>4, <1>5, <1>6 DEF TextLeq

LEMMA MidnightIsATime == Midnight \in Time
BY DigitsAssumption DEF Midnight, Time

LEMMA PlusType ==
  ASSUME NEW t \in Time, NEW n \in Nat
  PROVE  Plus(t, n) \in Time /\ Plus(t, n).sec = t.sec + n
BY DEF Plus, Time

LEMMA LaterSeconds ==
  ASSUME NEW t \in Shown, NEW u \in Time, Later(t, u)
  PROVE  t \in Time /\ t.sec >= u.sec
BY ScheduleAssumption DEF Later, Shown, Time

-----------------------------------------------------------------------------
(* Types *)

HandlerType == [pc : {"idle", "queueing"}, at : Time]
WorkerType == [pc : {"idle", "selecting", "sending", "returning"}, row : Nat,
               attempts : 0 .. MaxAttempts - 1, at : Time]

\* A row of the table replaced.
LEMMA RowReplaced ==
  ASSUME NEW table \in Seq(Row), NEW i \in DOMAIN table, NEW row \in Row
  PROVE  /\ [table EXCEPT ![i] = row] \in Seq(Row)
         /\ DOMAIN [table EXCEPT ![i] = row] = DOMAIN table
         /\ Len([table EXCEPT ![i] = row]) = Len(table)
OBVIOUS

\* The schedule starts with an empty table at midnight.
LEMMA InitType ==
  ASSUME Init
  PROVE  TypeOK
<1>1. Midnight \in Time
  BY MidnightIsATime
<1>2. 0 \in 0 .. MaxAttempts - 1
  BY ScheduleAssumption
<1>3. QED
  BY <1>1, <1>2 DEF Init, TypeOK, HandlerIdle, WorkerIdle

\* Every step keeps the types.
LEMMA NextType ==
  ASSUME TypeOK, [Next]_vars
  PROVE  TypeOK'
<1> USE DEF TypeOK
<1>1. CASE UNCHANGED vars
  BY <1>1 DEF vars
<1>2. CASE Tick
  BY <1>2, LaterSeconds DEF Tick
<1>3. CASE ReadArrival
  BY <1>3 DEF ReadArrival
<1>4. CASE Enqueue
  <2>1. [status |-> "pending", attempts |-> 0, next |-> handler.at] \in Row
    BY ScheduleAssumption DEF Row
  <2>2. rows' \in Seq(Row) /\ refused' \in Seq(Nat) /\ Len(refused') = Len(rows')
    BY <1>4, <2>1 DEF Enqueue
  <2>3. DOMAIN rows \subseteq DOMAIN rows'
    BY <1>4, <2>2 DEF Enqueue
  <2>4. handler' \in [pc : {"idle", "queueing"}, at : Time]
    BY <1>4, MidnightIsATime DEF Enqueue, HandlerIdle
  <2>5. now' = now /\ worker' = worker
    BY <1>4 DEF Enqueue
  <2>6. QED
    BY <2>2, <2>3, <2>4, <2>5
<1>5. CASE Poll
  BY <1>5 DEF Poll
<1>6. CASE Claim
  <2>1. PICK i \in Selected(worker.at) :
          /\ rows' = [rows EXCEPT ![i].status = "running"]
          /\ worker' = [worker EXCEPT !.pc = "sending", !.row = i,
                                      !.attempts = rows[i].attempts]
    BY <1>6 DEF Claim
  <2>2. i \in DOMAIN rows /\ i \in Nat /\ rows[i] \in Row
    BY DEF Selected, Due
  <2> DEFINE row == [rows[i] EXCEPT !.status = "running"]
  <2>3. row \in Row
    BY <2>2 DEF Row
  <2>4. rows' = [rows EXCEPT ![i] = row]
    BY <2>1
  <2> HIDE DEF row
  <2>5. rows' \in Seq(Row) /\ DOMAIN rows' = DOMAIN rows /\ Len(rows') = Len(rows)
    BY <2>2, <2>3, <2>4, RowReplaced
  <2>6. worker' \in WorkerType /\ worker'.row = i
    BY <2>1, <2>2 DEF Row, WorkerType
  <2>7. QED
    BY <1>6, <2>2, <2>5, <2>6 DEF Claim, WorkerType
<1>7. CASE ClaimNothing
  BY <1>7, InitType, MidnightIsATime, ScheduleAssumption DEF ClaimNothing, WorkerIdle
<1>8. CASE Release
  BY <1>8 DEF Release
<1>9. ASSUME NEW status \in {"done", "failed"}, worker.pc = "sending", Settle(status)
      PROVE  TypeOK'
  <2> DEFINE row == [rows[worker.row] EXCEPT !.status = status]
  <2>1. worker.row \in DOMAIN rows /\ rows[worker.row] \in Row
    BY <1>9
  <2>2. row \in Row
    BY <2>1 DEF Row
  <2>3. rows' = [rows EXCEPT ![worker.row] = row]
    BY <1>9 DEF Settle
  <2> HIDE DEF row
  <2>4. rows' \in Seq(Row) /\ DOMAIN rows' = DOMAIN rows /\ Len(rows') = Len(rows)
    BY <2>2, <2>3, <2>1, RowReplaced
  <2>5. worker' \in WorkerType /\ worker'.pc = "idle"
    BY <1>9, MidnightIsATime, ScheduleAssumption DEF Settle, WorkerIdle, WorkerType
  <2>6. QED
    BY <1>9, <2>4, <2>5 DEF Settle, WorkerType
<1>10. CASE Delivered
  BY <1>9, <1>10 DEF Delivered
<1>11. CASE LastRefusal
  BY <1>9, <1>11 DEF LastRefusal
<1>12. CASE Refusal
  <2> DEFINE wait == Wait[worker.attempts + 1]
  <2>1. worker.attempts + 1 \in 1 .. MaxAttempts - 1 /\ wait \in Nat
    BY <1>12, ScheduleAssumption DEF Refusal
  <2>2. worker.attempts + 1 \in 0 .. MaxAttempts - 1
    BY <2>1
  <2> HIDE DEF wait
  <2>3. Plus(now, wait) \in Time
    BY <2>1, PlusType
  <2>4. worker' = [worker EXCEPT !.pc = "returning", !.attempts = @ + 1, !.at = Plus(now, wait)]
    BY <1>12 DEF Refusal, wait
  <2>5. worker' \in WorkerType /\ worker'.row = worker.row
    BY <2>2, <2>3, <2>4 DEF WorkerType
  <2>6. now.sec \in Nat
    BY DEF Time
  <2>7. refused' \in Seq(Nat) /\ Len(refused') = Len(refused)
    BY <1>12, <2>6 DEF Refusal
  <2>8. worker.row \in DOMAIN rows /\ UNCHANGED <<now, rows, handler>>
    BY <1>12 DEF Refusal
  <2>9. QED
    BY <2>5, <2>7, <2>8 DEF WorkerType
<1>13. CASE MarkRetry
  <2>1. [status |-> "pending", attempts |-> worker.attempts, next |-> worker.at] \in Row
    BY DEF Row
  <2>2. rows' \in Seq(Row) /\ DOMAIN rows' = DOMAIN rows /\ Len(rows') = Len(rows)
    BY <1>13, <2>1 DEF MarkRetry
  <2>3. worker' \in WorkerType /\ worker'.pc = "idle"
    BY <1>13, MidnightIsATime, ScheduleAssumption DEF MarkRetry, WorkerIdle, WorkerType
  <2>4. QED
    BY <1>13, <2>2, <2>3 DEF MarkRetry, WorkerType
<1>14. QED
  BY <1>1, <1>2, <1>3, <1>4, <1>5, <1>6, <1>7, <1>8, <1>10, <1>11, <1>12, <1>13
  DEF Next, WorkerStep

\* Rows, workers and clock readings keep their types (dispatch.go:68-207).
THEOREM ScheduleTypeCorrect == Spec => []TypeOK
BY InitType, NextType, PTL DEF Spec

-----------------------------------------------------------------------------
(* Spacing *)

Spaced(sec, i, attempts) == attempts > 0 => sec >= refused[i] + Wait[attempts]

PendingAreSpaced ==
  \A i \in DOMAIN rows :
    rows[i].status = "pending" => Spaced(rows[i].next.sec, i, rows[i].attempts)

HeldIsSpaced ==
  worker.pc \in {"sending", "returning"} =>
    /\ rows[worker.row].status = "running"
    /\ Spaced(worker.at.sec, worker.row, worker.attempts)

\* What is read of the clock is past; only the next attempt lies ahead.
ReadingsArePast == worker.pc \in {"selecting", "sending"} => worker.at.sec <= now.sec

\* The strengthening: the time a pending row waits for, and then the worker's, keep
\* the distance from the last refusal.
SpacingInv ==
  /\ TypeOK
  /\ PendingAreSpaced
  /\ HeldIsSpaced
  /\ ReadingsArePast

\* At the start there is nothing to space.
LEMMA InitSpacing ==
  ASSUME Init
  PROVE  SpacingInv
BY InitType DEF Init, SpacingInv, PendingAreSpaced, HeldIsSpaced, ReadingsArePast,
   WorkerIdle

\* No row held, no row made pending.
LEMMA RowsKept ==
  ASSUME SpacingInv, UNCHANGED <<rows, refused>>, worker'.pc \in {"idle", "selecting"}
  PROVE  PendingAreSpaced' /\ HeldIsSpaced'
BY DEF SpacingInv, PendingAreSpaced, HeldIsSpaced, Spaced

\* Only the clock and the handler move.
LEMMA OutsideKeepsSpacing ==
  ASSUME SpacingInv, TypeOK', UNCHANGED <<rows, worker, refused>>, now'.sec >= now.sec
  PROVE  SpacingInv'
<1>1. PendingAreSpaced'
  BY DEF SpacingInv, PendingAreSpaced, Spaced
<1>2. HeldIsSpaced'
  BY DEF SpacingInv, HeldIsSpaced, Spaced
<1>3. now.sec \in Nat /\ now'.sec \in Nat /\ worker.at.sec \in Nat
  BY DEF SpacingInv, TypeOK, Time
<1>4. ReadingsArePast'
  BY <1>3 DEF SpacingInv, ReadingsArePast
<1>5. QED
  BY <1>1, <1>2, <1>4 DEF SpacingInv

\* A new row has not been refused.
LEMMA EnqueueKeepsSpacing ==
  ASSUME SpacingInv, TypeOK', Enqueue
  PROVE  SpacingInv'
<1> DEFINE new == [status |-> "pending", attempts |-> 0, next |-> handler.at]
<1>1. /\ rows \in Seq(Row) /\ refused \in Seq(Nat) /\ Len(refused) = Len(rows)
      /\ rows' = Append(rows, new) /\ refused' = Append(refused, 0)
      /\ worker' = worker /\ now' = now
  BY DEF SpacingInv, TypeOK, Enqueue
<1>2. new.attempts = 0
  OBVIOUS
<1> HIDE DEF new
<1>3. /\ \A i \in DOMAIN rows : rows'[i] = rows[i] /\ refused'[i] = refused[i]
      /\ \A i \in DOMAIN rows' : i \notin DOMAIN rows => rows'[i] = new
  BY <1>1
<1>4. PendingAreSpaced'
  BY <1>2, <1>3 DEF SpacingInv, PendingAreSpaced, Spaced
<1>5. HeldIsSpaced'
  BY <1>1, <1>3 DEF SpacingInv, TypeOK, HeldIsSpaced, Spaced
<1>6. QED
  BY <1>1, <1>4, <1>5 DEF SpacingInv, ReadingsArePast

\* The claimed row was due, by its text and hence by its second.
LEMMA ClaimKeepsSpacing ==
  ASSUME SpacingInv, TypeOK', Claim
  PROVE  SpacingInv'
<1>1. PICK i \in Selected(worker.at) :
        /\ rows' = [rows EXCEPT ![i].status = "running"]
        /\ worker' = [worker EXCEPT !.pc = "sending", !.row = i,
                                    !.attempts = rows[i].attempts]
  BY DEF Claim
<1>2. /\ worker.pc = "selecting" /\ UNCHANGED <<now, refused>>
      /\ rows \in Seq(Row) /\ worker \in WorkerType
  BY DEF Claim, SpacingInv, TypeOK, WorkerType
<1>3. /\ i \in DOMAIN rows /\ rows[i] \in Row /\ rows[i].status = "pending"
      /\ TextLeq(rows[i].next, worker.at)
  BY <1>2 DEF Selected, Due
<1>4. rows[i].next \in Time /\ worker.at \in Time
  BY <1>2, <1>3 DEF Row, WorkerType
<1>5. rows[i].next.sec <= worker.at.sec
  BY <1>3, <1>4, SecondsDecide
<1>6. /\ worker'.pc = "sending" /\ worker'.row = i /\ worker'.at = worker.at
      /\ worker'.attempts = rows[i].attempts
  BY <1>1, <1>2 DEF WorkerType
<1>7. /\ DOMAIN rows' = DOMAIN rows /\ rows'[i].status = "running"
      /\ \A j \in DOMAIN rows : j # i => rows'[j] = rows[j]
  BY <1>1, <1>2, <1>3 DEF Row
<1>8. PendingAreSpaced'
  BY <1>2, <1>7 DEF SpacingInv, PendingAreSpaced, Spaced
<1>9. Spaced(worker.at.sec, i, rows[i].attempts)
  <2>1. SUFFICES ASSUME rows[i].attempts > 0
                 PROVE  worker.at.sec >= refused[i] + Wait[rows[i].attempts]
    BY DEF Spaced
  <2>2. rows[i].next.sec >= refused[i] + Wait[rows[i].attempts]
    BY <1>3, <2>1 DEF SpacingInv, PendingAreSpaced, Spaced
  <2>3. rows[i].attempts \in 1 .. MaxAttempts
    BY <1>3, <2>1, ScheduleAssumption DEF Row
  <2>4. Wait[rows[i].attempts] \in Nat
    BY <2>3, ScheduleAssumption
  <2>5. refused[i] \in Nat
    BY <1>3 DEF SpacingInv, TypeOK
  <2>6. rows[i].next.sec \in Nat /\ worker.at.sec \in Nat
    BY <1>4 DEF Time
  <2>7. QED
    BY <1>5, <2>2, <2>4, <2>5, <2>6
<1>10. HeldIsSpaced'
  BY <1>2, <1>6, <1>7, <1>9 DEF HeldIsSpaced, Spaced
<1>11. ReadingsArePast'
  BY <1>2, <1>6 DEF SpacingInv, ReadingsArePast
<1>12. QED
  BY <1>8, <1>10, <1>11 DEF SpacingInv

\* A release gives the row the time of the moment, and that is later than the claim's.
LEMMA ReleaseKeepsSpacing ==
  ASSUME SpacingInv, TypeOK', Release
  PROVE  SpacingInv'
<1>1. /\ worker.pc = "sending" /\ UNCHANGED <<now, rows, refused>>
      /\ worker \in WorkerType /\ worker.at.sec <= now.sec
      /\ worker' = [worker EXCEPT !.pc = "returning", !.at = now]
  BY DEF Release, SpacingInv, TypeOK, WorkerType, ReadingsArePast
<1>2. /\ worker'.pc = "returning" /\ worker'.row = worker.row /\ worker'.at = now
      /\ worker'.attempts = worker.attempts
  BY <1>1 DEF WorkerType
<1>3. PendingAreSpaced'
  BY <1>1 DEF SpacingInv, PendingAreSpaced, Spaced
<1>4. Spaced(now.sec, worker.row, worker.attempts)
  <2>1. SUFFICES ASSUME worker.attempts > 0
                 PROVE  now.sec >= refused[worker.row] + Wait[worker.attempts]
    BY DEF Spaced
  <2>2. worker.at.sec >= refused[worker.row] + Wait[worker.attempts]
    BY <1>1, <2>1 DEF SpacingInv, HeldIsSpaced, Spaced
  <2>3. worker.attempts \in 1 .. MaxAttempts
    BY <1>1, <2>1, ScheduleAssumption DEF WorkerType
  <2>4. Wait[worker.attempts] \in Nat
    BY <2>3, ScheduleAssumption
  <2>5. refused[worker.row] \in Nat
    BY <1>1 DEF SpacingInv, TypeOK
  <2>6. now.sec \in Nat /\ worker.at.sec \in Nat
    BY <1>1 DEF SpacingInv, TypeOK, WorkerType, Time
  <2>7. QED
    BY <1>1, <2>2, <2>4, <2>5, <2>6
<1>5. HeldIsSpaced'
  BY <1>1, <1>2, <1>4 DEF SpacingInv, HeldIsSpaced, Spaced
<1>6. ReadingsArePast'
  BY <1>2 DEF ReadingsArePast
<1>7. QED
  BY <1>3, <1>5, <1>6 DEF SpacingInv

\* The row and the worker leave the queue.
LEMMA SettleKeepsSpacing ==
  ASSUME SpacingInv, TypeOK', NEW status \in {"done", "failed"},
         worker.pc = "sending", Settle(status)
  PROVE  SpacingInv'
<1>1. /\ rows' = [rows EXCEPT ![worker.row].status = status]
      /\ worker'.pc = "idle" /\ UNCHANGED <<now, refused>>
      /\ rows \in Seq(Row) /\ worker.row \in DOMAIN rows /\ rows[worker.row] \in Row
  BY DEF Settle, WorkerIdle, SpacingInv, TypeOK
<1>2. /\ DOMAIN rows' = DOMAIN rows /\ rows'[worker.row].status = status
      /\ \A j \in DOMAIN rows : j # worker.row => rows'[j] = rows[j]
  BY <1>1 DEF Row
<1>3. PendingAreSpaced'
  BY <1>1, <1>2 DEF SpacingInv, PendingAreSpaced, Spaced
<1>4. HeldIsSpaced' /\ ReadingsArePast'
  BY <1>1 DEF HeldIsSpaced, ReadingsArePast
<1>5. QED
  BY <1>3, <1>4 DEF SpacingInv

\* The next attempt is the backoff away from now, the time of the refusal.
LEMMA RefusalKeepsSpacing ==
  ASSUME SpacingInv, TypeOK', Refusal
  PROVE  SpacingInv'
<1> DEFINE wait == Wait[worker.attempts + 1]
<1>1. /\ worker.pc = "sending" /\ UNCHANGED <<now, rows>>
      /\ worker \in WorkerType /\ now \in Time /\ refused \in Seq(Nat)
      /\ worker.row \in DOMAIN refused /\ rows[worker.row].status = "running"
      /\ worker.attempts + 1 \in 1 .. MaxAttempts
      /\ worker' = [worker EXCEPT !.pc = "returning", !.attempts = @ + 1,
                                  !.at = Plus(now, wait)]
      /\ refused' = [refused EXCEPT ![worker.row] = now.sec]
  BY ScheduleAssumption DEF Refusal, SpacingInv, TypeOK, WorkerType, HeldIsSpaced
<1>2. wait \in Nat
  BY <1>1, ScheduleAssumption
<1>3. Plus(now, wait).sec = now.sec + wait
  BY <1>1, <1>2, PlusType
<1>4. /\ worker'.pc = "returning" /\ worker'.row = worker.row
      /\ worker'.attempts = worker.attempts + 1 /\ worker'.at = Plus(now, wait)
  BY <1>1 DEF WorkerType
<1>5. /\ refused'[worker.row] = now.sec
      /\ \A j \in DOMAIN refused : j # worker.row => refused'[j] = refused[j]
  BY <1>1
<1>6. DOMAIN rows = DOMAIN refused
  BY DEF SpacingInv, TypeOK
<1>7. PendingAreSpaced'
  BY <1>1, <1>5, <1>6 DEF SpacingInv, PendingAreSpaced, Spaced
<1>8. Spaced(worker.at.sec, worker.row, worker.attempts)'
  <2>1. now.sec \in Nat
    BY <1>1 DEF Time
  <2>2. worker'.at.sec = refused'[worker'.row] + Wait'[worker'.attempts]
    BY <1>3, <1>4, <1>5 DEF wait
  <2>3. worker'.at.sec >= refused'[worker'.row] + Wait'[worker'.attempts]
    BY <1>2, <1>3, <1>4, <2>1, <2>2
  <2>4. QED
    BY <2>3 DEF Spaced
<1>9. HeldIsSpaced'
  BY <1>1, <1>4, <1>8 DEF HeldIsSpaced
<1>10. ReadingsArePast'
  BY <1>4 DEF ReadingsArePast
<1>11. QED
  BY <1>7, <1>9, <1>10 DEF SpacingInv

\* The row takes over the worker's time.
LEMMA MarkRetryKeepsSpacing ==
  ASSUME SpacingInv, TypeOK', MarkRetry
  PROVE  SpacingInv'
<1> DEFINE row == [status |-> "pending", attempts |-> worker.attempts, next |-> worker.at]
<1>1. /\ rows' = [rows EXCEPT ![worker.row] = row]
      /\ worker'.pc = "idle" /\ UNCHANGED <<now, refused>>
      /\ rows \in Seq(Row) /\ worker.row \in DOMAIN rows
      /\ Spaced(worker.at.sec, worker.row, worker.attempts)
  BY DEF MarkRetry, WorkerIdle, SpacingInv, TypeOK, HeldIsSpaced
<1>2. row.attempts = worker.attempts /\ row.next = worker.at
  OBVIOUS
<1> HIDE DEF row
<1>3. /\ DOMAIN rows' = DOMAIN rows /\ rows'[worker.row] = row
      /\ \A j \in DOMAIN rows : j # worker.row => rows'[j] = rows[j]
  BY <1>1
<1>4. PendingAreSpaced'
  BY <1>1, <1>2, <1>3 DEF SpacingInv, PendingAreSpaced, Spaced
<1>5. HeldIsSpaced' /\ ReadingsArePast'
  BY <1>1 DEF HeldIsSpaced, ReadingsArePast
<1>6. QED
  BY <1>4, <1>5 DEF SpacingInv

\* Every step keeps the spacing.
LEMMA NextSpacing ==
  ASSUME SpacingInv, [Next]_vars
  PROVE  SpacingInv'
<1>1. TypeOK /\ TypeOK'
  BY NextType DEF SpacingInv
<1>2. CASE UNCHANGED vars
  BY <1>1, <1>2 DEF vars, SpacingInv, PendingAreSpaced, HeldIsSpaced, ReadingsArePast, Spaced
<1>3. CASE Tick
  <2>1. now'.sec >= now.sec
    BY <1>1, <1>3, LaterSeconds DEF Tick, TypeOK
  <2>2. QED
    BY <1>1, <1>3, <2>1, OutsideKeepsSpacing DEF Tick
<1>4. CASE ReadArrival
  <2>1. now'.sec >= now.sec
    BY <1>1, <1>4 DEF ReadArrival, TypeOK, Time
  <2>2. QED
    BY <1>1, <1>4, <2>1, OutsideKeepsSpacing DEF ReadArrival
<1>5. CASE Enqueue
  BY <1>1, <1>5, EnqueueKeepsSpacing
<1>6. CASE Poll
  <2>1. worker'.pc = "selecting" /\ worker'.at = now /\ UNCHANGED <<now, rows, refused>>
    BY <1>1, <1>6 DEF Poll, TypeOK
  <2>2. PendingAreSpaced' /\ HeldIsSpaced'
    BY <2>1, RowsKept
  <2>3. now.sec \in Nat
    BY <1>1 DEF TypeOK, Time
  <2>4. QED
    BY <1>1, <2>1, <2>2, <2>3 DEF SpacingInv, ReadingsArePast
<1>7. CASE Claim
  BY <1>1, <1>7, ClaimKeepsSpacing
<1>8. CASE ClaimNothing
  <2>1. worker'.pc = "idle" /\ UNCHANGED <<now, rows, refused>>
    BY <1>8 DEF ClaimNothing, WorkerIdle
  <2>2. PendingAreSpaced' /\ HeldIsSpaced'
    BY <2>1, RowsKept
  <2>3. QED
    BY <1>1, <2>1, <2>2 DEF SpacingInv, ReadingsArePast
<1>9. CASE Release
  BY <1>1, <1>9, ReleaseKeepsSpacing
<1>10. CASE Delivered
  BY <1>1, <1>10, SettleKeepsSpacing DEF Delivered
<1>11. CASE LastRefusal
  BY <1>1, <1>11, SettleKeepsSpacing DEF LastRefusal
<1>12. CASE Refusal
  BY <1>1, <1>12, RefusalKeepsSpacing
<1>13. CASE MarkRetry
  BY <1>1, <1>13, MarkRetryKeepsSpacing
<1>14. QED
  BY <1>2, <1>3, <1>4, <1>5, <1>6, <1>7, <1>8, <1>9, <1>10, <1>11, <1>12, <1>13
  DEF Next, WorkerStep

\* Between a refusal and the claim for the next request lies the whole backoff, counted
\* in seconds of the clock (dispatch.go:174-202, 329-342, sqlite.go:402, 468-470).
THEOREM BackoffIsKept == Spec => []RetriesAreSpaced
<1>1. Init => SpacingInv
  BY InitSpacing
<1>2. SpacingInv /\ [Next]_vars => SpacingInv'
  BY NextSpacing
<1>3. SpacingInv => RetriesAreSpaced
  BY DEF SpacingInv, HeldIsSpaced, Spaced, RetriesAreSpaced
<1>4. QED
  BY <1>1, <1>2, <1>3, PTL DEF Spec

-----------------------------------------------------------------------------
(* Order *)

\* The row held is not overtaken by more than a second, and is a row: with the types,
\* inductive.
OrderInv == TypeOK /\ OvertakenWithinASecond

\* A row that the claim passed over was not due by its text, and hence not by its
\* second.
LEMMA ClaimKeepsOrder ==
  ASSUME OrderInv, Claim
  PROVE  OvertakenWithinASecond'
<1>1. PICK i \in Selected(worker.at) :
        /\ rows' = [rows EXCEPT ![i].status = "running"]
        /\ worker' = [worker EXCEPT !.pc = "sending", !.row = i,
                                    !.attempts = rows[i].attempts]
  BY DEF Claim
<1>2. /\ worker.pc = "selecting" /\ rows \in Seq(Row) /\ worker \in WorkerType
  BY DEF Claim, OrderInv, TypeOK, WorkerType
<1>3. i \in DOMAIN rows /\ i \in 1 .. Len(rows) /\ \A j \in Due(worker.at) : i <= j
  BY <1>2 DEF Selected, Due
<1>4. worker'.row = i /\ worker'.at = worker.at
  BY <1>1, <1>2 DEF WorkerType
<1>5. \A j \in DOMAIN rows : j # i => rows'[j] = rows[j]
  BY <1>1, <1>2
<1>6. ASSUME NEW j \in 1 .. i - 1, rows[j].status = "pending"
      PROVE  rows[j].next.sec >= worker.at.sec
  <2>1. j \in DOMAIN rows /\ j < i /\ rows[j] \in Row
    BY <1>2, <1>3
  <2>2. j \notin Due(worker.at)
    BY <1>3, <2>1
  <2>3. ~TextLeq(rows[j].next, worker.at)
    BY <1>6, <2>1, <2>2 DEF Due
  <2>4. rows[j].next \in Time /\ worker.at \in Time
    BY <1>2, <2>1 DEF Row, WorkerType
  <2>5. ~(rows[j].next.sec < worker.at.sec)
    BY <2>3, <2>4, SecondsDecide
  <2>6. QED
    BY <2>4, <2>5 DEF Time
<1>7. ASSUME NEW j \in 1 .. i - 1, rows'[j].status = "pending"
      PROVE  rows'[j].next.sec >= worker.at.sec
  <2>1. j \in DOMAIN rows /\ j # i
    BY <1>2, <1>3
  <2>2. QED
    BY <1>5, <1>6, <1>7, <2>1
<1>8. QED
  BY <1>4, <1>7 DEF OvertakenWithinASecond

\* A new row comes after the one held.
LEMMA EnqueueKeepsOrder ==
  ASSUME OrderInv, Enqueue
  PROVE  OvertakenWithinASecond'
<1>1. SUFFICES ASSUME worker'.pc = "sending", NEW j \in 1 .. worker'.row - 1,
                      rows'[j].status = "pending"
               PROVE  rows'[j].next.sec >= worker'.at.sec
  BY DEF OvertakenWithinASecond
<1>2. worker' = worker /\ rows \in Seq(Row) /\ worker.row \in 1 .. Len(rows)
  BY <1>1 DEF Enqueue, OrderInv, TypeOK
<1>3. j \in 1 .. Len(rows) /\ j \in 1 .. worker.row - 1
  BY <1>2
<1>4. rows'[j] = rows[j]
  BY <1>2, <1>3 DEF Enqueue
<1>5. QED
  BY <1>1, <1>2, <1>3, <1>4 DEF OrderInv, OvertakenWithinASecond

\* Every step keeps the order.
LEMMA NextOrder ==
  ASSUME OrderInv, [Next]_vars
  PROVE  OrderInv'
<1>1. TypeOK'
  BY NextType DEF OrderInv
<1>2. CASE Claim
  BY <1>1, <1>2, ClaimKeepsOrder DEF OrderInv
<1>3. CASE Enqueue
  BY <1>1, <1>3, EnqueueKeepsOrder DEF OrderInv
<1>4. CASE UNCHANGED <<rows, worker>>
  BY <1>1, <1>4 DEF OrderInv, OvertakenWithinASecond
<1>5. CASE worker'.pc # "sending"
  BY <1>1, <1>5 DEF OrderInv, OvertakenWithinASecond
<1>6. worker \in WorkerType
  BY DEF OrderInv, TypeOK, WorkerType
<1>7. Poll \/ Release \/ Refusal => worker'.pc # "sending"
  <2>1. Poll => worker'.pc = "selecting"
    BY <1>6 DEF Poll, WorkerType
  <2>2. Release => worker'.pc = "returning"
    BY <1>6 DEF Release, WorkerType
  <2>3. Refusal => worker'.pc = "returning"
    BY <1>6 DEF Refusal, WorkerType
  <2>4. QED
    BY <2>1, <2>2, <2>3
<1>8. ClaimNothing \/ MarkRetry \/ Delivered \/ LastRefusal => worker'.pc # "sending"
  BY DEF ClaimNothing, MarkRetry, Delivered, LastRefusal, Settle, WorkerIdle
<1>9. QED
  BY <1>2, <1>3, <1>4, <1>5, <1>7, <1>8
  DEF Next, WorkerStep, vars, Tick, ReadArrival

\* A row is passed over only within the second in which it becomes due, for any number
\* of digits (sqlite.go:402-404, 468-470).
THEOREM PassedOverWithinASecond == Spec => []OvertakenWithinASecond
<1>1. Init => OrderInv
  BY InitType DEF Init, OrderInv, OvertakenWithinASecond, WorkerIdle
<1>2. OrderInv /\ [Next]_vars => OrderInv'
  BY NextOrder
<1>3. OrderInv => OvertakenWithinASecond
  BY DEF OrderInv
<1>4. QED
  BY <1>1, <1>2, <1>3, PTL DEF Spec

=============================================================================
