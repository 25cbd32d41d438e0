-------------------------------- MODULE Schedule --------------------------------
(***************************************************************************)
(* When a queued row is tried: next_attempt_at and the clock.              *)
(*                                                                         *)
(* Store takes next_attempt_at to be past or future.  In the database it   *)
(* is a text, the time in the format RFC3339Nano, and the claim compares   *)
(* texts: "next_attempt_at <= ?".  The format drops the zeros at the end   *)
(* of the fraction, and the point with them, so that within a second the   *)
(* order of the texts is not the order of the times: 05.5Z comes after     *)
(* 05.51Z, and 05Z after all fractions of its second.  This module has the *)
(* clock, the texts and the queue's times, for one of the twin tables;     *)
(* what Dispatch says of requests, errors and budgets is not repeated.     *)
(* The clock is not set back.                                              *)
(***************************************************************************)
EXTENDS Naturals, Sequences

CONSTANTS
  Base,         \* a digit is below it: 10 in the code
  Places,       \* digits of a fraction: 9 in the code
  MaxAttempts,  \* retry.wecom_max_attempts
  Wait,         \* the backoff after each attempt, in seconds: see Backoff
  MaxRows,      \* bound: rows queued
  MaxSeconds    \* bound: the clock's last second

ASSUME DigitsAssumption == Base \in Nat \ {0} /\ Places \in Nat

ASSUME ScheduleAssumption ==
  /\ MaxAttempts \in Nat \ {0}
  /\ Wait \in [1 .. MaxAttempts -> Nat \ {0}]
  /\ MaxRows \in Nat
  /\ MaxSeconds \in Nat

VARIABLES
  now,      \* the clock
  rows,     \* the table
  handler,  \* HandleMessage, between reading the clock and the insert
  worker,   \* a delivery worker, with a row, its attempts and a clock reading
  refused   \* history: the second of a row's last refusal

vars == <<now, rows, handler, worker, refused>>

-----------------------------------------------------------------------------
(* Times and their texts *)

Time == [sec : Nat, frac : [1 .. Places -> 0 .. Base - 1]]
Midnight == [sec |-> 0, frac |-> [k \in 1 .. Places |-> 0]]

\* The times the clock can show.
Shown == [sec : 0 .. MaxSeconds, frac : [1 .. Places -> 0 .. Base - 1]]

Plus(t, seconds) == [t EXCEPT !.sec = @ + seconds]

Later(t, u) ==
  \/ t.sec > u.sec
  \/ /\ t.sec = u.sec
     /\ \E k \in 1 .. Places : /\ t.frac[k] > u.frac[k]
                               /\ \A j \in 1 .. k - 1 : t.frac[j] = u.frac[j]

\* The digits that are not zeros at the end.
Kept(t) == {k \in 1 .. Places : \E j \in k .. Places : t.frac[j] # 0}

\* The order of the characters: the point, the digits, Z.
Point == 0
Digit(d) == d + 1
Zed == Base + 1

\* The date and the seconds have a fixed width, so that the order of their texts is
\* the order of their numbers: they are the first "character".  Z ends a text and is
\* nowhere else, so that no text is the beginning of another and the texts may as
\* well be filled up with it.
EncodeTime(t) ==
  [k \in 0 .. Places + 1 |->
     CASE k = 0 -> t.sec
       [] k = 1 -> IF Kept(t) = {} THEN Zed ELSE Point
       [] OTHER -> IF k - 1 \in Kept(t) THEN Digit(t.frac[k - 1]) ELSE Zed]

\* SQLite compares from the left.
TextLeq(t, u) ==
  LET s == EncodeTime(t)
      v == EncodeTime(u)
  IN  \/ s = v
      \/ \E k \in DOMAIN s : s[k] < v[k] /\ \A j \in 0 .. k - 1 : s[j] = v[j]

-----------------------------------------------------------------------------

Row == [status : {"pending", "running", "done", "failed"},
        attempts : 0 .. MaxAttempts - 1, next : Time]

HandlerIdle == [pc |-> "idle", at |-> Midnight]
WorkerIdle == [pc |-> "idle", row |-> 0, attempts |-> 0, at |-> Midnight]

Init ==
  /\ now = Midnight
  /\ rows = <<>>
  /\ handler = HandlerIdle
  /\ worker = WorkerIdle
  /\ refused = <<>>

Tick ==
  /\ \E t \in Shown : Later(t, now) /\ now' = t
  /\ UNCHANGED <<rows, handler, worker, refused>>

-----------------------------------------------------------------------------
(* HandleMessage *)

\* now := time.Now(), once for the message's row and its links' tasks.  Bound: before
\* the clock's last second.
ReadArrival ==
  /\ handler.pc = "idle"
  /\ now.sec < MaxSeconds
  /\ Len(rows) < MaxRows
  /\ handler' = [pc |-> "queueing", at |-> now]
  /\ UNCHANGED <<now, rows, worker, refused>>

Enqueue ==
  /\ handler.pc = "queueing"
  /\ rows' = Append(rows, [status |-> "pending", attempts |-> 0, next |-> handler.at])
  /\ refused' = Append(refused, 0)
  /\ handler' = HandlerIdle
  /\ UNCHANGED <<now, worker>>

-----------------------------------------------------------------------------
(* The worker *)

\* The clock is read before the transaction that claims.
Poll ==
  /\ worker.pc = "idle"
  /\ worker' = [worker EXCEPT !.pc = "selecting", !.at = now]
  /\ UNCHANGED <<now, rows, handler, refused>>

Due(t) ==
  {i \in DOMAIN rows : rows[i].status = "pending" /\ TextLeq(rows[i].next, t)}

\* Mutant: the last row first.
Selected_LastFirst(t) == {i \in Due(t) : \A j \in Due(t) : i >= j}

\* ORDER BY id LIMIT 1.
Selected(t) == {i \in Due(t) : \A j \in Due(t) : i <= j}

\* Mutant: the id is not scanned.
Claim_NoId ==
  /\ worker.pc = "selecting"
  /\ \E i \in Selected(worker.at) :
       /\ rows' = [rows EXCEPT ![i].status = "running"]
       /\ worker' = [worker EXCEPT !.pc = "sending", !.attempts = rows[i].attempts]
  /\ UNCHANGED <<now, handler, refused>>

Claim ==
  /\ worker.pc = "selecting"
  /\ \E i \in Selected(worker.at) :
       /\ rows' = [rows EXCEPT ![i].status = "running"]
       /\ worker' = [worker EXCEPT !.pc = "sending", !.row = i,
                                   !.attempts = rows[i].attempts]
  /\ UNCHANGED <<now, handler, refused>>

ClaimNothing ==
  /\ worker.pc = "selecting"
  /\ Selected(worker.at) = {}
  /\ worker' = WorkerIdle
  /\ UNCHANGED <<now, rows, handler, refused>>

\* The run is cancelled, and the row given back with the time of that moment; a
\* later run's worker is this one, polling again.  Bound: as above.
Release ==
  /\ worker.pc = "sending"
  /\ now.sec < MaxSeconds
  /\ worker' = [worker EXCEPT !.pc = "returning", !.at = now]
  /\ UNCHANGED <<now, rows, handler, refused>>

Settle(status) ==
  /\ rows' = [rows EXCEPT ![worker.row].status = status]
  /\ worker' = WorkerIdle
  /\ UNCHANGED <<now, handler, refused>>

Delivered == worker.pc = "sending" /\ Settle("done")

LastRefusal ==
  /\ worker.pc = "sending"
  /\ worker.attempts + 1 >= MaxAttempts
  /\ Settle("failed")

\* Mutant: the wait is that of the attempt before.
Refusal_ShortWait ==
  /\ worker.pc = "sending"
  /\ worker.attempts + 1 < MaxAttempts
  /\ LET wait == IF worker.attempts = 0 THEN 0 ELSE Wait[worker.attempts]
     IN  /\ now.sec + wait < MaxSeconds
         /\ worker' = [worker EXCEPT !.pc = "returning", !.attempts = @ + 1,
                                     !.at = Plus(now, wait)]
  /\ refused' = [refused EXCEPT ![worker.row] = now.sec]
  /\ UNCHANGED <<now, rows, handler>>

\* The next attempt is due after the backoff.  Bound: while the clock can reach it.
Refusal ==
  /\ worker.pc = "sending"
  /\ worker.attempts + 1 < MaxAttempts
  /\ LET wait == Wait[worker.attempts + 1]
     IN  /\ now.sec + wait < MaxSeconds
         /\ worker' = [worker EXCEPT !.pc = "returning", !.attempts = @ + 1,
                                     !.at = Plus(now, wait)]
  /\ refused' = [refused EXCEPT ![worker.row] = now.sec]
  /\ UNCHANGED <<now, rows, handler>>

\* Mutant: the row keeps its status.
MarkRetry_StillRunning ==
  /\ worker.pc = "returning"
  /\ rows' = [rows EXCEPT ![worker.row].attempts = worker.attempts,
                          ![worker.row].next = worker.at]
  /\ worker' = WorkerIdle
  /\ UNCHANGED <<now, handler, refused>>

MarkRetry ==
  /\ worker.pc = "returning"
  /\ rows' = [rows EXCEPT ![worker.row] = [status |-> "pending", attempts |-> worker.attempts,
                                           next |-> worker.at]]
  /\ worker' = WorkerIdle
  /\ UNCHANGED <<now, handler, refused>>

WorkerStep ==
  \/ Poll \/ Claim \/ ClaimNothing
  \/ Release \/ Delivered \/ LastRefusal \/ Refusal \/ MarkRetry

Next == Tick \/ ReadArrival \/ Enqueue \/ WorkerStep

Spec == Init /\ [][Next]_vars

\* Time passes, the poll timer fires, and a request (15 s) and a statement return.
\* A run is not cancelled for ever, and when the clock has no room for another
\* backoff the request is accepted.
FairSpec ==
  /\ Spec
  /\ WF_vars(Tick)
  /\ WF_vars(Enqueue)
  /\ WF_vars(WorkerStep)
  /\ SF_vars(Delivered \/ LastRefusal \/ Refusal)

-----------------------------------------------------------------------------
(* Properties *)

TypeOK ==
  /\ now \in Time
  /\ rows \in Seq(Row)
  /\ handler \in [pc : {"idle", "queueing"}, at : Time]
  /\ worker \in [pc : {"idle", "selecting", "sending", "returning"}, row : Nat,
                 attempts : 0 .. MaxAttempts - 1, at : Time]
  /\ worker.pc \in {"sending", "returning"} => worker.row \in DOMAIN rows
  /\ refused \in Seq(Nat)
  /\ Len(refused) = Len(rows)

\* The comparison of texts lets a row go early by a part of a second at most: counted
\* in seconds of the clock, the whole backoff lies between a refusal and the claim
\* for the next request, releases in between included
\* (dispatch.go:174-202, 329-342, sqlite.go:402, 468-470).
RetriesAreSpaced ==
  worker.pc = "sending" /\ worker.attempts > 0 =>
    worker.at.sec >= refused[worker.row] + Wait[worker.attempts]

\* ... and late by as little: whatever the fractions, a row is passed over in favour of
\* a later one only within the second in which it becomes due (sqlite.go:402-404).
OvertakenWithinASecond ==
  worker.pc = "sending" =>
    \A j \in 1 .. worker.row - 1 :
      rows[j].status = "pending" => rows[j].next.sec >= worker.at.sec

\* Every row is settled although the text of a time that has come may still be the
\* greater one (sqlite.go:402, dispatch.go:117-133).
RowsSettle == <>[](\A i \in DOMAIN rows : rows[i].status \in {"done", "failed"})
=============================================================================
