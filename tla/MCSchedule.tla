------------------------------ MODULE MCSchedule ------------------------------
(* An instance of Schedule for TLC, with the backoffs the code computes. *)
EXTENDS Schedule, Backoff

CONSTANTS InitialBackoff, MaxBackoff  \* retry.initial_backoff_seconds and its maximum

Waits == [n \in 1 .. MaxAttempts |-> NextAttempt(InitialBackoff, MaxBackoff, n)]
=============================================================================
