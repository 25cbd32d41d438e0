-------------------------------- MODULE Backoff --------------------------------
(***************************************************************************)
(* How long the bridge waits before it tries again: Service.nextAttempt    *)
(* between the requests for one row, app.Backoff between two sockets.      *)
(* Lengths are in whole seconds, the unit of the configuration; doubling   *)
(* stops at the maximum, so that no length outgrows the machine's integers *)
(* before it does.                                                         *)
(***************************************************************************)
EXTENDS Integers

Lesser(a, b) == IF a < b THEN a ELSE b

\* dispatch: backoff[i] is the variable's value after i - 1 rounds of the loop; once
\* it has been set to max it stays there.
NextAttempt(initial, max, attempts) ==
  LET backoff[i \in 1 .. attempts] ==
        IF i = 1 THEN Lesser(initial, max) ELSE Lesser(2 * backoff[i - 1], max)
  IN  backoff[attempts]

\* app: a missing length has a default, and a maximum below the initial length is
\* raised to it.
AppBackoff(configInitial, configMax, attempts) ==
  LET initial == IF configInitial <= 0 THEN 2 ELSE configInitial
      given == IF configMax <= 0 THEN 60 ELSE configMax
      max == IF given < initial THEN initial ELSE given
      d[i \in 1 .. attempts] ==
        IF i = 1 THEN initial ELSE IF 2 * d[i - 1] >= max THEN max ELSE 2 * d[i - 1]
  IN  d[attempts]

\* The reference: exponential, bounded by max.
Exponential(initial, max, attempts) ==
  LET power[i \in 1 .. attempts] == IF i = 1 THEN 1 ELSE 2 * power[i - 1]
  IN  Lesser(initial * power[attempts], max)
=============================================================================
