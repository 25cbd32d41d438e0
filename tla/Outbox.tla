-------------------------------- MODULE Outbox --------------------------------
(***************************************************************************)
(* What the bridge promises of the rows it queues for the robot, without   *)
(* tables, workers or errors: an entry is offered once, is requested at    *)
(* most MaxRequests times, is closed as done only after the robot took it  *)
(* and as failed only when every request is spent, and a closed entry is   *)
(* neither requested nor reopened.  Nothing is promised about when: the    *)
(* liveness properties of the modules that implement this one say that.    *)
(***************************************************************************)
EXTENDS Naturals, Sequences

CONSTANT MaxRequests

VARIABLES
  outcome,   \* a sequence: "open", "done" or "failed" for each entry
  requested, \* requests made for an entry (entries with none may be absent)
  taken      \* the entries the robot took

outbox == <<outcome, requested, taken>>

Requested(i) == IF i \in DOMAIN requested THEN requested[i] ELSE 0

Init == outcome = <<>> /\ requested = <<>> /\ taken = {}

Offer ==
  /\ outcome' = Append(outcome, "open")
  /\ UNCHANGED <<requested, taken>>

Open(i) == i \in DOMAIN outcome /\ outcome[i] = "open"

Request(i) ==
  /\ Open(i)
  /\ Requested(i) < MaxRequests
  /\ requested' = [j \in DOMAIN requested \cup {i} |->
                     Requested(j) + (IF j = i THEN 1 ELSE 0)]
  /\ UNCHANGED <<outcome, taken>>

\* The robot takes an entry some request carried; a late answer is allowed, a
\* second take of the same entry is the same as the first.
Take(i) ==
  /\ Open(i)
  /\ Requested(i) > 0
  /\ taken' = taken \cup {i}
  /\ UNCHANGED <<outcome, requested>>

Close(i) ==
  /\ Open(i)
  /\ \/ i \in taken /\ outcome' = [outcome EXCEPT ![i] = "done"]
     \/ Requested(i) = MaxRequests /\ outcome' = [outcome EXCEPT ![i] = "failed"]
  /\ UNCHANGED <<requested, taken>>

Next ==
  \/ Offer
  \/ \E i \in DOMAIN outcome : Request(i) \/ Take(i) \/ Close(i)

Spec == Init /\ [][Next]_outbox
=============================================================================
