------------------------------ MODULE MCDispatch ------------------------------
(* An instance of Dispatch for TLC: a notification with one link, twice in its text. *)
EXTENDS Dispatch

CONSTANTS q1, c1, r1, u1

OneLinked == {[qid |-> q1, content |-> c1, raw |-> r1, urls |-> <<u1, u1>>]}
=============================================================================
