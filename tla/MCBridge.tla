------------------------------- MODULE MCBridge -------------------------------
(* Instances of Bridge for TLC. *)
EXTENDS Bridge

CONSTANTS q1, c1, c2, r1, r2, r3, u1, u2

\* A notification with a link, and one that says the same with two links and comes again
\* in another frame.
Linked == [qid |-> q1, content |-> c1, raw |-> r1, urls |-> <<u1>>]
TwoLinks == [Linked EXCEPT !.urls = <<u1, u2>>]
Resent == [TwoLinks EXCEPT !.raw = r2]
\* Two notifications without a message id that say the same.
Anonymous == [qid |-> NoQid, content |-> c2, raw |-> r2, urls |-> <<>>]
Echo == [Anonymous EXCEPT !.raw = r3]

OneLinked == {Linked}
Plain == {Anonymous}
Repeated == {TwoLinks, Resent, Anonymous, Echo}
=============================================================================
