--------------------------- MODULE MCChromeReceiver ---------------------------
(* Instances of ChromeReceiver for TLC. *)
EXTENDS ChromeReceiver

CONSTANTS w1, w2, o1
=============================================================================
