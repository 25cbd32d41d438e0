------------------------------- MODULE Receiver -------------------------------
(***************************************************************************)
(* What the rest of the process relies on of either receiver: once stopped *)
(* it ends, and having started it does not end otherwise.  A prompt one    *)
(* also starts or gives up; the go-fallback is prompt, the Chrome receiver *)
(* may wait for Chrome.  Bridge takes its receiver to be one of them.      *)
(***************************************************************************)

VARIABLES
  phase,   \* "starting", "receiving" or "ended"
  stopped  \* the run was told to end

receiver == <<phase, stopped>>

Init == phase = "starting" /\ stopped = FALSE

Starts ==
  /\ phase = "starting"
  /\ phase' = "receiving"
  /\ UNCHANGED stopped

Ends ==
  /\ phase = "starting" \/ (phase = "receiving" /\ stopped)
  /\ phase' = "ended"
  /\ UNCHANGED stopped

Stop == stopped' = TRUE /\ UNCHANGED phase

\* Another life of the process.
Restart == phase' = "starting" /\ stopped' = FALSE

Next == Starts \/ Ends \/ Stop \/ Restart

Spec == Init /\ [][Next]_receiver /\ WF_receiver(stopped /\ Ends)

PromptSpec == Spec /\ WF_receiver(Starts \/ Ends)
=============================================================================
