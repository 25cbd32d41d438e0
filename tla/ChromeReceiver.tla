---------------------------- MODULE ChromeReceiver ----------------------------
(***************************************************************************)
(* internal/chromereceiver: finding the service worker of the WxPusher     *)
(* extension over the DevTools protocol (CDP), listening to its network    *)
(* events, and telling the frames of its WebSocket from the others.        *)
(*                                                                         *)
(* Chrome, the extension and CDP are external.  The worker may be stopped  *)
(* and started by Chrome, may have opened its socket before the receiver   *)
(* listens, and holds one WxPusher socket at a time.  Sockets to other     *)
(* hosts carry frames of no type the protocol knows.  CDP reports, in      *)
(* order, what happens after network.Enable in the worker that is attached.*)
(***************************************************************************)
EXTENDS Naturals, Sequences

CONSTANTS
  WxSocket,     \* request ids of sockets to the WxPusher host
  OtherSocket,  \* request ids of sockets to other hosts
  MaxEvents,    \* bound: events CDP reports
  MaxWorkers    \* bound: times the extension's worker is started

ASSUME ChromeReceiverAssumption ==
  /\ WxSocket \cap OtherSocket = {}
  /\ MaxEvents \in Nat
  /\ MaxWorkers \in Nat

VARIABLES
  chrome,    \* "up" or "gone"
  worker,    \* the running worker: its number, 0 when there is none
  workers,   \* how many were started
  sockets,   \* [Socket -> SocketState]
  stream,    \* the events CDP reports, in order
  handled,   \* how many of them the listener has handled
  phase,     \* where Receiver.Run is
  err,       \* what it returned
  attached,  \* the worker attached to, 0 before
  requests,  \* frameState.requests: the sockets tracked
  ready,     \* the ready channel is closed
  forwarded, \* places in stream of the frames passed to onMessage
  recorded,  \* the failure events recorded: kinds of Failure
  ctxDone

browser == <<chrome, worker, workers, sockets>>
frameState == <<requests, ready, forwarded, handled>>
run == <<phase, err, attached>>
vars == <<browser, frameState, run, stream, recorded, ctxDone>>

Socket == WxSocket \cup OtherSocket
SocketState == {"unused", "created", "open", "closed"}
FrameKind == {"message", "heartbeat", "other"}
Event ==
  [kind : {"created", "handshake", "error", "closed"}, socket : Socket]
    \cup [kind : {"frame"}, socket : Socket, frame : FrameKind]

Running == {"waiting", "receiving"}
Phase == {"connecting", "finding", "enabling", "returned"} \cup Running
RunError ==
  {"none", "connect", "targets", "no worker", "enable", "not ready", "canceled"}

\* The events that say that something is wrong; the others are not modelled.
Failure ==
  {"chrome_receiver_stopped", "chrome_receiver_ws_closed", "chrome_receiver_ws_frame_error"}

Init ==
  /\ chrome \in {"up", "gone"}
  /\ worker = 0 /\ workers = 0
  /\ sockets = [s \in Socket |-> "unused"]
  /\ stream = <<>> /\ handled = 0
  /\ phase = "connecting" /\ err = "none" /\ attached = 0
  /\ requests = {} /\ ready = FALSE /\ forwarded = {}
  /\ recorded = {}
  /\ ctxDone = FALSE

-----------------------------------------------------------------------------
(* Chrome and the extension *)

Listening == phase \in Running /\ worker # 0 /\ worker = attached

Report(e) ==
  /\ Listening => Len(stream) < MaxEvents
  /\ stream' = IF Listening THEN Append(stream, e) ELSE stream

ReceiverUnchanged == UNCHANGED <<frameState, run, recorded, ctxDone>>

WorkerStarts ==
  /\ chrome = "up" /\ worker = 0 /\ workers < MaxWorkers
  /\ workers' = workers + 1
  /\ worker' = workers + 1
  /\ UNCHANGED <<chrome, sockets, stream>>
  /\ ReceiverUnchanged

Closed(ss) == [s \in Socket |-> IF ss[s] \in {"created", "open"} THEN "closed" ELSE ss[s]]

\* The target goes with its sockets, and reports no more.
WorkerStops ==
  /\ worker # 0
  /\ worker' = 0
  /\ sockets' = Closed(sockets)
  /\ UNCHANGED <<chrome, workers, stream>>
  /\ ReceiverUnchanged

\* Chrome is stopped; events on their way may be lost.
ChromeStops ==
  /\ chrome = "up"
  /\ chrome' = "gone"
  /\ worker' = 0
  /\ sockets' = Closed(sockets)
  /\ \E n \in handled .. Len(stream) : stream' = SubSeq(stream, 1, n)
  /\ UNCHANGED <<workers>>
  /\ ReceiverUnchanged

\* The extension opens its socket again only after the last one is closed.
CreateSocket(s) ==
  /\ worker # 0
  /\ sockets[s] = "unused"
  /\ s \in WxSocket => \A t \in WxSocket : sockets[t] \in {"unused", "closed"}
  /\ sockets' = [sockets EXCEPT ![s] = "created"]
  /\ Report([kind |-> "created", socket |-> s])
  /\ UNCHANGED <<chrome, worker, workers>>
  /\ ReceiverUnchanged

SendHandshake(s) ==
  /\ sockets[s] = "created"
  /\ sockets' = [sockets EXCEPT ![s] = "open"]
  /\ Report([kind |-> "handshake", socket |-> s])
  /\ UNCHANGED <<chrome, worker, workers>>
  /\ ReceiverUnchanged

\* A frame that CDP does not report is nothing to the receiver.
ReceiveFrame(s, frame) ==
  /\ sockets[s] = "open"
  /\ Listening
  /\ s \in OtherSocket => frame = "other"
  /\ Report([kind |-> "frame", socket |-> s, frame |-> frame])
  /\ UNCHANGED <<chrome, worker, workers, sockets>>
  /\ ReceiverUnchanged

\* A frame that the socket could not read; the socket closes in a step of its own.
FailFrame(s) ==
  /\ sockets[s] = "open"
  /\ Listening
  /\ Report([kind |-> "error", socket |-> s])
  /\ UNCHANGED <<chrome, worker, workers, sockets>>
  /\ ReceiverUnchanged

CloseSocket(s) ==
  /\ sockets[s] \in {"created", "open"}
  /\ sockets' = [sockets EXCEPT ![s] = "closed"]
  /\ Report([kind |-> "closed", socket |-> s])
  /\ UNCHANGED <<chrome, worker, workers>>
  /\ ReceiverUnchanged

\* Chrome is followed as long as the receiver runs.
ChromeStep ==
  /\ phase # "returned"
  /\ \/ WorkerStarts \/ WorkerStops \/ ChromeStops
     \/ \E s \in Socket :
          \/ CreateSocket(s) \/ SendHandshake(s) \/ FailFrame(s) \/ CloseSocket(s)
          \/ \E frame \in FrameKind : ReceiveFrame(s, frame)

Cancel ==
  /\ ~ctxDone
  /\ ctxDone' = TRUE
  /\ UNCHANGED <<browser, frameState, run, stream, recorded>>

-----------------------------------------------------------------------------
(* Receiver.Run *)

\* Run returns; its deferred calls detach from the worker.  App records the error
\* unless the run was told to end.
Return(e) ==
  /\ phase' = "returned"
  /\ err' = e
  /\ recorded' = IF ctxDone THEN recorded ELSE recorded \cup {"chrome_receiver_stopped"}
  /\ UNCHANGED <<browser, frameState, stream, attached, ctxDone>>

Connect ==
  /\ phase = "connecting"
  /\ \/ Return("connect")
     \/ /\ chrome = "up"
        /\ phase' = "finding"
        /\ UNCHANGED <<browser, frameState, stream, err, attached, recorded, ctxDone>>

FindWorker ==
  /\ phase = "finding"
  /\ worker # 0
  /\ phase' = "enabling"
  /\ attached' = worker
  /\ UNCHANGED <<browser, frameState, stream, err, recorded, ctxDone>>

\* The deadline passed without a worker, or a list of targets failed.
FindNoWorker ==
  /\ phase = "finding"
  /\ \/ worker = 0 /\ Return("no worker")
     \/ Return("targets")

EnableNetwork ==
  /\ phase = "enabling"
  /\ \/ Return("enable")
     \/ /\ worker = attached
        /\ phase' = "waiting"
        /\ UNCHANGED <<browser, frameState, stream, err, attached, recorded, ctxDone>>

\* Mutant: an event that is still to be handled counts as an observed socket.
BecomeReady_AnyEvent ==
  /\ phase = "waiting"
  /\ handled < Len(stream)
  /\ phase' = "receiving"
  /\ UNCHANGED <<browser, frameState, stream, err, attached, recorded, ctxDone>>

BecomeReady ==
  /\ phase = "waiting"
  /\ ready
  /\ phase' = "receiving"
  /\ UNCHANGED <<browser, frameState, stream, err, attached, recorded, ctxDone>>

\* Mutant: the timeout ends the run without an error.
ReadyTimeout_Nil == phase = "waiting" /\ Return("none")

\* The select may take the timer although ready was closed just before.
ReadyTimeout == phase = "waiting" /\ Return("not ready")

\* Mutant: a closed socket ends the run.
Canceled_OrClosed ==
  /\ phase # "returned"
  /\ ctxDone \/ "chrome_receiver_ws_closed" \in recorded
  /\ Return("canceled")

\* Every wait of Run looks at the context; after ready it is all Run looks at.
Canceled == phase # "returned" /\ ctxDone /\ Return("canceled")

RunStep ==
  \/ Connect \/ FindWorker \/ FindNoWorker \/ EnableNetwork
  \/ BecomeReady \/ ReadyTimeout \/ Canceled

-----------------------------------------------------------------------------
(* The listener: one event at a time, in the order CDP reports them. *)

HostMatches(s) == s \in WxSocket

\* The URL of a created socket contains the host.
ObserveCreated(s) ==
  /\ requests' = IF HostMatches(s) THEN requests \cup {s} ELSE requests
  /\ UNCHANGED <<ready, forwarded, recorded>>

\* The handshake is tracked by its Host header if the creation was not seen.
ObserveHandshake(s) ==
  IF s \in requests \/ HostMatches(s)
  THEN /\ requests' = requests \cup {s}
       /\ ready' = TRUE
       /\ UNCHANGED <<forwarded, recorded>>
  ELSE UNCHANGED <<requests, ready, forwarded, recorded>>

\* Mutant: only the frames of tracked sockets are forwarded.
HandleFrame_TrackedOnly(s, frame) ==
  LET forwards == frame = "message" /\ s \in requests
  IN  /\ forwarded' = IF forwards THEN forwarded \cup {handled + 1} ELSE forwarded
      /\ ready' = (ready \/ frame = "heartbeat" \/ forwards)
      /\ UNCHANGED <<requests, recorded>>

\* A message is forwarded if its socket is tracked or none is.  onMessage runs
\* here: the next event waits until the message is stored and queued.
HandleFrame(s, frame) ==
  LET forwards == frame = "message" /\ (s \in requests \/ requests = {})
  IN  /\ forwarded' = IF forwards THEN forwarded \cup {handled + 1} ELSE forwarded
      /\ ready' = (ready \/ frame = "heartbeat" \/ forwards)
      /\ UNCHANGED <<requests, recorded>>

\* What befalls a tracked socket is recorded; a closed socket stays tracked.
ObserveFailure(s, failure) ==
  /\ recorded' = IF s \in requests THEN recorded \cup {failure} ELSE recorded
  /\ UNCHANGED <<requests, ready, forwarded>>

HandleEvent ==
  /\ phase \in Running
  /\ handled < Len(stream)
  /\ LET e == stream[handled + 1]
     IN  CASE e.kind = "created" -> ObserveCreated(e.socket)
           [] e.kind = "handshake" -> ObserveHandshake(e.socket)
           [] e.kind = "frame" -> HandleFrame(e.socket, e.frame)
           [] e.kind = "error" -> ObserveFailure(e.socket, "chrome_receiver_ws_frame_error")
           [] e.kind = "closed" -> ObserveFailure(e.socket, "chrome_receiver_ws_closed")
  /\ handled' = handled + 1
  /\ UNCHANGED <<browser, run, stream, ctxDone>>

Next == ChromeStep \/ Cancel \/ RunStep \/ HandleEvent

Spec == Init /\ [][Next]_vars

\* A done context is noticed wherever Run waits, the ready timer fires, CDP's
\* events are handled.  Nothing makes Chrome answer: the calls that connect, list
\* the targets and enable the network events have no deadline.
FairSpec ==
  /\ Spec
  /\ WF_vars(Canceled)
  /\ WF_vars(BecomeReady \/ ReadyTimeout)
  /\ WF_vars(HandleEvent)

-----------------------------------------------------------------------------
(* Properties *)

TypeOK ==
  /\ chrome \in {"up", "gone"}
  /\ worker \in 0 .. workers
  /\ workers \in 0 .. MaxWorkers
  /\ sockets \in [Socket -> SocketState]
  /\ stream \in Seq(Event)
  /\ handled \in 0 .. Len(stream)
  /\ phase \in Phase
  /\ err \in RunError
  /\ (err = "none") = (phase # "returned")  \* Run never returns nil
  /\ attached \in 0 .. workers
  /\ requests \subseteq Socket
  /\ ready \in BOOLEAN
  /\ forwarded \subseteq 1 .. handled
  /\ recorded \subseteq Failure
  /\ ctxDone \in BOOLEAN

IsWxMessage(e) == e.kind = "frame" /\ e.frame = "message" /\ e.socket \in WxSocket

\* Exactly the messages that the extension received are forwarded, whether its
\* socket was open before the receiver listened, was half open, or is one opened
\* later beside the tracked sockets of the past (receiver.go:185-239: the frame
\* of an untracked socket passes only while nothing is tracked).
EveryMessageIsForwarded ==
  forwarded = {i \in 1 .. handled : IsWxMessage(stream[i])}

\* "The bridge is ready only after it attaches to the extension service worker and
\* observes the WxPusher WebSocket" (README.md:79): the attached worker reported
\* an event of it and the listener has handled it (receiver.go:91-115, 123-137).
ReadyIsObserved ==
  phase = "receiving" =>
    \E i \in 1 .. handled : stream[i].socket \in WxSocket

\* Once told to, the receiver ends, and once started it ends only when it is told
\* to (receiver.go:48-142, which Bridge takes for granted).  That it starts or
\* gives up is not promised: Chrome may leave it waiting for an answer.
Abstract == INSTANCE Receiver WITH
  phase <- CASE phase \in {"connecting", "finding", "enabling", "waiting"} -> "starting"
             [] phase = "receiving" -> "receiving"
             [] phase = "returned" -> "ended",
  stopped <- ctxDone
ImplementsReceiver == Abstract!Spec

\* "Stop Chrome and confirm receiver failure events are recorded."
\* (docs/acceptance.md:19)
ChromeStopIsRecorded ==
  (phase = "receiving" /\ chrome = "gone") ~> (recorded # {} \/ ctxDone)
=============================================================================
