----------------------------- MODULE ChromeProofs -----------------------------
(***************************************************************************)
(* Every message that reaches the listener is forwarded, only the          *)
(* extension's socket makes the receiver ready, and its steps are those of *)
(* Receiver, for any sockets, workers and number of events.                *)
(*                                                                         *)
(* The frame of an untracked WxPusher socket must find nothing tracked.  A *)
(* socket stays untracked only if it was opened before the receiver        *)
(* listened; while it is open no other one is, so the creations and        *)
(* handshakes that make sockets tracked come after its last frame.         *)
(***************************************************************************)
EXTENDS ChromeReceiver, TLAPS

\* The events after which a socket is tracked, and the sockets tracked after n.
Tracks(e) == e.kind \in {"created", "handshake"} /\ e.socket \in WxSocket
TrackedIn(n) ==
  {s \in WxSocket : \E k \in 1 .. n : Tracks(stream[k]) /\ stream[k].socket = s}

\* A socket's frame passes after n events.
Passes(s, n) == TrackedIn(n) = {} \/ s \in TrackedIn(n)

RequestsOK == requests = TrackedIn(handled)

FramesPass ==
  \A j \in 1 .. Len(stream) :
    stream[j].kind = "frame" /\ stream[j].socket \in WxSocket =>
      Passes(stream[j].socket, j - 1)

OpenSocketPasses ==
  Listening =>
    \A s \in WxSocket : sockets[s] = "open" => Passes(s, Len(stream))

Live(s) == sockets[s] \in {"created", "open"}

OneSocket == \A s, t \in WxSocket : Live(s) /\ Live(t) => s = t

OthersSpeakOther ==
  \A j \in 1 .. Len(stream) :
    stream[j].kind = "frame" /\ stream[j].socket \notin WxSocket => stream[j].frame = "other"

NothingBefore == phase \in {"connecting", "finding", "enabling"} => stream = <<>>

ReceiverInv ==
  /\ TypeOK
  /\ RequestsOK /\ FramesPass /\ OpenSocketPasses /\ OneSocket /\ OthersSpeakOther
  /\ NothingBefore
  /\ EveryMessageIsForwarded

-----------------------------------------------------------------------------
(* The stream *)

\* What two streams agree on up to n, they agree on in the sockets tracked.
LEMMA SamePrefix ==
  ASSUME NEW n \in Nat, \A k \in 1 .. n : stream'[k] = stream[k]
  PROVE  TrackedIn(n)' = TrackedIn(n)
BY DEF TrackedIn, Tracks

LEMMA ReportAppends ==
  ASSUME NEW e \in Event, stream \in Seq(Event), Report(e)
  PROVE  /\ stream' \in Seq(Event)
         /\ Len(stream) \in Nat /\ Len(stream') \in Nat
         /\ Len(stream) <= Len(stream')
         /\ \A k \in 1 .. Len(stream) : stream'[k] = stream[k]
         /\ ~Listening => stream' = stream
         /\ Listening => /\ Len(stream') = Len(stream) + 1
                         /\ stream'[Len(stream) + 1] = e
BY DEF Report

\* The sockets tracked after the whole stream.
LEMMA ReportTracks ==
  ASSUME NEW e \in Event, stream \in Seq(Event), Report(e), Listening
  PROVE  TrackedIn(Len(stream))' =
           IF Tracks(e) THEN TrackedIn(Len(stream)) \cup {e.socket} ELSE TrackedIn(Len(stream))
<1>1. /\ Len(stream) \in Nat /\ Len(stream') = Len(stream) + 1
      /\ stream'[Len(stream) + 1] = e
      /\ \A k \in 1 .. Len(stream) : stream'[k] = stream[k]
  BY ReportAppends
<1>2. TrackedIn(Len(stream))' =
        {s \in WxSocket :
           \/ \E k \in 1 .. Len(stream) : Tracks(stream[k]) /\ stream[k].socket = s
           \/ Tracks(e) /\ e.socket = s}
  BY <1>1 DEF TrackedIn, Tracks
<1>3. Tracks(e) => e.socket \in WxSocket
  BY DEF Tracks
<1>4. QED
  BY <1>2, <1>3 DEF TrackedIn

\* What the properties of the listener say about a stream with another event.
LEMMA ReportKeeps ==
  ASSUME ReceiverInv, NEW e \in Event, Report(e),
         UNCHANGED <<frameState, run>>,
         e.kind = "frame" /\ e.socket \in WxSocket => sockets[e.socket] = "open",
         e.kind = "frame" /\ e.socket \notin WxSocket => e.frame = "other"
  PROVE  /\ stream' \in Seq(Event) /\ handled' \in 0 .. Len(stream')
         /\ RequestsOK' /\ FramesPass' /\ OthersSpeakOther' /\ NothingBefore'
         /\ EveryMessageIsForwarded'
<1> USE DEF ReceiverInv
<1>1. stream \in Seq(Event) /\ handled \in 0 .. Len(stream)
  BY DEF TypeOK
<1>2. /\ stream' \in Seq(Event)
      /\ Len(stream) \in Nat /\ Len(stream') \in Nat
      /\ Len(stream) <= Len(stream')
      /\ \A k \in 1 .. Len(stream) : stream'[k] = stream[k]
      /\ ~Listening => stream' = stream
      /\ Listening => /\ Len(stream') = Len(stream) + 1
                      /\ stream'[Len(stream) + 1] = e
  BY <1>1, ReportAppends
<1>3. \A n \in 0 .. Len(stream) : TrackedIn(n)' = TrackedIn(n)
  <2>1. ASSUME NEW n \in 0 .. Len(stream)
        PROVE  TrackedIn(n)' = TrackedIn(n)
    <3>1. n \in Nat /\ \A k \in 1 .. n : stream'[k] = stream[k]
      BY <1>2
    <3>2. QED
      BY <3>1, SamePrefix
  <2>2. QED
    BY <2>1
<1>4. handled' = handled /\ requests' = requests /\ forwarded' = forwarded /\ phase' = phase
  BY DEF frameState, run
<1>5. RequestsOK'
  <2>1. TrackedIn(handled)' = TrackedIn(handled)
    BY <1>1, <1>3, <1>4 DEF TrackedIn
  <2>2. QED
    BY <1>4, <2>1 DEF RequestsOK
<1>6. FramesPass'
  <2>1. SUFFICES ASSUME NEW j \in 1 .. Len(stream'),
                        stream'[j].kind = "frame", stream'[j].socket \in WxSocket
                 PROVE  Passes(stream[j].socket, j - 1)'
    BY DEF FramesPass
  <2>2. TrackedIn(j - 1)' = TrackedIn(j - 1)
    BY <1>2, <1>3, <2>1
  <2>3. CASE j <= Len(stream)
    BY <1>2, <2>1, <2>2, <2>3 DEF FramesPass, Passes
  <2>4. CASE j > Len(stream)
    <3>1. Listening /\ j = Len(stream) + 1 /\ stream'[j] = e
      BY <1>2, <2>1, <2>4
    <3>2. Passes(e.socket, Len(stream))
      BY <2>1, <3>1 DEF OpenSocketPasses
    <3>3. QED
      BY <1>2, <2>2, <3>1, <3>2 DEF Passes
  <2>5. QED
    BY <1>2, <2>1, <2>3, <2>4
<1>7. OthersSpeakOther'
  BY <1>2 DEF OthersSpeakOther
<1>8. NothingBefore'
  BY <1>2, <1>4 DEF NothingBefore, Listening, Running
<1>9. EveryMessageIsForwarded'
  BY <1>1, <1>2, <1>4 DEF EveryMessageIsForwarded, IsWxMessage
<1>10. QED
  BY <1>1, <1>2, <1>4, <1>5, <1>6, <1>7, <1>8, <1>9

-----------------------------------------------------------------------------
(* Chrome's steps *)

\* No step of Chrome touches the receiver.
LEMMA ReceiverTypes ==
  ASSUME TypeOK, ReceiverUnchanged,
         chrome' \in {"up", "gone"},
         workers' \in 0 .. MaxWorkers, workers <= workers', worker' \in 0 .. workers',
         sockets' \in [Socket -> SocketState],
         stream' \in Seq(Event), handled \in 0 .. Len(stream')
  PROVE  TypeOK'
<1>1. attached' \in 0 .. workers'
  BY ChromeReceiverAssumption DEF TypeOK, ReceiverUnchanged, run
<1>2. QED
  BY <1>1 DEF TypeOK, ReceiverUnchanged, run, frameState

LEMMA WorkerStartsKeeps ==
  ASSUME ReceiverInv, WorkerStarts
  PROVE  ReceiverInv'
<1> USE DEF ReceiverInv
<1>1. TypeOK'
  <2>1. /\ workers' \in 0 .. MaxWorkers /\ workers <= workers' /\ worker' \in 0 .. workers'
        /\ chrome' \in {"up", "gone"} /\ sockets' \in [Socket -> SocketState]
        /\ stream' \in Seq(Event) /\ handled \in 0 .. Len(stream')
    BY ChromeReceiverAssumption DEF WorkerStarts, TypeOK
  <2>2. QED
    BY <2>1, ReceiverTypes DEF WorkerStarts
<1>2. ~Listening'
  BY ChromeReceiverAssumption DEF WorkerStarts, TypeOK, ReceiverUnchanged, run, Listening
<1>3. UNCHANGED <<stream, sockets, handled, requests, forwarded, phase>>
  BY DEF WorkerStarts, ReceiverUnchanged, frameState, run
<1>4. QED
  BY <1>1, <1>2, <1>3
     DEF RequestsOK, FramesPass, OpenSocketPasses, OneSocket, OthersSpeakOther, NothingBefore,
         EveryMessageIsForwarded, TrackedIn, Passes, Live

LEMMA WorkerStopsKeeps ==
  ASSUME ReceiverInv, WorkerStops
  PROVE  ReceiverInv'
<1> USE DEF ReceiverInv
<1>1. sockets' \in [Socket -> SocketState] /\ \A s \in Socket : ~Live(s)'
  BY DEF WorkerStops, TypeOK, Closed, SocketState, Live
<1>2. TypeOK'
  <2>1. /\ workers' \in 0 .. MaxWorkers /\ workers <= workers' /\ worker' \in 0 .. workers'
        /\ chrome' \in {"up", "gone"}
        /\ stream' \in Seq(Event) /\ handled \in 0 .. Len(stream')
    BY ChromeReceiverAssumption DEF WorkerStops, TypeOK
  <2>2. QED
    BY <1>1, <2>1, ReceiverTypes DEF WorkerStops
<1>3. ~Listening'
  BY DEF WorkerStops, Listening
<1>4. UNCHANGED <<stream, handled, requests, forwarded, phase>>
  BY DEF WorkerStops, ReceiverUnchanged, frameState, run
<1>5. QED
  BY <1>1, <1>2, <1>3, <1>4
     DEF RequestsOK, FramesPass, OpenSocketPasses, OneSocket, OthersSpeakOther, NothingBefore,
         EveryMessageIsForwarded, TrackedIn, Passes, Socket

\* What is lost with Chrome is a part of the stream that was not handled.
LEMMA ChromeStopsKeeps ==
  ASSUME ReceiverInv, ChromeStops
  PROVE  ReceiverInv'
<1> USE DEF ReceiverInv
<1>1. sockets' \in [Socket -> SocketState] /\ \A s \in Socket : ~Live(s)'
  BY DEF ChromeStops, TypeOK, Closed, SocketState, Live
<1>2. PICK n \in handled .. Len(stream) : stream' = SubSeq(stream, 1, n)
  BY DEF ChromeStops
<1>3. /\ stream \in Seq(Event) /\ handled \in 0 .. Len(stream)
      /\ stream' \in Seq(Event) /\ Len(stream') = n /\ n \in 0 .. Len(stream)
      /\ \A k \in 1 .. n : stream'[k] = stream[k]
  BY <1>2 DEF TypeOK
<1>4. UNCHANGED <<handled, requests, forwarded, phase>>
  BY DEF ChromeStops, ReceiverUnchanged, frameState, run
<1>5. \A m \in 0 .. n : TrackedIn(m)' = TrackedIn(m)
  <2>1. ASSUME NEW m \in 0 .. n
        PROVE  TrackedIn(m)' = TrackedIn(m)
    <3>1. m \in Nat /\ \A k \in 1 .. m : stream'[k] = stream[k]
      BY <1>3
    <3>2. QED
      BY <3>1, SamePrefix
  <2>2. QED
    BY <2>1
<1>6. TypeOK'
  <2>1. /\ workers' \in 0 .. MaxWorkers /\ workers <= workers' /\ worker' \in 0 .. workers'
        /\ chrome' \in {"up", "gone"} /\ handled \in 0 .. Len(stream')
    BY <1>2, <1>3, ChromeReceiverAssumption DEF ChromeStops, TypeOK
  <2>2. QED
    BY <1>1, <1>3, <2>1, ReceiverTypes DEF ChromeStops
<1>7. RequestsOK'
  <2>1. TrackedIn(handled)' = TrackedIn(handled)
    BY <1>2, <1>3, <1>4, <1>5 DEF TrackedIn
  <2>2. QED
    BY <1>4, <2>1 DEF RequestsOK
<1>8. FramesPass'
  <2>1. SUFFICES ASSUME NEW j \in 1 .. Len(stream'),
                        stream'[j].kind = "frame", stream'[j].socket \in WxSocket
                 PROVE  Passes(stream[j].socket, j - 1)'
    BY DEF FramesPass
  <2>2. TrackedIn(j - 1)' = TrackedIn(j - 1) /\ j \in 1 .. Len(stream) /\ stream'[j] = stream[j]
    BY <1>3, <1>5, <2>1
  <2>3. QED
    BY <2>1, <2>2 DEF FramesPass, Passes
<1>9. OthersSpeakOther' /\ NothingBefore' /\ EveryMessageIsForwarded'
  BY <1>2, <1>3, <1>4 DEF OthersSpeakOther, NothingBefore, EveryMessageIsForwarded, IsWxMessage
<1>10. OpenSocketPasses' /\ OneSocket'
  BY <1>1 DEF ChromeStops, OpenSocketPasses, Listening, OneSocket, Socket
<1>11. QED
  BY <1>6, <1>7, <1>8, <1>9, <1>10

\* What the steps of one socket have in common.
LEMMA SocketStepKeeps ==
  ASSUME ReceiverInv, NEW e \in Event, Report(e), ReceiverUnchanged,
         UNCHANGED <<chrome, worker, workers>>,
         sockets' \in [Socket -> SocketState],
         e.kind = "frame" /\ e.socket \in WxSocket => sockets[e.socket] = "open",
         e.kind = "frame" /\ e.socket \notin WxSocket => e.frame = "other",
         OneSocket', OpenSocketPasses'
  PROVE  ReceiverInv'
<1>1. UNCHANGED <<frameState, run>>
  BY DEF ReceiverUnchanged
<1>2. /\ stream' \in Seq(Event) /\ handled' \in 0 .. Len(stream')
      /\ RequestsOK' /\ FramesPass' /\ OthersSpeakOther' /\ NothingBefore'
      /\ EveryMessageIsForwarded'
  BY <1>1, ReportKeeps
<1>3. /\ handled' = handled /\ workers' \in 0 .. MaxWorkers /\ workers <= workers'
      /\ worker' \in 0 .. workers' /\ chrome' \in {"up", "gone"}
  BY <1>1, ChromeReceiverAssumption DEF ReceiverInv, TypeOK, frameState
<1>4. TypeOK'
  BY <1>2, <1>3, ReceiverTypes DEF ReceiverInv
<1>5. QED
  BY <1>2, <1>4 DEF ReceiverInv

LEMMA SocketsKeep ==
  ASSUME ReceiverInv, NEW s \in Socket,
         \/ CreateSocket(s) \/ SendHandshake(s) \/ FailFrame(s) \/ CloseSocket(s)
         \/ \E frame \in FrameKind : ReceiveFrame(s, frame)
  PROVE  ReceiverInv'
<1> USE DEF ReceiverInv
<1>1. stream \in Seq(Event) /\ sockets \in [Socket -> SocketState]
  BY DEF TypeOK
<1>2. CASE CreateSocket(s)
  <2> DEFINE e == [kind |-> "created", socket |-> s]
  <2>1. e \in Event /\ Report(e) /\ e.kind # "frame"
    BY <1>2 DEF CreateSocket, Event
  <2>2. sockets' \in [Socket -> SocketState]
    BY <1>1, <1>2 DEF CreateSocket, SocketState
  <2>3. OneSocket'
    BY <1>1, <1>2 DEF CreateSocket, OneSocket, Live, Socket
  <2>4. UNCHANGED <<chrome, worker, workers>> /\ ReceiverUnchanged
    BY <1>2 DEF CreateSocket
  <2> HIDE DEF e
  <2>5. OpenSocketPasses'
    <3>1. SUFFICES ASSUME Listening, NEW t \in WxSocket, sockets[t] = "open"
                   PROVE  Passes(t, Len(stream))'
      BY <1>1, <1>2, <2>4 DEF CreateSocket, OpenSocketPasses, Listening, ReceiverUnchanged, run,
                         Socket
    <3>2. s \notin WxSocket
      BY <1>2, <3>1 DEF CreateSocket
    <3>3. Passes(t, Len(stream))
      BY <3>1 DEF OpenSocketPasses
    <3>4. QED
      <4>1. ~Tracks(e)
        BY <3>2 DEF Tracks, e
      <4>2. QED
        BY <1>1, <2>1, <3>1, <3>3, <4>1, ReportTracks DEF Passes
  <2>6. QED
    BY <2>1, <2>2, <2>3, <2>4, <2>5, SocketStepKeeps
<1>3. CASE SendHandshake(s)
  <2> DEFINE e == [kind |-> "handshake", socket |-> s]
  <2>1. e \in Event /\ Report(e) /\ e.kind # "frame"
    BY <1>3 DEF SendHandshake, Event
  <2>2. sockets' \in [Socket -> SocketState]
    BY <1>1, <1>3 DEF SendHandshake, SocketState
  <2>3. OneSocket'
    BY <1>1, <1>3 DEF SendHandshake, OneSocket, Live, Socket
  <2>4. UNCHANGED <<chrome, worker, workers>> /\ ReceiverUnchanged
    BY <1>3 DEF SendHandshake
  <2> HIDE DEF e
  <2>5. OpenSocketPasses'
    <3>1. SUFFICES ASSUME Listening, NEW t \in WxSocket, sockets'[t] = "open"
                   PROVE  Passes(t, Len(stream))'
      BY <2>4 DEF OpenSocketPasses, Listening, ReceiverUnchanged, run
    <3>2. CASE s = t
      <4>1. Tracks(e) /\ e.socket = t
        BY <3>1, <3>2 DEF Tracks, e
      <4>2. QED
        BY <1>1, <2>1, <3>1, <4>1, ReportTracks DEF Passes
    <3>3. CASE s # t
      <4>1. sockets[t] = "open" /\ s \notin WxSocket
        BY <1>1, <1>3, <3>1, <3>3 DEF SendHandshake, OneSocket, Live, Socket
      <4>2. Passes(t, Len(stream))
        BY <3>1, <4>1 DEF OpenSocketPasses
      <4>3. QED
        <5>1. ~Tracks(e)
          BY <4>1 DEF Tracks, e
        <5>2. QED
          BY <1>1, <2>1, <3>1, <4>2, <5>1, ReportTracks DEF Passes
    <3>4. QED
      BY <3>2, <3>3
  <2>6. QED
    BY <2>1, <2>2, <2>3, <2>4, <2>5, SocketStepKeeps
<1>4. CASE CloseSocket(s)
  <2> DEFINE e == [kind |-> "closed", socket |-> s]
  <2>1. e \in Event /\ Report(e) /\ e.kind # "frame"
    BY <1>4 DEF CloseSocket, Event
  <2>2. sockets' \in [Socket -> SocketState]
    BY <1>1, <1>4 DEF CloseSocket, SocketState
  <2>3. OneSocket'
    BY <1>1, <1>4 DEF CloseSocket, OneSocket, Live, Socket
  <2>4. UNCHANGED <<chrome, worker, workers>> /\ ReceiverUnchanged
    BY <1>4 DEF CloseSocket
  <2> HIDE DEF e
  <2>5. OpenSocketPasses'
    <3>1. SUFFICES ASSUME Listening, NEW t \in WxSocket, sockets[t] = "open"
                   PROVE  Passes(t, Len(stream))'
      BY <1>1, <1>4, <2>4 DEF CloseSocket, OpenSocketPasses, Listening, ReceiverUnchanged, run,
                              Socket
    <3>2. Passes(t, Len(stream))
      BY <3>1 DEF OpenSocketPasses
    <3>3. QED
      <4>1. ~Tracks(e)
        BY DEF Tracks, e
      <4>2. QED
        BY <1>1, <2>1, <3>1, <3>2, <4>1, ReportTracks DEF Passes
  <2>6. QED
    BY <2>1, <2>2, <2>3, <2>4, <2>5, SocketStepKeeps
<1>5. ASSUME NEW frame \in FrameKind, ReceiveFrame(s, frame)
      PROVE  ReceiverInv'
  <2> DEFINE e == [kind |-> "frame", socket |-> s, frame |-> frame]
  <2>1. e \in Event /\ Report(e)
    BY <1>5 DEF ReceiveFrame, Event
  <2>2. sockets' \in [Socket -> SocketState] /\ OneSocket'
    BY <1>1, <1>5 DEF ReceiveFrame, OneSocket, Live
  <2>3. /\ e.socket \in WxSocket => sockets[e.socket] = "open"
        /\ e.socket \notin WxSocket => e.frame = "other"
    BY <1>5 DEF ReceiveFrame, Socket
  <2>4. UNCHANGED <<chrome, worker, workers, sockets>> /\ ReceiverUnchanged
    BY <1>5 DEF ReceiveFrame
  <2> HIDE DEF e
  <2>5. OpenSocketPasses'
    <3>1. SUFFICES ASSUME Listening, NEW t \in WxSocket, sockets[t] = "open"
                   PROVE  Passes(t, Len(stream))'
      BY <2>4 DEF OpenSocketPasses, Listening, ReceiverUnchanged, run
    <3>2. Passes(t, Len(stream))
      BY <3>1 DEF OpenSocketPasses
    <3>3. QED
      <4>1. ~Tracks(e)
        BY DEF Tracks, e
      <4>2. QED
        BY <1>1, <2>1, <3>1, <3>2, <4>1, ReportTracks DEF Passes
  <2>6. QED
    BY <2>1, <2>2, <2>3, <2>4, <2>5, SocketStepKeeps
<1>6. CASE FailFrame(s)
  <2> DEFINE e == [kind |-> "error", socket |-> s]
  <2>1. e \in Event /\ Report(e) /\ e.kind # "frame"
    BY <1>6 DEF FailFrame, Event
  <2>2. sockets' \in [Socket -> SocketState] /\ OneSocket'
    BY <1>1, <1>6 DEF FailFrame, OneSocket, Live
  <2>3. UNCHANGED <<chrome, worker, workers, sockets>> /\ ReceiverUnchanged
    BY <1>6 DEF FailFrame
  <2> HIDE DEF e
  <2>4. OpenSocketPasses'
    <3>1. SUFFICES ASSUME Listening, NEW t \in WxSocket, sockets[t] = "open"
                   PROVE  Passes(t, Len(stream))'
      BY <2>3 DEF OpenSocketPasses, Listening, ReceiverUnchanged, run
    <3>2. Passes(t, Len(stream))
      BY <3>1 DEF OpenSocketPasses
    <3>3. QED
      <4>1. ~Tracks(e)
        BY DEF Tracks, e
      <4>2. QED
        BY <1>1, <2>1, <3>1, <3>2, <4>1, ReportTracks DEF Passes
  <2>5. QED
    BY <2>1, <2>2, <2>3, <2>4, SocketStepKeeps
<1>7. QED
  BY <1>2, <1>3, <1>4, <1>5, <1>6

-----------------------------------------------------------------------------
(* The receiver's steps *)

\* Run only moves its own phase, and listens first with nothing reported.
LEMMA RunKeeps ==
  ASSUME ReceiverInv, RunStep
  PROVE  ReceiverInv'
<1> USE DEF ReceiverInv
<1>1. UNCHANGED <<browser, frameState, stream>>
  BY DEF RunStep, Connect, FindWorker, FindNoWorker, EnableNetwork, BecomeReady, ReadyTimeout,
         Canceled, Return
<1>2. TypeOK'
  <2>1. phase' \in Phase /\ err' \in RunError /\ (err' = "none") = (phase' # "returned")
    BY DEF RunStep, Connect, FindWorker, FindNoWorker, EnableNetwork, BecomeReady, ReadyTimeout,
           Canceled, Return, TypeOK, Phase, Running, RunError
  <2>2. attached' \in 0 .. workers
    BY ChromeReceiverAssumption
       DEF RunStep, Connect, FindWorker, FindNoWorker, EnableNetwork, BecomeReady, ReadyTimeout,
           Canceled, Return, TypeOK
  <2>3. recorded' \subseteq Failure /\ ctxDone' = ctxDone
    BY DEF RunStep, Connect, FindWorker, FindNoWorker, EnableNetwork, BecomeReady, ReadyTimeout,
           Canceled, Return, TypeOK, Failure
  <2>4. QED
    BY <1>1, <2>1, <2>2, <2>3 DEF TypeOK, browser, frameState
<1>3. NothingBefore'
  BY <1>1 DEF NothingBefore, RunStep, Connect, FindWorker, FindNoWorker, EnableNetwork,
              BecomeReady, ReadyTimeout, Canceled, Return
<1>4. RequestsOK' /\ FramesPass' /\ OneSocket' /\ OthersSpeakOther' /\ EveryMessageIsForwarded'
  BY <1>1 DEF RequestsOK, FramesPass, OneSocket, OthersSpeakOther, EveryMessageIsForwarded,
              TrackedIn, Passes, Live, browser, frameState
<1>5. OpenSocketPasses'
  <2>1. CASE EnableNetwork
    <3>1. stream = <<>>
      BY <2>1 DEF EnableNetwork, NothingBefore
    <3>2. TrackedIn(Len(stream))' = {}
      BY <1>1, <3>1 DEF TrackedIn
    <3>3. QED
      BY <3>2 DEF OpenSocketPasses, Passes
  <2>2. CASE Listening' => Listening
    BY <1>1, <2>2 DEF OpenSocketPasses, Passes, TrackedIn, browser
  <2>3. CASE ~EnableNetwork
    <3>1. Listening' => Listening
      BY <1>1, <2>3 DEF RunStep, Connect, FindWorker, FindNoWorker, BecomeReady, ReadyTimeout,
                        Canceled, Return, Listening, Running, browser
    <3>2. QED
      BY <2>2, <3>1
  <2>4. QED
    BY <2>1, <2>3
<1>6. QED
  BY <1>2, <1>3, <1>4, <1>5

\* The listener: what it forwards is what it should.
LEMMA ListenerKeeps ==
  ASSUME ReceiverInv, HandleEvent
  PROVE  ReceiverInv'
<1> USE DEF ReceiverInv
<1> DEFINE i == handled + 1
           e == stream[i]
<1>1. /\ stream \in Seq(Event) /\ handled \in Nat /\ i \in 1 .. Len(stream)
      /\ e \in Event /\ handled' = i
      /\ UNCHANGED <<browser, run, stream, ctxDone>>
  BY DEF HandleEvent, TypeOK
<1>2. e.socket \in Socket /\ e.kind \in {"created", "handshake", "frame", "error", "closed"}
  BY <1>1 DEF Event
<1>3. \/ e.kind = "created" /\ ObserveCreated(e.socket)
      \/ e.kind = "handshake" /\ ObserveHandshake(e.socket)
      \/ e.kind = "frame" /\ HandleFrame(e.socket, e.frame)
      \/ /\ e.kind \in {"error", "closed"}
         /\ \E failure \in Failure : ObserveFailure(e.socket, failure)
  BY <1>2 DEF HandleEvent, Failure
<1>4. requests = TrackedIn(handled) /\ requests \subseteq WxSocket
  BY DEF RequestsOK, TrackedIn
<1>5. requests' = IF Tracks(e) THEN requests \cup {e.socket} ELSE requests
  BY <1>3, <1>4 DEF ObserveCreated, ObserveHandshake, HandleFrame, ObserveFailure, HostMatches,
                    Tracks
<1>6. forwarded' = IF IsWxMessage(e) THEN forwarded \cup {i} ELSE forwarded
  <2>1. CASE e.kind = "frame"
    <3>1. HandleFrame(e.socket, e.frame)
      BY <1>3, <2>1
    <3>2. e.socket \in WxSocket => (e.socket \in requests \/ requests = {})
      BY <1>1, <1>4, <2>1 DEF FramesPass, Passes
    <3>3. e.socket \notin WxSocket => e.frame = "other"
      BY <1>1, <2>1 DEF OthersSpeakOther
    <3>4. QED
      BY <2>1, <3>1, <3>2, <3>3 DEF HandleFrame, IsWxMessage
  <2>2. CASE e.kind # "frame"
    BY <1>3, <2>2 DEF ObserveCreated, ObserveHandshake, ObserveFailure, IsWxMessage
  <2>3. QED
    BY <2>1, <2>2
<1>7. RequestsOK'
  <2>1. TrackedIn(i) =
          IF Tracks(e) THEN TrackedIn(handled) \cup {e.socket} ELSE TrackedIn(handled)
    BY <1>1 DEF TrackedIn, Tracks
  <2>2. TrackedIn(handled)' = TrackedIn(i)
    BY <1>1 DEF TrackedIn, Tracks
  <2>3. QED
    BY <1>4, <1>5, <2>1, <2>2 DEF RequestsOK
<1>8. EveryMessageIsForwarded'
  BY <1>1, <1>6 DEF EveryMessageIsForwarded, IsWxMessage
<1>9. TypeOK'
  <2>1. requests' \subseteq Socket
    BY <1>2, <1>4, <1>5 DEF Socket
  <2>2. ready' \in BOOLEAN
    BY <1>3 DEF ObserveCreated, ObserveHandshake, HandleFrame, ObserveFailure, TypeOK
  <2>3. recorded' \subseteq Failure
    BY <1>3 DEF ObserveCreated, ObserveHandshake, HandleFrame, ObserveFailure, TypeOK, Failure
  <2>4. forwarded' \subseteq 1 .. handled' /\ handled' \in 0 .. Len(stream')
    BY <1>1, <1>6 DEF TypeOK
  <2>5. QED
    BY <1>1, <2>1, <2>2, <2>3, <2>4 DEF TypeOK, browser, run
<1>10. FramesPass' /\ OpenSocketPasses' /\ OneSocket' /\ OthersSpeakOther' /\ NothingBefore'
  BY <1>1 DEF FramesPass, OpenSocketPasses, OneSocket, OthersSpeakOther, NothingBefore, Passes,
              TrackedIn, Listening, Live, browser, run
<1>11. QED
  BY <1>7, <1>8, <1>9, <1>10

-----------------------------------------------------------------------------
(* The invariant *)

LEMMA ReceiverInit ==
  ASSUME Init
  PROVE  ReceiverInv
<1>1. stream = <<>> /\ handled = 0 /\ stream \in Seq(Event) /\ Len(stream) = 0
  BY DEF Init
<1>2. TypeOK
  <2>1. /\ workers \in 0 .. MaxWorkers /\ worker \in 0 .. workers /\ attached \in 0 .. workers
        /\ handled \in 0 .. Len(stream)
    BY <1>1, ChromeReceiverAssumption DEF Init
  <2>2. sockets \in [Socket -> SocketState]
    BY DEF Init, SocketState
  <2>3. phase \in Phase /\ err \in RunError /\ (err = "none") = (phase # "returned")
    BY DEF Init, Phase, RunError
  <2>4. QED
    BY <1>1, <2>1, <2>2, <2>3 DEF Init, TypeOK
<1>3. QED
  BY <1>1, <1>2 DEF Init, ReceiverInv, RequestsOK, FramesPass, OpenSocketPasses, OneSocket,
                    OthersSpeakOther, NothingBefore, EveryMessageIsForwarded, TrackedIn,
                    Listening, Running, Live, Socket

LEMMA ReceiverNext ==
  ASSUME ReceiverInv, [Next]_vars
  PROVE  ReceiverInv'
<1>1. CASE ChromeStep
  BY <1>1, WorkerStartsKeeps, WorkerStopsKeeps, ChromeStopsKeeps, SocketsKeep DEF ChromeStep
<1>2. CASE RunStep
  BY <1>2, RunKeeps
<1>3. CASE HandleEvent
  BY <1>3, ListenerKeeps
<1>4. CASE Cancel \/ UNCHANGED vars
  <2>1. /\ UNCHANGED <<browser, frameState, run, stream, recorded>>
        /\ ctxDone \in BOOLEAN => ctxDone' \in BOOLEAN
    BY <1>4 DEF Cancel, vars
  <2>2. QED
    BY <2>1 DEF ReceiverInv, TypeOK, RequestsOK, FramesPass, OpenSocketPasses, OneSocket,
                OthersSpeakOther, NothingBefore, EveryMessageIsForwarded, TrackedIn, Passes,
                Listening, Live, browser, frameState, run
<1>5. QED
  BY <1>1, <1>2, <1>3, <1>4 DEF Next

-----------------------------------------------------------------------------
(* What makes the receiver ready *)

\* What has been handled stays as it is.
LEMMA HandledStays ==
  ASSUME ReceiverInv, [Next]_vars
  PROVE  /\ handled \in Nat /\ handled' \in Nat /\ handled <= handled'
         /\ \A k \in 1 .. handled : stream'[k] = stream[k]
<1>1. stream \in Seq(Event) /\ handled \in 0 .. Len(stream) /\ handled \in Nat
  BY DEF ReceiverInv, TypeOK
<1>2. CASE ChromeStops
  <2>1. PICK n \in handled .. Len(stream) : stream' = SubSeq(stream, 1, n)
    BY <1>2 DEF ChromeStops
  <2>2. handled' = handled
    BY <1>2 DEF ChromeStops, ReceiverUnchanged, frameState
  <2>3. QED
    BY <1>1, <2>1, <2>2
<1>3. ASSUME NEW e \in Event, Report(e), ReceiverUnchanged
      PROVE  handled' = handled /\ \A k \in 1 .. handled : stream'[k] = stream[k]
  BY <1>1, <1>3, ReportAppends DEF ReceiverUnchanged, frameState
<1>4. ASSUME NEW s \in Socket,
             \/ CreateSocket(s) \/ SendHandshake(s) \/ FailFrame(s) \/ CloseSocket(s)
             \/ \E frame \in FrameKind : ReceiveFrame(s, frame)
      PROVE  handled' = handled /\ \A k \in 1 .. handled : stream'[k] = stream[k]
  <2>1. ReceiverUnchanged
    BY <1>4 DEF CreateSocket, SendHandshake, FailFrame, CloseSocket, ReceiveFrame
  <2>2. \E e \in Event : Report(e)
    BY <1>4 DEF CreateSocket, SendHandshake, FailFrame, CloseSocket, ReceiveFrame, Event
  <2>3. QED
    BY <1>3, <2>1, <2>2
<1>5. CASE \/ WorkerStarts \/ WorkerStops \/ Cancel \/ RunStep \/ UNCHANGED vars
  <2>1. UNCHANGED <<handled, stream>>
    BY <1>5 DEF WorkerStarts, WorkerStops, ReceiverUnchanged, Cancel, RunStep, Connect,
                FindWorker, FindNoWorker, EnableNetwork, BecomeReady, ReadyTimeout, Canceled,
                Return, frameState, vars
  <2>2. QED
    BY <1>1, <2>1
<1>6. CASE HandleEvent
  BY <1>1, <1>6 DEF HandleEvent
<1>7. QED
  BY <1>1, <1>2, <1>4, <1>5, <1>6 DEF Next, ChromeStep

\* What makes the receiver ready is an event of the extension's socket.
Observed == \E i \in 1 .. handled : stream[i].socket \in WxSocket

ReadyInv ==
  /\ ready => Observed
  /\ phase = "receiving" => ready

LEMMA ReadyNext ==
  ASSUME ReceiverInv, ReadyInv, [Next]_vars
  PROVE  ReadyInv'
<1>1. Observed => Observed'
  BY HandledStays DEF Observed
<1>2. CASE HandleEvent
  <2> DEFINE i == handled + 1
             e == stream[i]
  <2>1. /\ i \in 1 .. Len(stream) /\ handled' = i /\ stream' = stream /\ phase' = phase
        /\ e \in Event /\ handled \in Nat
    BY <1>2 DEF HandleEvent, ReceiverInv, TypeOK, run
  <2>2. requests \subseteq WxSocket
    BY DEF ReceiverInv, RequestsOK, TrackedIn
  <2>3. \/ e.kind = "created" /\ ObserveCreated(e.socket)
        \/ e.kind = "handshake" /\ ObserveHandshake(e.socket)
        \/ e.kind = "frame" /\ HandleFrame(e.socket, e.frame)
        \/ /\ e.kind \in {"error", "closed"}
           /\ \E failure \in Failure : ObserveFailure(e.socket, failure)
    <3>1. e.kind \in {"created", "handshake", "frame", "error", "closed"}
      BY <2>1 DEF Event
    <3>2. QED
      BY <1>2, <3>1 DEF HandleEvent, Failure
  <2>4. e.kind = "frame" /\ e.socket \notin WxSocket => e.frame = "other"
    BY <2>1 DEF ReceiverInv, OthersSpeakOther
  <2>5. \/ ready' = ready
        \/ ready' = TRUE /\ e.socket \in WxSocket
    <3>1. CASE e.kind = "frame"
      BY <2>2, <2>3, <2>4, <3>1 DEF HandleFrame, ReceiverInv, TypeOK
    <3>2. CASE e.kind # "frame"
      BY <2>2, <2>3, <3>2 DEF ObserveCreated, ObserveHandshake, ObserveFailure, HostMatches
    <3>3. QED
      BY <3>1, <3>2
  <2>6. e.socket \in WxSocket => Observed'
    BY <2>1 DEF Observed
  <2>7. QED
    BY <1>1, <2>1, <2>5, <2>6 DEF ReadyInv
<1>3. CASE ~HandleEvent
  <2>1. ready' = ready
    BY <1>3 DEF Next, ChromeStep, WorkerStarts, WorkerStops, ChromeStops, CreateSocket,
                SendHandshake, FailFrame, CloseSocket, ReceiveFrame, ReceiverUnchanged, Cancel,
                RunStep,
                Connect, FindWorker, FindNoWorker, EnableNetwork, BecomeReady, ReadyTimeout,
                Canceled, Return, frameState, vars
  <2>2. phase' = "receiving" => phase = "receiving" \/ ready
    BY <1>3 DEF Next, ChromeStep, WorkerStarts, WorkerStops, ChromeStops, CreateSocket,
                SendHandshake, FailFrame, CloseSocket, ReceiveFrame, ReceiverUnchanged, Cancel,
                RunStep,
                Connect, FindWorker, FindNoWorker, EnableNetwork, BecomeReady, ReadyTimeout,
                Canceled, Return, run, vars
  <2>3. QED
    BY <1>1, <2>1, <2>2 DEF ReadyInv
<1>4. QED
  BY <1>2, <1>3

-----------------------------------------------------------------------------
(* The abstract receiver *)

\* Run's phases as Receiver names them.
LEMMA ReceiverSteps ==
  ASSUME ReceiverInv, [Next]_vars
  PROVE  [Abstract!Next]_Abstract!receiver
<1>1. CASE RunStep
  <2>1. phase \in Phase /\ ctxDone' = ctxDone
    BY <1>1 DEF ReceiverInv, TypeOK, RunStep, Connect, FindWorker, FindNoWorker, EnableNetwork,
                BecomeReady, ReadyTimeout, Canceled, Return
  <2>2. CASE Return(err') /\ (phase = "receiving" => ctxDone) /\ phase # "returned"
    BY <2>1, <2>2 DEF Return, Phase, Running, Abstract!Next, Abstract!Ends
  <2>3. CASE BecomeReady
    BY <2>1, <2>3 DEF BecomeReady, Abstract!Next, Abstract!Starts
  <2>4. CASE /\ phase \in {"connecting", "finding", "enabling"}
             /\ phase' \in {"finding", "enabling", "waiting"}
    BY <2>1, <2>4 DEF Abstract!receiver
  <2>5. QED
    BY <1>1, <2>2, <2>3, <2>4
       DEF RunStep, Connect, FindWorker, FindNoWorker, EnableNetwork, ReadyTimeout, Canceled,
           Return
<1>2. CASE Cancel
  <2>1. phase' = phase /\ ctxDone' = TRUE
    BY <1>2 DEF Cancel, run
  <2>2. QED
    BY <2>1 DEF Abstract!Next, Abstract!Stop
<1>3. CASE ChromeStep \/ HandleEvent \/ UNCHANGED vars
  <2>1. phase' = phase /\ ctxDone' = ctxDone
    BY <1>3 DEF ChromeStep, WorkerStarts, WorkerStops, ChromeStops, CreateSocket, SendHandshake,
                FailFrame, CloseSocket, ReceiveFrame, ReceiverUnchanged, HandleEvent, run, vars
  <2>2. QED
    BY <2>1 DEF Abstract!receiver
<1>4. QED
  BY <1>1, <1>2, <1>3 DEF Next

-----------------------------------------------------------------------------
(* Theorems *)

LEMMA ReceiverInvariant == Spec => [](ReceiverInv /\ ReadyInv)
<1>1. Init => ReceiverInv /\ ReadyInv
  BY ReceiverInit DEF Init, ReadyInv
<1>2. ReceiverInv /\ ReadyInv /\ [Next]_vars => (ReceiverInv /\ ReadyInv)'
  BY ReceiverNext, ReadyNext
<1>3. QED
  BY <1>1, <1>2, PTL DEF Spec

\* Types; and Run never returns without an error, so that App always has one to
\* look at (receiver.go:48-142).
THEOREM ReceiverTypeCorrect == Spec => []TypeOK
<1>1. ReceiverInv => TypeOK
  BY DEF ReceiverInv
<1>2. QED
  BY <1>1, ReceiverInvariant, PTL

\* The listener forwards exactly the messages of the extension's WxPusher socket,
\* whenever that socket was opened (receiver.go:185-239).
THEOREM MessagesAreForwarded == Spec => []EveryMessageIsForwarded
<1>1. ReceiverInv => EveryMessageIsForwarded
  BY DEF ReceiverInv
<1>2. QED
  BY <1>1, ReceiverInvariant, PTL

\* The bridge is ready only after an event of the extension's WxPusher socket, never
\* on the strength of another socket's (receiver.go:91-115, 123-137).
THEOREM ReadyHasObserved == Spec => []ReadyIsObserved
<1>1. ReadyInv => ReadyIsObserved
  BY DEF ReadyInv, Observed, ReadyIsObserved
<1>2. QED
  BY <1>1, ReceiverInvariant, PTL

\* The safety part of ImplementsReceiver: the receiver's steps are those that Bridge
\* takes for granted, and having started it ends only when told to (receiver.go:48-142).
THEOREM StepsOfReceiver == Spec => Abstract!Init /\ [][Abstract!Next]_Abstract!receiver
<1>1. Init => Abstract!Init
  BY DEF Init, Abstract!Init
<1>2. ReceiverInv /\ [Next]_vars => [Abstract!Next]_Abstract!receiver
  BY ReceiverSteps
<1>3. QED
  BY <1>1, <1>2, ReceiverInvariant, PTL DEF Spec
=============================================================================
