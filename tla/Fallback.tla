------------------------------- MODULE Fallback -------------------------------
(***************************************************************************)
(* The go-fallback receiver: App.runGoFallback dials WxPusher with the     *)
(* stored identity and dials again when the socket ends; WSClient.Run reads*)
(* the socket and runs the handlers; an init message brings a push token,  *)
(* which is registered with the server, saved and only then adopted.       *)
(* An import command, another process, may replace the row meanwhile: the  *)
(* receiver goes on with the identity in memory.                           *)
(* The process may be killed and started again at any time; of its state   *)
(* only row is kept.  A registration whose call is over may still be       *)
(* performed by the server, after newer ones.  Notifications go to Dispatch*)
(* and change nothing here; a version notice (message 204) is recorded and *)
(* changes nothing either; the other frames and an init message without a  *)
(* push token are left out.  The length of a backoff is abstracted to its  *)
(* end.                                                                    *)
(***************************************************************************)
EXTENDS Naturals

CONSTANTS
  NoIdentity,  \* the identity table is empty
  Blank,       \* a field of white space, which Validate takes for missing
  UuidAnswer,  \* what the server may answer in a field: see Merge
  TokenAnswer,
  MaxTokens,   \* bound: push tokens the server hands out
  MaxImports   \* bound: imports beside the running process

ASSUME FallbackAssumption ==
  /\ UuidAnswer \cup TokenAnswer \subseteq {"absent", "new", "blank"}
  /\ Blank \notin Nat
  /\ MaxTokens \in Nat
  /\ MaxImports \in Nat

VARIABLES
  loop,      \* runGoFallback: "loading", "running", "waiting", "returned"
  id,        \* the identity in memory
  client,    \* the goroutine of WSClient.Run and of the handler it calls
  next,      \* what UpdatePushToken returned to the handler
  row,       \* the identity table
  link,      \* the socket: "none", "open", "silent", "closed"
  ctxDone,
  workerErr, \* an error waits in workerErrs
  \* external, and history
  tokens,    \* push tokens handed out: 1, 2, ...
  imports,   \* imports while this program runs: 1, 2, ...
  bound,     \* the identity the server has for each import
  late,      \* the registrations given up that the server may still perform
  known,     \* the identities imported or confirmed by the server
  lost,      \* the imports whose last registration took effect, but was not adopted
  unusable   \* a version notice said that this version is no longer usable

goroutines == <<loop, client, next>>
history == <<tokens, imports, bound, late, known, lost, unusable>>
outside == <<link, history>>
vars == <<goroutines, id, row, ctxDone, workerErr, outside>>

\* A value the server hands out carries the number of the push token it came with; an
\* identity knows which import it goes back to.
Field == 0 .. MaxTokens \cup {Blank}
Identity == [from : 0 .. MaxImports, uuid : Field, token : Field, push : 0 .. MaxTokens]
Imported(n) == [from |-> n, uuid |-> 0, token |-> 0, push |-> 0]

ASSUME NoIdentityAssumption == NoIdentity \notin Identity

Validate(i) == i.uuid # Blank /\ i.token # Blank

Loop == {"loading", "running", "waiting", "returned"}
Client == {"none", "dialing", "reading", "registering", "saving", "ended"}

Init ==
  /\ loop = "loading" /\ client = "none" /\ next = NoIdentity
  /\ row \in {NoIdentity, Imported(0)}
  /\ id = NoIdentity
  /\ link = "none"
  /\ ctxDone = FALSE /\ workerErr = FALSE
  /\ tokens = 0 /\ imports = 0
  /\ bound = [n \in 0 .. MaxImports |-> Imported(n)]
  /\ late = {}
  /\ known = {Imported(0)}
  /\ lost = {}
  /\ unusable = FALSE

-----------------------------------------------------------------------------
(* runGoFallback *)

\* A store error, a missing row or an invalid identity ends the run.
LoadIdentity ==
  /\ loop = "loading"
  /\ \/ loop' = "returned" /\ UNCHANGED <<client, id>>
     \/ /\ row # NoIdentity
        /\ Validate(row)
        /\ loop' = "running" /\ client' = "dialing" /\ id' = row
  /\ UNCHANGED <<next, row, ctxDone, workerErr, outside>>

\* Mutant: a closed socket ends the run.
ClientEnds_EndsRun ==
  /\ loop = "running"
  /\ client = "ended"
  /\ loop' = "returned"
  /\ client' = "none"
  /\ UNCHANGED <<next, id, row, ctxDone, workerErr, outside>>

\* wsErr is received: the disconnect is recorded and the backoff begins.
ClientEnds ==
  /\ loop = "running"
  /\ client = "ended"
  /\ loop' = IF ctxDone THEN "returned" ELSE "waiting"
  /\ client' = "none"
  /\ UNCHANGED <<next, id, row, ctxDone, workerErr, outside>>

\* Mutant: the wait ends without a new client.
BackoffElapses_NoClient ==
  /\ loop = "waiting"
  /\ loop' = "running"
  /\ UNCHANGED <<client, next, id, row, ctxDone, workerErr, outside>>

BackoffElapses ==
  /\ loop = "waiting"
  /\ loop' = "running"
  /\ client' = "dialing"
  /\ UNCHANGED <<next, id, row, ctxDone, workerErr, outside>>

\* Both selects, while running and while waiting, look at the context ...
Canceled ==
  /\ loop \in {"running", "waiting"}
  /\ ctxDone
  /\ loop' = "returned"
  /\ UNCHANGED <<client, next, id, row, ctxDone, workerErr, outside>>

\* ... and at the workers, whose error cancels everything.
WorkerErrorEndsRun ==
  /\ loop \in {"running", "waiting"}
  /\ workerErr
  /\ workerErr' = FALSE
  /\ ctxDone' = TRUE
  /\ loop' = "returned"
  /\ UNCHANGED <<client, next, id, row, outside>>

LoopStep ==
  \/ LoadIdentity \/ ClientEnds \/ BackoffElapses \/ Canceled \/ WorkerErrorEndsRun

-----------------------------------------------------------------------------
(* WSClient.Run *)

Dial ==
  /\ client = "dialing"
  /\ \/ client' = "ended" /\ UNCHANGED link
     \/ ~ctxDone /\ client' = "reading" /\ link' = "open"
  /\ UNCHANGED <<loop, next, id, row, ctxDone, workerErr, history>>

\* Mutant: the socket is not closed when Run returns.
ReadFails_LeftOpen ==
  /\ client = "reading"
  /\ link = "closed" \/ ctxDone
  /\ client' = "ended"
  /\ UNCHANGED <<loop, next, id, row, ctxDone, workerErr, outside>>

\* ReadMessage fails: the socket was closed by the other side, or by the goroutine
\* that waits for the context.
ReadFails ==
  /\ client = "reading"
  /\ link = "closed" \/ ctxDone
  /\ client' = "ended"
  /\ link' = "none"
  /\ UNCHANGED <<loop, next, id, row, ctxDone, workerErr, history>>

\* An init message with a push token; the handler copies the identity in memory,
\* which only it writes.
ReadInit ==
  /\ client = "reading"
  /\ link = "open"
  /\ tokens < MaxTokens
  /\ tokens' = tokens + 1
  /\ client' = "registering"
  /\ UNCHANGED <<loop, next, id, row, ctxDone, workerErr, link, imports, bound, late, known,
                 lost, unusable>>

\* A version notice: the handler records it, and the socket is read on.
ReadUpdate ==
  /\ client = "reading"
  /\ link = "open"
  /\ unusable' = TRUE
  /\ UNCHANGED <<goroutines, id, row, ctxDone, workerErr, link, tokens, imports, bound, late,
                 known, lost>>

\* A field of the answer replaces the identity's unless it is empty.
Merge(old, answer) ==
  CASE answer = "absent" -> old
    [] answer = "new" -> tokens
    [] answer = "blank" -> Blank

Replaced(u, t) ==
  [id EXCEPT !.uuid = Merge(id.uuid, u), !.token = Merge(id.token, t), !.push = tokens]

Replacements == {Replaced(u, t) : u \in UuidAnswer, t \in TokenAnswer}

\* The server has the identity i, whether or not the client learns of it.
Bind(i) == bound' = [bound EXCEPT ![i.from] = i]

\* UpdatePushToken: the server registers the push token and says so.
Register ==
  /\ client = "registering"
  /\ \E i \in Replacements :
       /\ Bind(i)
       /\ next' = i
       /\ known' = known \cup {i}
  /\ client' = "saving"
  /\ lost' = lost \ {id.from}
  /\ UNCHANGED <<loop, id, row, ctxDone, workerErr, link, tokens, imports, late, unusable>>

\* A call that is given up leaves its request with the server, or does not.
MayActLater == late' \in {late} \cup {late \cup {i} : i \in Replacements}

\* Mutant: a failed call is saved like a successful one.
RegisterFails_Saved ==
  /\ client = "registering"
  /\ client' = "saving"
  /\ next' = [id EXCEPT !.push = tokens]
  /\ MayActLater
  /\ UNCHANGED <<loop, id, row, ctxDone, workerErr, link, tokens, imports, bound, known, lost,
                 unusable>>

\* The server refuses, cannot be reached or answers nonsense, the 15 s are over or
\* the context is done; the server may perform the registration all the same.
RegisterFails ==
  /\ client = "registering"
  /\ client' = "reading"
  /\ MayActLater
  /\ UNCHANGED <<loop, next, id, row, ctxDone, workerErr, link, tokens, imports, bound, known,
                 lost, unusable>>

\* Mutant: the identity is adopted whether or not it was saved.
SaveFails_Adopted ==
  /\ client = "saving"
  /\ client' = "reading"
  /\ row' \in {row, next}
  /\ id' = next
  /\ UNCHANGED <<loop, next, ctxDone, workerErr, outside>>

\* SaveIdentity returns an error, its statement done or not.
SaveFails ==
  /\ client = "saving"
  /\ client' = "reading"
  /\ row' \in {row, next}
  /\ lost' = lost \cup {next.from}
  /\ UNCHANGED <<loop, next, id, ctxDone, workerErr, link, tokens, imports, bound, late, known,
                 unusable>>

\* SaveIdentity succeeds and the handler adopts what it saved.
SaveIdentity ==
  /\ client = "saving"
  /\ client' = "reading"
  /\ row' = next
  /\ id' = next
  /\ UNCHANGED <<loop, next, ctxDone, workerErr, outside>>

ClientStep ==
  \/ Dial \/ ReadFails \/ ReadInit \/ ReadUpdate
  \/ Register \/ RegisterFails \/ SaveFails \/ SaveIdentity

-----------------------------------------------------------------------------
(* The surroundings *)

LinkCloses ==
  /\ link \in {"open", "silent"}
  /\ link' = "closed"
  /\ UNCHANGED <<goroutines, id, row, ctxDone, workerErr, history>>

\* The server stops answering; heartbeats are still taken by its end of the socket.
LinkGoesSilent ==
  /\ link = "open"
  /\ link' = "silent"
  /\ UNCHANGED <<goroutines, id, row, ctxDone, workerErr, history>>

Stop ==
  /\ ~ctxDone
  /\ \/ ctxDone' = TRUE /\ UNCHANGED workerErr
     \/ workerErr' = TRUE /\ UNCHANGED ctxDone
  /\ UNCHANGED <<goroutines, id, row, outside>>

\* The server performs a registration that was given up, perhaps after a newer one.
ServerActsLate ==
  \E i \in late :
    /\ late' = late \ {i}
    /\ Bind(i)
    /\ lost' = lost \cup {i.from}
    /\ UNCHANGED <<goroutines, id, row, ctxDone, workerErr, link, tokens, imports, known,
                   unusable>>

\* The process ends, wherever its goroutines are, and is started again, perhaps with
\* another version.  A push token that was registered and not yet saved is lost, one
\* that is being registered may be.
Restart ==
  /\ loop' = "loading" /\ client' = "none" /\ next' = NoIdentity /\ id' = NoIdentity
  /\ link' = "none"
  /\ ctxDone' = FALSE /\ workerErr' = FALSE
  /\ lost' = IF client = "saving" THEN lost \cup {next.from} ELSE lost
  /\ IF client = "registering" THEN MayActLater ELSE UNCHANGED late
  /\ unusable' = FALSE
  /\ UNCHANGED <<row, tokens, imports, bound, known>>

\* import-json or import-chrome saves another identity, whatever the receiver does.
Import ==
  /\ imports < MaxImports
  /\ imports' = imports + 1
  /\ row' = Imported(imports + 1)
  /\ known' = known \cup {row'}
  /\ UNCHANGED <<goroutines, id, ctxDone, workerErr, link, tokens, bound, late, lost, unusable>>

Next ==
  \/ LoopStep \/ ClientStep
  \/ LinkCloses \/ LinkGoesSilent \/ ServerActsLate
  \/ Stop \/ Restart \/ Import

Spec == Init /\ [][Next]_vars

\* Loading returns, timers fire, and both selects take the context or a worker's
\* error in the end (the choice among ready cases is random); dialling, a read of
\* a closed socket, the call (15 s) and the statement each return.  Nothing makes
\* the server send or a socket close.
FairSpec ==
  /\ Spec
  /\ WF_vars(LoadIdentity)
  /\ WF_vars(ClientEnds \/ BackoffElapses)
  /\ WF_vars(Canceled \/ WorkerErrorEndsRun)
  /\ WF_vars(Dial \/ ReadFails)
  /\ WF_vars(Register \/ RegisterFails \/ SaveFails \/ SaveIdentity)

-----------------------------------------------------------------------------
(* Properties *)

TypeOK ==
  /\ loop \in Loop
  /\ client \in Client
  /\ id \in Identity \cup {NoIdentity}
  /\ next \in Identity \cup {NoIdentity}
  /\ row \in Identity \cup {NoIdentity}
  /\ link \in {"none", "open", "silent", "closed"}
  /\ ctxDone \in BOOLEAN /\ workerErr \in BOOLEAN
  /\ tokens \in 0 .. MaxTokens
  /\ imports \in 0 .. MaxImports
  /\ bound \in [0 .. MaxImports -> Identity]
  /\ late \subseteq Identity
  /\ known \subseteq Identity
  /\ lost \subseteq 0 .. imports
  /\ unusable \in BOOLEAN
  \* a client exists only beside a loop that waits for it, or was left by one
  /\ client # "none" => loop \in {"running", "returned"} /\ id # NoIdentity
  /\ link # "none" => client \in {"reading", "registering", "saving"}

\* Between a handler's steps, memory and table each agree with what the server has for
\* the import they go back to, unless the server's last registration of it is one the
\* process gave up or died over: so they agree with each other, unless there was an
\* import in between, and a later registration repairs what an earlier one broke.  An
\* import beside the running process is not mixed with the identity in memory: it is in
\* the table whole, or overwritten whole
\* (app.go:171-218, 281-309, client.go:40-98, main.go:147-154).
IdentitiesAgree ==
  client # "saving" =>
    \A i \in {id, row} \ {NoIdentity} : i.from \notin lost => i = bound[i.from]

\* "Failed register-device calls [...] keep the last known [...] identity"
\* (design.md:275), and so do failed saves: memory and table only ever hold an
\* identity that was imported or that the server confirmed, valid or not.  The code
\* registers, then saves, then adopts (app.go:291-308); design.md:105 saves first, and
\* design.md:117 keeps an identity until the next is valid: neither is what the code does.
OnlyKnownIdentities == {id, row} \subseteq known \cup {NoIdentity}

\* A client that ended is followed by another one unless the run ends (app.go:177-217;
\* "WebSocket close [...] triggers reconnect", design.md:265).  After a version notice
\* nothing is claimed: "stop reconnecting" (design.md:281), which the code does not.
Redials == client = "ended" ~> (client = "dialing" \/ loop = "returned" \/ unusable)

\* The receiver starts or gives up, and then ends only when it is told to or a
\* worker failed (app.go:171-218, which Bridge takes for granted).
Abstract == INSTANCE Receiver WITH
  phase <- CASE loop = "loading" -> "starting"
             [] loop \in {"running", "waiting"} -> "receiving"
             [] loop = "returned" -> "ended",
  stopped <- ctxDone \/ workerErr
ImplementsReceiver == Abstract!PromptSpec

\* "If the server heartbeat times out, mark the connection unhealthy and
\* reconnect." (design.md:112)
SilenceIsNoticed == link = "silent" ~> (link # "silent" \/ loop = "returned")
=============================================================================
