# A verification development for wxpusher-wecom-bridge

The bridge receives WxPusher notifications, stores them in SQLite, forwards each
to a WeCom robot, opens the links a notification contains in a headless browser
and forwards what it finds as a second message. This directory holds TLA+ modules
translated from the Go source, TLC configurations that check them on small
instances, and theorems about them that TLAPS checks for every instance.

Paths below are relative to the repository; `design.md` is
`docs/superpowers/specs/2026-05-11-wxpusher-wecom-bridge-design.md`.

## 1. The system

| component | state | operations | talks to |
|---|---|---|---|
| store (`internal/store`) | tables `messages`, `delivery_attempts`, `enrichment_tasks`, `enrichments`, `identity`, `app_events`; one connection | one statement or transaction per method | everybody, by calls |
| dispatch (`internal/dispatch`) | none in memory but the task a worker holds | `HandleMessage`, `RunDeliveryWorker`, `RunEnrichmentWorker` | store; robot; browser |
| app (`internal/app`) | run context, `workerErrs` channel, the identity in memory | `Run`, `runChromeReceiver`, `runGoFallback`, message handlers | receiver by callback, workers by channel, store |
| command line (`cmd/wxpusher-bridge`) | the process and its exit status | `run`, `import-json`, `import-chrome` | signals, supervisor |
| chrome receiver (`internal/chromereceiver`) | set of tracked sockets, ready channel | `Run`, event listener | Chrome over CDP; app by callbacks |
| wxpusher client (`internal/wxpusher`) | one socket, a heartbeat ticker | `WSClient.Run`, `UpdatePushToken` | WxPusher; app by callback |
| identity (`internal/identity`) | one record | `Validate`, `WithDefaults` | app, store, importer |
| importer (`internal/importer`) | none | `ImportChrome`, `ImportJSON` | files |
| browser (`internal/browser`) | none between calls | `ExtractURLs`, `Fetch` | Chrome, network |
| wecom (`internal/wecom`) | none | payload builders, `Send` | the robot |
| config (`internal/config`) | none | `Load`, `Validate` | files |

Three goroutines do the work: the receiver's callback (`HandleMessage`), the
delivery worker and the enrichment worker. They share nothing but the tables.
A fourth, `App.Run`, waits for the first of them to report and then cancels the
context of all; `main` exits without waiting for them.

What is hard, and what correctness means there:

- **Several statements that belong together are not one transaction.** Storing a
  message and queueing its row; recording a page, queueing its row and closing
  the task. Correct means: a bounded and known amount is lost, and never an
  enriched row without its record.
- **A store error does not say whether the statement took effect.** Correct
  means: budgets and the meaning of `done` survive either outcome.
- **Cancellation at any point.** The claim has taken a row; it must be given back
  with its attempts, and only it.
- **A refused request may have been posted.** Correct means: at most the budgeted
  number of requests, and `done` only after an acceptance.
- **Crash and restart.** Only the tables survive. Correct means: nothing is sent
  beyond its budget because of a restart; how much is stranded is bounded.
- **Errors and signals have to end the process**, wherever its goroutines wait.
- **Times are compared as texts** whose order is not that of the times within a
  second, with a clock read before the claim gets its connection. Correct means: a
  backoff is neither skipped nor endless, and the queue's order holds to a second.
- **A page fetch has three clocks and a goroutine per request**: the fetch's timeout,
  each guard's, Chrome's own pace. Correct means: nothing is read that a guard has not
  let pass, everything ends, and a record's picture exists.
- **Imports read what Chrome is writing and write what the bridge is using.** Correct
  means: no field from before the command, never an unusable row, and no copy left behind
  that could have been removed. That the fields are all of one moment is *not* so while
  Chrome writes: the storages are copied one after the other, file by file.

Every hazard has its line and the properties aimed at it in `PROJECT.json`.

## 2. Modules

| module | models | composes |
|---|---|---|
| `Store` | the SQL statements as functions from table to table | – |
| `Dispatch` | `internal/dispatch` over the store, with robot and browser as environment | EXTENDS `Store` |
| `Outbox` | abstract: what the bridge promises of a queued row | – |
| `Bridge` | the process: `app.Run`, worker reports, signals, exit, crash, restart | EXTENDS `Dispatch` |
| `Receiver` | abstract: what `Bridge` takes for granted of its receiver | – |
| `ChromeReceiver` | `internal/chromereceiver` with Chrome as environment | implements `Receiver` |
| `Fallback` | `runGoFallback`, `WSClient.Run`, `UpdatePushToken`, the identity | implements `Receiver` |
| `Schedule` | when a row is tried: the clock, its texts, the claim's comparison | – |
| `Backoff` | the two computations of a backoff, and the bounded exponential | – |
| `Fetcher` | `Fetcher.Fetch` with its guards, timeout and screenshot; Chrome as environment | – |
| `Summary` | the text of a page that becomes the summary | – |
| `Importer` | the import commands, beside a Chrome that writes | – |
| `Config` | `config.Default`, `Load` and `Validate` | – |
| `MCDispatch`, `MCBridge`, `MCChromeReceiver`, `MCSchedule`, `MCFetcher`, `MCImporter` | the instances TLC checks (`MCSchedule` puts `Backoff` into `Schedule`, `MCFetcher` has `Summary` beside `Fetcher`, `MCImporter` has `Config`, `Backoff` and `Summary`) | |
| `DispatchProofs` | what the statements do to tables of any length; type correctness of the service; one original row per message id; of the delivery rows the budget, acceptance, who holds a running one, the refinement of `Outbox`, what is settled stays so | EXTENDS `Dispatch` |
| `EnrichmentProofs` | the same of the enrichment queue, and its agreement with records and rows | EXTENDS `DispatchProofs` |
| `BridgeProofs` | all of it across restarts, and what each life leaves behind | EXTENDS `Bridge`, `EnrichmentProofs` |
| `ScheduleProofs` | backoffs and order, for any digits | EXTENDS `Schedule` |
| `ChromeProofs` | exactly the extension's messages are forwarded; ready only with an event of its socket; the receiver's steps | EXTENDS `ChromeReceiver` |
| `FallbackProofs` | types and identities of the fallback; the receiver's steps | EXTENDS `Fallback` |
| `FetcherProofs` | what a fetch reads and records; the summary of any page | EXTENDS `MCFetcher` |
| `ImporterProofs` | what an import leaves in the table and on the disk; the backoffs and configurations for any numbers | EXTENDS `MCImporter` |

### Store

A table is a sequence; a row's position is its primary key, since no statement
deletes. `OpenSQLite` sets `SetMaxOpenConns(1)`, so statements never overlap: an
operator is one statement or one transaction and each use of it is one step.
`delivery_attempts` and `enrichment_tasks` have the same queue columns and the
same statements; one operator stands for both twins. Texts are abstracted to what
they are built from: a notification is a record of its id, its content, its frame
and its links, a payload is the tuple of the values the builder formats (the
builders are injective in what the properties tell apart). `next_attempt_at` is
"past" or "future": the result of comparing it with now in the claim's WHERE. How that
comparison comes out is `Schedule`'s.

### Dispatch

Variables: the four tables; `handler`, `deliveryWorker`, `enrichmentWorker` (the
goroutines' program counter and locals); `ctxDone`; three history variables
(`requests`, `accepted`, `fetches`: what robot and browser saw); two counters for
the bounds. One action per statement or request, named for it: `ReceiveNotification`
is `SaveMessage` in `HandleMessage`, `EnqueueOriginal` and `EnqueueLink` the rest of
it; `ClaimDelivery`, `ReleaseDelivery`, `StartSend`, `SendReturns`, `MarkDeliveryDone`
and `RetryOrFailDelivery` are the delivery worker, and likewise the enrichment
worker's nine. `Cancel` may happen between any two. `StoreFails` in an action is
the call returning an error, with the table as it was or as it should have become.

What kind of error ends a worker matters to the process: "canceled" is
`context.Canceled`, "deadline" a status context's own timeout, "error" the rest. Only
the status updates have a context with a deadline (`dispatch.go:323-327`): a claim, which
uses the run's, fails with "error".

### Outbox and the refinement

`Outbox` knows entries that are open, done or failed, the requests made for each
and what the robot took. `Dispatch` implements it with outcome = the row's status
(pending and running are open), requested = `requests`, taken = `accepted`
(`Promise == INSTANCE Outbox WITH ...` in `Dispatch`, property `ImplementsOutbox`).
A claim, a release, a retry and a backoff are stutters; an insert is `Offer`.

### Bridge

Adds the process ("up", "exiting" after `Run` returned, "down"), the receiver's
phase, the `workerErrs` channel as its count, signals, the exit status, and
`Restart` by a supervisor (`docs/systemd`, `docs/launchd`). A process that is
killed or exits loses its goroutines wherever they are; a request on its way may
still be accepted. `Bridge` takes the receiver to be module `Receiver`: it ends once
told to, and having started it does not end otherwise. The next two modules
show this of the two receivers there are (`ImplementsReceiver` in each). The go-fallback
is also prompt, it starts or gives up (`PromptSpec`); the Chrome receiver is not, and
`Bridge` in chrome-cdp mode has no fairness for its start. `App.Run`'s waits for the end
(a select in each of three places, and the loading of the identity) are one action for
each of what they may receive, in whatever phase the receiver is; the waits of the
receivers themselves are told apart in their modules.

### ChromeReceiver

Chrome (external): the extension's service worker starts, stops and starts again;
it opens one WxPusher socket at a time (the assumption on the extension), beside
any sockets to other hosts, whose frames are of no type the protocol knows. The second
assumption matters: a heartbeat of any socket makes the receiver ready
(`receiver.go:227`), and a message of any untracked one is forwarded while nothing is
tracked (`receiver.go:233`). What
CDP reports is `stream`, from `network.Enable` on (`Listening`) and only of the
attached worker; `handled` is how far the listener has come. `phase` follows the
waits of `Receiver.Run`: connecting, finding the worker, enabling the network
domain, waiting for the first sign of the socket, receiving, returned. The first three
are calls to Chrome without a deadline (`receiver.go:61`, `147`, `123`; the ready timer
starts at `127`), so nothing makes them return but the end of the context. A list of
targets may fail at any poll. `requests`
and `ready` are `frameState`'s; `forwarded` is the history of calls of `onMessage`.
Chrome is followed only as long as the receiver runs.

### Fallback

The process in go-fallback mode: `loop` is `runGoFallback`, `client` the
goroutine of `WSClient.Run` with the handler it calls, `id`, `row` and `bound` the
identity in memory, in the table and at the server. An init message is the steps
`ReadInit`, `Register` and `SaveIdentity`. A call that was given up may still be performed
by the server, at once, later (`late`, `ServerActsLate`), or never, and a save may fail
before or after its effect; `lost` remembers for which import what the server did last
was not adopted. `ReadUpdate` is a version notice, which changes nothing but the history
variable `unusable`. A field of the server's answer is absent,
new or white space; a value the server hands out carries the number of its token.
`Restart` may come at any step, also between registering and saving, and leaves only
`row`. `Import` is the command of another process that replaces the row while this one
runs: the identity in memory is not told, goes on registering tokens, and overwrites the
row with the next one it saves. An identity knows which import it goes back to (`from`),
and the server has one for each.

### Schedule and Backoff

One of the twin queues with its times. A time is a second and the digits of its
fraction; `EncodeTime` is the RFC3339Nano text as far as the comparison can tell (the
fixed-width part is one character, the zeros at the end of the fraction are dropped, and
the point with them), `TextLeq` SQLite's comparison from the left. The worker reads the
clock (`Poll`) before it selects (`Claim`), and the handler before it inserts; a refused
request is due after `Wait[n]`, a released row at once. Requests, errors and budgets are
`Dispatch`'s and not repeated; `refused` remembers the second of a row's last refusal.
`Backoff` has the loops of `dispatch.nextAttempt` and `app.Backoff` as recursive
functions, and the bounded exponential they are compared with.

### Fetcher and Summary

`pc` follows `Fetch`: the check of the URL, the directory, the actions of `chromedp.Run`
one by one, the two halves of `os.WriteFile`, and the caller's statement (`saving`). A
page has a document, at most one redirect and at most one image; each of their requests
is paused until its guard, an element of `guards`, answers, and `Mute` is a guard whose
answer does not arrive (its five seconds or its fetch are over). The resolver may answer
differently every time. `files` is the screenshot of each URL and the fetch that wrote
it, `records` the enrichments saved. `Summary` has the script's walk over the text nodes
and `Fetch`'s trimming as recursive functions of the nodes, and the beginning of the text as
reference.

### Importer and Config

A command goes from its arguments to its exit status; `import-chrome` copies one storage
after the other, field by field, while Chrome writes (`ChromeWrites`), reads the copy
and removes it, if it can (`RemoveAll`; `stuck` counts where it cannot). `seen` is the
history of the values each field had since the command began. A field is one key here,
whatever it is called in LevelDB. `Config` is `Load` and `Validate` as functions of a
file (the keys it gives) and the environment; texts are empty, blank or something.

## 3. Runs

| run | asks | bounds |
|---|---|---|
| `dispatch_enrichment` | can a half-finished, repeated enrichment leave tables that disagree, who holds a running row, and is everything settled in the end? | 1 frame whose link is there twice, 1 URL, 2 pages, budgets 2, 2 faults |
| `bridge_restart` | do enrichment budgets and types survive restarts, how many rows of either queue does a life strand, and do signals and errors of one worker or both end the process (go-fallback)? | 1 frame with a link, 2 faults, 1 restart, delivery budget 1 |
| `bridge_loss` | how many messages can crashes and errors leave unfinished, is the delivery queue's bookkeeping kept, and do restarts keep the rows an outbox (chrome-cdp)? | 2 frames out of 4 notifications, with up to 2 links, budget 2, 1 fault, 1 restart |
| `bridge_stranded` | is a row of a dead process sent by the next one? (no) | 1 frame, 1 restart |
| `bridge_dead_worker` | is every worker's end propagated? (no) | 1 frame, 1 fault |
| `chrome_frames` | are exactly the extension's messages forwarded, whenever its socket was opened, and does the receiver end when told to and, once ready, only then, whatever Chrome leaves unanswered? | 2 WxPusher sockets, 1 other, 3 events, 1 worker |
| `chrome_stops` | is the end of Chrome recorded? (no) | 1 + 1 sockets, 3 events, 2 workers |
| `fallback_identity` | do memory, table and server agree after half-done updates and imports, and is every ended client followed by another? | 2 tokens, white space in the connection token only, 1 import, any number of restarts |
| `fallback_silent` | is a silent server noticed? (no) | 1 token |
| `schedule` | do texts as times keep the backoffs and the order, and settle every row? | 1 binary digit, 3 attempts with backoffs of 1 and 2 s, 2 rows, 4 seconds |
| `page_fetch` | is only read what a guard let pass, do the recorded pictures exist, do fetches and guards end, and is the summary the text's beginning? | 2 URLs, 2 fetches, 1 kill; pages of 2 nodes of 2 characters |
| `identity_import` | what reaches the table, from when is it, what is left in the temporary directory, and do accepted configurations fit the packages they go to? | 2 commands, 2 writes of Chrome; files of up to 3 keys |

Why the bounds are enough. A budget of 2 has a first, a retried and a last
request; budget 1, where the first request is the last, is `bridge_restart`'s.
Rows do not interact but in the claim's order, which two rows show. Two faults hit the
success path of an enrichment twice, a third repeats one of them; they also end both
workers of one process. Two frames are a
notification and its repetition in another frame, or two that differ only there; two
links are one that is queued and one that is not. One restart shows a life that ends and
one that finds what it left; that the losses of more lives add up, and no more, is proved
(`OneStrandedByEachLife`, `LossesAreBounded`).
Three events of Chrome hold a frame of a socket opened before the receiver listened
and its end, or its end and the creation and a frame of the next, tracked one; the other socket may
take the place of any. Two tokens are a lost registration and the one that repairs
it, one import divides them in every way; restarts need no bound, since they add no
state. A fraction of one digit is zero, and dropped with its point, or not. Two fetches
are one whose guards outlive it and the one they find; their URLs may be the same. Two
writes of Chrome fall before, between and after the copies of a command's two storages.
The theorems have no such bounds: `MaxFrames`, `MaxFaults`, `MaxRestarts`, `MaxRows`,
`MaxSeconds`, `Places`, `MaxEvents`, `MaxWorkers`, `MaxTokens`, `MaxImports`,
`MaxFetches`, `MaxKills`, `MaxCommands` and `MaxWrites` are any naturals.

Deadlock is checked in the runs of `Fallback`, whose process can always be started
again. Elsewhere the system may really stop: once its frames are used up and its rows
settled, the service only waits; a process may stay down; a Chrome receiver that has
returned does nothing more; the clock of `schedule` has an end; commands and fetches are
given a bounded number of times.

Mutants. Beside some operators stands a variant with a suffix naming the slip
(`MarkRetry_SameAttempts`): the definition with a plausible mistake. Each property
of a passing run is violated when its mutant replaces the definition, so each is
known to be able to fail.

### Fairness

`Fairness` (Dispatch) and `BridgeFairness` are weak fairness of the goroutines' next
steps. The code justifies them: the Go scheduler runs ready goroutines; the poll timer
is one second; the robot's client has a 15 s timeout, the browser its own, a status
update a 5 s context, and each returns an answer or an error; `App.Run` selects on
channels that stay ready. The go-fallback starts or gives up, since it only loads its
identity first; the start of the Chrome receiver has no fairness. The clock passes every
`next_attempt_at`. Notifications, signals, crashes, faults and restarts have no
fairness: nothing makes them happen.

The receivers' `FairSpec`s. Chrome's: a done context is noticed wherever `Receiver.Run`
waits (chromedp's calls take it), the ready timer fires, and CDP's events are handled one
after the other; connecting, listing the targets and enabling the network events have no
deadline and no fairness. The fallback's: dialling, a call (15 s), a statement and the
read of a closed socket return, the backoff's timer fires, and a select that finds the
context or a worker's error ready again and again takes it in the end, since Go
chooses among ready cases at random. Nothing makes Chrome start, open or
answer anything, or the server send, close, or perform a registration late.

`Schedule`: time passes, the poll timer fires, and a statement or request returns. The
outcome of a request has strong fairness: a release (the run is cancelled) may take its
place, but the run is not cancelled for ever. `Fetcher`: the fetch's timeout fires
whatever it is doing (`Expire`), `chromedp.Run` returns once its context is done, the
operating system and the resolver answer, and a guard takes its steps. Chrome need not
answer anything. Nobody has to call `Fetch`, and `Importer` has no fairness: its
properties are about what commands leave behind.

## 4. Where code and documents disagree

1. *A process restart does not lose work* (`design.md:174`): a row that was
   running when the process died is never claimed again (`sqlite.go:402` selects
   pending rows only, and nothing resets running ones). Run `bridge_stranded`.
   The same sentence is too strong of messages: one stored just before its process died
   has no row, and its redelivery is dropped as a duplicate (`dispatch.go:82`).
2. *Error propagation* by `internal/app` (`design.md:40`): a worker that ends
   because a status update exceeded its own 5 s timeout is not reported
   (`app.go:373`), and the process stays up without it. Run `bridge_dead_worker`.
3. *Stop Chrome and confirm receiver failure events are recorded*
   (`docs/acceptance.md:19`): once ready, `Receiver.Run` waits for its caller's
   context only (`receiver.go:140`). Run `chrome_stops`.
4. *If the server heartbeat times out, mark the connection unhealthy and reconnect*
   (`design.md:112`): reads have no deadline and heartbeat answers are ignored
   (`client.go:156`). Run `fallback_silent`.

How bad the first can get is bounded, checked and proved: at most one row per queue
and life (`OneStrandedPerLife`), at most one message per failed store call or ended run
(`UnfinishedBounded`).

Others, visible in the modules but without a run of their own:

- *Validate and persist the new `pushToken`, then call the register-device API*
  (`design.md:105`): the call comes first and the save only after it has succeeded
  (`app.go:292`, `298`; `Fallback`: `Register`, then `SaveIdentity`). The design is not of
  one mind: line 275 wants a failed call to keep the last known valid identity, which the
  code's order gives and the other would not. `OnlyKnownIdentities` is about the code's
  order.
- *Keep the last valid identity until a replacement is fully validated*
  (`design.md:117`): a non-empty field of the server's answer is saved and adopted
  without `Validate` (`client.go:88-98`; `Merge`), and one of white space makes the next
  start refuse the identity (`app.go:177`; `LoadIdentity`). `OnlyKnownIdentities` does not
  exclude it: such an identity is known, and invalid.
- *If the server response implies the current client version is no longer usable, stop
  reconnecting* (`design.md:281`): a version notice is logged and recorded, and the loop
  dials again after every disconnect (`app.go:211`, `260`; `ReadUpdate`). The server says
  nothing else of versions, so the notice is taken for the response meant, and `Redials`
  claims another client only where there was none.
- The reconnect backoff has no jitter (`design.md:116`, `Backoff`), and its attempts are
  never counted anew after a connection that worked (`app.go:182`).

No document promises that the Chrome receiver starts or gives up in a bounded time, and
it does not: `ready_timeout` bounds the search for the worker between its polls and the
wait for the first event, not the calls before and between them. A signal or a worker's
error ends the process all the same, since `App.Run` does not wait for the receiver.

## 5. Theorems

Those about `Dispatch!Spec` assume `AttemptsAssumption` (what `config.Validate`
guarantees), `NotificationAssumption` (the shape of a notification) and
`BoundsAssumption` (the bounds are naturals).

- `TypeCorrect` (DispatchProofs): `TypeOK` is inductive; one lemma per goroutine.
  It rests on the module's facts on updates and inserts of sequences of rows.
- `DoneIsAccepted`, `BudgetIsKept`, `RunningDeliveryIsHeld` (DispatchProofs). None
  of the three is inductive: that a retried row's attempts equal its requests
  needs to know that the worker still remembers the row's attempts, that the row
  it holds is running and that exactly one request separates the two once it has
  been sent. `RowsInv` is inductive: it states that of the held row (`HeldRowOK`) and
  what each row says of itself (`RowsOK`). It says nothing of who holds the other
  running rows, so that a new process has it too; which rows nobody holds is a fact
  about steps (`StrandsAtReturn`: a row is stranded only as its worker returns with a
  store error), from which `RunningDeliveryIsHeld` follows, and below that each life
  strands one at most.
- `ServiceImplementsOutbox`: initial states map to initial states and every step to an
  Outbox step or a stutter, using `RowsInv`. `SettledStaysSettled`: the only rows a
  worker writes are pending ones it claims and the running one it holds.
- `QidsAreForwardedOnce` (DispatchProofs): from distinct keys of stored messages,
  rows that belong to a stored message and say what it says, and the unique index
  over message, kind and payload.
- Of the claim these proofs, and those below, use only that the row it selects is in the
  table and pending (`SelectedIsPending`): they hold of whichever rows `Schedule`'s texts make
  due, and in whatever order.
- `FetchBudgetIsKept`, `RunningRowsAreHeld`, `EnrichedRowsAreRecorded`,
  `DoneTasksAreQueued` (EnrichmentProofs). `TasksInv` is `RowsInv`'s twin, except that
  the held task may be done already while the worker is "failing" (the error came after
  the commit). `RecordInv` adds that a task is its link's only one (`TasksUnique`), what
  the held task has recorded and queued so far (`HeldRecordOK`), and that a done task's
  record is the queued one (`DoneOK`), which only the task's holder could change.

About `Bridge!BridgeSpec` (BridgeProofs), from the same and `BridgeAssumption` (there are
two receivers, the bound of restarts is a natural). A step of the process is a step of
the service, perhaps none, or the end or beginning of a life (`BridgeSteps`); those two
leave the database alone and put the goroutines back to where they start.

- `DoneIsAcceptedByAnyLife`, `RestartsKeepTheBudget`, `RestartsKeepTheFetchBudget`,
  `RestartsForwardOnce`, `SettledSurvivesRestarts`, `BridgeImplementsOutbox`,
  `BridgeTypeCorrect`: `ServiceInv`, the conjunction of `RowsInv`, `RecordInv` and
  DispatchProofs' `MessageInv`, is kept by both kinds of steps.
- `OneStrandedByEachLife`: `StrandedInv` counts; a step within a life strands a row only
  as the worker returns, the end of a life strands what the worker held if it had not
  returned, and a process that is down holds nothing.
- `LossesAreBounded`: `UnfinishedInv` knows how far the handler has come with its message
  (`HandlerInv`: whatever is not queued is in its hands) and has a bound that is less
  than the property's by one while the handler of a cancelled run still holds a message.
  Every step that leaves one more message unfinished counts one more (`LosesCounted`).

About `ChromeReceiver!Spec`, from `ChromeReceiverAssumption` (a request id belongs to
one socket, the bounds are naturals):

- `MessagesAreForwarded` (ChromeProofs): `EveryMessageIsForwarded`. The frame of an
  untracked socket passes only while nothing is tracked, so the argument is about
  order: if a socket is open and the listener will not have tracked it, then no
  event in the stream tracks another one either, and its frames come before any
  event that does. `ReceiverInv` says this of every frame in the stream, handled or
  not, and of the socket that is open now; that there is one at a time is what
  carries it from one event to the next.
- `ReadyHasObserved`: the handled part of the stream never changes, so an event that made
  the receiver ready stays in it (`ReadyInv`). `StepsOfReceiver`: the safety part of
  `ImplementsReceiver`. `ReceiverTypeCorrect`: the types.

About `Fallback!Spec`, from `FallbackAssumption` and `NoIdentityAssumption` (white
space is no value, and no row is not an identity):

- `FallbackTypes`, `AgreementIsKept`, `NothingUnknownIsKept` (FallbackProofs). The
  last two need what holds between a handler's steps, across a restart and beside an
  import: while a registration is to be saved, `next` is what the server confirmed and
  has bound for the import that memory goes back to, and while memory holds no identity,
  the table still agrees with the server unless a registration was lost
  (`IdentityInv`); and a call that was given up is of an import there has been
  (`GivenUp`), so that the server performs nothing else late. `StepsOfReceiver` as above.

About `Schedule!Spec`, from `DigitsAssumption` and `ScheduleAssumption` (there is a digit,
backoffs are a second or more), for any base, number of digits and backoffs:

- `ScheduleTypeCorrect`, `BackoffIsKept`, `PassedOverWithinASecond`. They rest on the
  lemma that texts of different seconds have the order of their seconds
  (`SecondsDecide`); of the order within a second nothing is used.

About `Fetcher!Spec`, from `FetcherAssumption` (a URL has a host, the bounds are
naturals), for any URLs, hosts and addresses:

- `FetcherTypeCorrect`, `OnlyAllowedIsLoaded`, `PicturesAreThere` (FetcherProofs).
  `FetchInv` adds that requests are paused from the first navigation until the page has
  been loaded, and that no guard is of a fetch still to come; that a paused request has
  one guard of its fetch is part of `TypeOK`. `PictureInv` adds that a fetch under way has
  no record yet, so that writing its screenshot spoils none, and that a fetch about to be
  saved has written its own.

About `Importer!Spec`, from `ImporterAssumption` and `NoRowAssumption` (the bounds are
naturals, the values that are none are no numbers; no row is not an identity):

- `RowsAreUsable`, `ImportsAreCurrent`, `LeftCopiesAreCounted` (ImporterProofs). What is
  saved is the end of a chain, and `ImporterInv` has its links: a storage's field has a
  value it had since the command began, and one without a directory has none
  (`ProfileOK`); so has every field already copied (`CopyOK`); and what was read is the
  settings' after the first storage and the merge after the second (`ReadOK`). Chrome's
  writes only add to what there has been. A command has at most one copy, and its exit
  removes it or counts it (`Removals`).

About operators, from nothing:

- `EverySummaryIsBeginning` (FetcherProofs): for all text nodes over any set of characters
  and any configured length. The script's two loops are recursive functions; the
  function that gives the cut of the text so far (`Cut`) satisfies their equations
  (`CutAppend`, `PrefixAppend`), and any function that does is that one (`CollectIsCut`,
  `BodyTextIsCut`). What is cut is not longer than the limit, and trimming does not
  lengthen it (`TrimShortens`). `SummariesAreBeginnings` is the property of the run.
- `EveryAcceptedConfigFits` (ImporterProofs): for every file with numbers where numbers
  belong (`Typed`) and every environment. `Service.nextAttempt` and `app.Backoff` are
  shown to compute the doubling that starts with the initial length and is cut at the
  maximum (`NextAttemptIsExponential`, `AppBackoffIsExponential`), and so is the bounded
  exponential. Lengths are unbounded integers: that twice the maximum fits a
  `time.Duration` (some 146 years) is not part of `Validate`. `LoadedConfigsFit` is the
  property of the run.
- `AcceptedConfigsMeetAssumptions`: an accepted configuration satisfies what
  `AttemptsAssumption` and `ScheduleAssumption` ask of the budgets and of the waits, so
  the theorems above apply to every process that gets past `config.Load`.

These are inductions over the rounds of a loop. The library's induction theorems have an
operator for a parameter, which no backend can instantiate; the lemmas `Induction` and
`IntervalInduction` state the same with a set in its place, and follow from
`WFMin` (a non-empty set has a minimal element) of module WellFoundedInduction. They
stand in both modules, each of which extends a different component.

Only model-checked: all liveness: `DeliveriesSettle`, `EnrichmentsSettle`,
`SignalOrErrorStopsProcess`, `Redials`, `RowsSettle`, `FetchReturns`,
`GuardsEnd` and the fairness part of `ImplementsReceiver`
(fairness and ENABLED are out of the prover's reach). Every invariant and every action
property that a passing run checks is proved. The modules proved about use no RECURSIVE
operator.

## 6. What is not modelled

- Formatting, logging, the wording of errors, `config.RedactSecret`, and app events other
  than the chrome receiver's failures: written, never read.
- What a page's scripts request after its load event, and more requests than a document,
  a redirect and an image: each has a guard of the same kind.
- Two keys of Chrome's storages that stand for the same field, and how LevelDB spells
  and orders keys.
- A clock that is set back. That the text order within a second differs from time is
  `Schedule`'s alone; in `Dispatch` a time has passed or not.
- The locks between the bridge's connection and an importer's (`sqlite.go:21`): a
  statement that meets one is among the store errors any statement may return.
- What chromedp returns when Chrome is lost while targets are listed (`main.go:77` takes
  an error that wraps `context.Canceled` for a clean end); `Bridge` takes it for a failure.
- A receiver that follows the extension's worker to its next one: the code does not, and
  no document says it should; `ChromeReceiver` has the steps.

## 7. Plan

What is left to do, in order:

1. `Bridge` with `ChromeReceiver` itself in the place of `Receiver`, and the frames that
   come through as its notifications: today the composition is argued by
   `ImplementsReceiver` and not checked as one module.
2. One queue with `Schedule`'s times and `Dispatch`'s requests, budgets and errors: today
   the two describe the same claim apart, and `Dispatch` takes a row for due from the
   moment its time has come, which its text may not be before the second is over.
3. `app_events`, once something reads them.
