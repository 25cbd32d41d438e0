-------------------------------- MODULE Fetcher --------------------------------
(***************************************************************************)
(* browser.Fetcher.Fetch, the page fetch behind Dispatch's FetchReturns.   *)
(*                                                                         *)
(* Every fetch has a Chrome of its own, in which the requests of the page  *)
(* are paused until a guard, a goroutine for each request, lets them pass  *)
(* or refuses them.  A guard has five seconds, and nobody looks at what    *)
(* becomes of its answer: a request whose guard was too late stays paused, *)
(* the page's load event does not come, and only the fetch's own timeout   *)
(* ends the wait.  Guards may outlive their fetch.  The screenshot is      *)
(* written to a path made from the URL, over the one of an earlier fetch.  *)
(*                                                                         *)
(* Chrome, the resolver and the file system are external.  A page asks for *)
(* its document, is redirected at most once and has at most one image;     *)
(* what scripts ask for after the load event is left out.                  *)
(***************************************************************************)
EXTENDS Naturals

CONSTANTS
  Urls,
  Host,        \* the host of each URL
  Addresses,   \* addresses, as hosts and as the resolver's answers
  Public,      \* those of them that may be fetched
  MaxFetches,  \* bound: calls of Fetch
  MaxKills     \* bound: deaths of the process

Hosts == {Host[u] : u \in Urls} \cup Addresses \cup {"localhost"}
Hops == {"document", "redirect", "image"}

ASSUME FetcherAssumption ==
  /\ Host \in [Urls -> Hosts]
  /\ Public \subseteq Addresses
  /\ MaxFetches \in Nat
  /\ MaxKills \in Nat

VARIABLES
  pc,           \* where Fetch is; "saving": it has returned a page, the caller saves it
  fetch,        \* the number of the fetch
  url,
  expired,      \* the context is done: timeout, or the run is cancelled
  intercepting, \* Chrome pauses requests
  requests,     \* the page's requests: "none", "paused", "loaded", "refused"
  guards,       \* guards that run: [fetch, hop, host, step, verdict]
  files,        \* the screenshot of each URL: [fetch, whole], fetch 0 if there is none
  records,      \* the enrichments saved: [fetch, url]
  allowed,      \* history: the requests a guard of this fetch has let pass
  kills

vars == <<pc, fetch, url, expired, intercepting, requests, guards, files, records,
          allowed, kills>>

\* What the phases before the screenshot is written leave alone.
disk == <<files, records, kills>>
page == <<intercepting, requests, guards, allowed>>

NoRequests == [h \in Hops |-> "none"]

Init ==
  /\ pc = "idle" /\ fetch = 0 /\ url \in Urls /\ expired = FALSE
  /\ intercepting = FALSE /\ requests = NoRequests /\ guards = {} /\ allowed = {}
  /\ files = [u \in Urls |-> [fetch |-> 0, whole |-> FALSE]]
  /\ records = {} /\ kills = 0

-----------------------------------------------------------------------------
(* The check of a URL *)

\* An address is taken as it is, a name is resolved; an error is no answer.
ValidateFetchURL(host, answer) ==
  /\ host # "localhost"
  /\ IF host \in Addresses THEN host \in Public ELSE answer # {} /\ answer \subseteq Public

\* The verdicts there can be: with the context done, the resolver has no answer.
Verdicts(host, done) ==
  {ValidateFetchURL(host, answer) : answer \in IF done THEN {{}} ELSE SUBSET Addresses}

-----------------------------------------------------------------------------
(* Fetch *)

Call ==
  /\ pc = "idle"
  /\ fetch < MaxFetches
  /\ url' \in Urls
  /\ pc' = "validating" /\ fetch' = fetch + 1 /\ expired' = FALSE
  /\ intercepting' = FALSE /\ requests' = NoRequests /\ allowed' = {}
  /\ UNCHANGED <<guards, disk>>

\* Mutant: the page is loaded without a timeout.
Expire_NotWhileLoading ==
  /\ pc \notin {"idle", "saving", "loading"}
  /\ ~expired
  /\ expired' = TRUE
  /\ UNCHANGED <<pc, fetch, url, page, disk>>

\* context.WithTimeout, and the run's context above it.
Expire ==
  /\ pc \notin {"idle", "saving"}
  /\ ~expired
  /\ expired' = TRUE
  /\ UNCHANGED <<pc, fetch, url, page, disk>>

Goto(next) == pc' = next /\ UNCHANGED <<fetch, url, expired>>

Validate ==
  /\ pc = "validating"
  /\ \E verdict \in Verdicts(Host[url], expired) :
       Goto(IF verdict THEN "preparing" ELSE "idle")
  /\ UNCHANGED <<page, disk>>

MkdirAll ==
  /\ pc = "preparing"
  /\ \E next \in {"enabling", "idle"} : Goto(next)
  /\ UNCHANGED <<page, disk>>

\* chromedp.Run: the phases in which Chrome is asked.
Asking == {"enabling", "navigating", "loading", "reading", "capturing", "disabling"}

\* Chrome is started with the first action; the guard is installed before that.
Enable ==
  /\ pc = "enabling"
  /\ Goto("navigating")
  /\ intercepting' = TRUE
  /\ UNCHANGED <<requests, guards, allowed, disk>>

\* Chrome sends a request, or pauses it and the event starts a guard.
Ask(hop, host) ==
  /\ requests[hop] = "none"
  /\ requests' = [requests EXCEPT ![hop] = IF intercepting THEN "paused" ELSE "loaded"]
  /\ guards' = IF intercepting
               THEN guards \cup {[fetch |-> fetch, hop |-> hop, host |-> host,
                                  step |-> "resolving", verdict |-> FALSE]}
               ELSE guards
  /\ UNCHANGED <<intercepting, allowed, disk>>

Navigate ==
  /\ pc = "navigating"
  /\ Goto("loading")
  /\ Ask("document", Host[url])

\* What the document's response makes Chrome ask for.
PageAsks ==
  /\ pc = "loading"
  /\ requests["document"] = "loaded"
  /\ \E host \in Hosts :
       \/ Ask("redirect", host) /\ requests["image"] = "none"
       \/ Ask("image", host) /\ requests["redirect"] \in {"none", "loaded"}
  /\ UNCHANGED <<pc, fetch, url, expired>>

\* The load event has come, and there is a body: nothing is paused any more, and the
\* document has not been refused.
Loaded ==
  /\ pc = "loading"
  /\ requests["document"] = "loaded"
  /\ requests["redirect"] \in {"none", "loaded"}
  /\ requests["image"] # "paused"
  /\ Goto("reading")
  /\ UNCHANGED <<page, disk>>

\* Title and text, then the screenshot.
Read ==
  /\ pc = "reading"
  /\ Goto("capturing")
  /\ UNCHANGED <<page, disk>>

CaptureScreenshot ==
  /\ pc = "capturing"
  /\ Goto("disabling")
  /\ UNCHANGED <<page, disk>>

Disable ==
  /\ pc = "disabling"
  /\ Goto("opening")
  /\ intercepting' = FALSE
  /\ UNCHANGED <<requests, guards, allowed, disk>>

\* An action returns an error: Chrome's, the refused document's, or the context's.
\* The deferred calls end Chrome.
RunFails ==
  /\ pc \in Asking
  /\ Goto("idle")
  /\ UNCHANGED <<page, disk>>

\* Mutant: the error of the write is dropped.
WriteFile_ErrorIgnored ==
  /\ pc = "opening"
  /\ \/ Goto("writing") /\ files' = [files EXCEPT ![url] = [fetch |-> fetch, whole |-> FALSE]]
     \/ Goto("saving") /\ UNCHANGED files
  /\ UNCHANGED <<page, records, kills>>

\* os.WriteFile empties the file before it writes.
WriteFile ==
  /\ pc = "opening"
  /\ \/ Goto("writing") /\ files' = [files EXCEPT ![url] = [fetch |-> fetch, whole |-> FALSE]]
     \/ Goto("idle") /\ UNCHANGED files
  /\ UNCHANGED <<page, records, kills>>

WriteReturns ==
  /\ pc = "writing"
  /\ \/ Goto("saving") /\ files' = [files EXCEPT ![url].whole = TRUE]
     \/ Goto("idle") /\ UNCHANGED files
  /\ UNCHANGED <<page, records, kills>>

\* Service.processEnrichmentTask saves the enrichment, or fails to.
SaveEnrichment ==
  /\ pc = "saving"
  /\ Goto("idle")
  /\ \/ records' = records \cup {[fetch |-> fetch, url |-> url]}
     \/ UNCHANGED records
  /\ UNCHANGED <<page, files, kills>>

-----------------------------------------------------------------------------
(* The guards *)

\* Its context is derived from the fetch's.
Orphan(g) == expired \/ pc \notin Asking \/ g.fetch # fetch

Resolve(g) ==
  /\ g.step = "resolving"
  /\ \E done \in {TRUE, Orphan(g)} : \E verdict \in Verdicts(g.host, done) :
       guards' = (guards \ {g}) \cup {[g EXCEPT !.step = "answering", !.verdict = verdict]}
  /\ UNCHANGED <<pc, fetch, url, expired, intercepting, requests, allowed, disk>>

\* Mutant: a guard has to reach Chrome, and has no other end.
Mute_Waits(g) ==
  /\ g.step = "answering"
  /\ g.fetch = fetch
  /\ guards' = guards \ {g}
  /\ UNCHANGED <<pc, fetch, url, expired, intercepting, requests, allowed, disk>>

\* The five seconds, or the fetch, are over, or Chrome does not take the answer: the
\* error is ignored.
Mute(g) ==
  /\ g.step = "answering"
  /\ guards' = guards \ {g}
  /\ UNCHANGED <<pc, fetch, url, expired, intercepting, requests, allowed, disk>>

\* Mutant: the answer's context is not the fetch's.
Answer_AnyFetch(g) ==
  /\ g.step = "answering"
  /\ pc \in Asking
  /\ requests[g.hop] = "paused"
  /\ requests' = [requests EXCEPT ![g.hop] = IF g.verdict THEN "loaded" ELSE "refused"]
  /\ allowed' = IF g.verdict /\ g.fetch = fetch THEN allowed \cup {g.hop} ELSE allowed
  /\ guards' = guards \ {g}
  /\ UNCHANGED <<pc, fetch, url, expired, intercepting, disk>>

\* Mutant: no return after FailRequest.
Answer_NoReturn(g) ==
  /\ g.step = "answering"
  /\ ~Orphan(g)
  /\ requests[g.hop] = "paused"
  /\ requests' = [requests EXCEPT ![g.hop] = IF g.verdict THEN "loaded" ELSE "refused"]
  /\ allowed' = IF g.verdict THEN allowed \cup {g.hop} ELSE allowed
  /\ guards' = (guards \ {g}) \cup
               IF g.verdict THEN {} ELSE {[g EXCEPT !.verdict = TRUE]}
  /\ UNCHANGED <<pc, fetch, url, expired, intercepting, disk>>

\* ContinueRequest or FailRequest.
Answer(g) ==
  /\ g.step = "answering"
  /\ ~Orphan(g)
  /\ requests[g.hop] = "paused"
  /\ requests' = [requests EXCEPT ![g.hop] = IF g.verdict THEN "loaded" ELSE "refused"]
  /\ allowed' = IF g.verdict THEN allowed \cup {g.hop} ELSE allowed
  /\ guards' = guards \ {g}
  /\ UNCHANGED <<pc, fetch, url, expired, intercepting, disk>>

Guard == \E g \in guards : Resolve(g) \/ Mute(g) \/ Answer(g)

-----------------------------------------------------------------------------

\* The process dies, and another one is started.  Its Chrome dies with it.
Kill ==
  /\ pc # "idle"
  /\ kills < MaxKills
  /\ kills' = kills + 1
  /\ guards' = {}
  /\ Goto("idle")
  /\ UNCHANGED <<intercepting, requests, allowed, files, records>>

\* What waits for Chrome.
ChromeStep ==
  \/ Enable \/ Navigate \/ PageAsks \/ Loaded \/ Read \/ CaptureScreenshot \/ Disable

\* What the operating system and the store do in the end.
LocalStep == Validate \/ MkdirAll \/ WriteFile \/ WriteReturns \/ SaveEnrichment

Next == Call \/ Expire \/ LocalStep \/ ChromeStep \/ RunFails \/ Guard \/ Kill

Spec == Init /\ [][Next]_vars

\* Timers fire, and chromedp.Run returns when its context is done.  Chrome need not
\* answer.
FairSpec ==
  /\ Spec
  /\ WF_vars(Expire)
  /\ WF_vars(LocalStep)
  /\ WF_vars(expired /\ RunFails)
  /\ WF_vars(Guard)

-----------------------------------------------------------------------------
(* Properties *)

GuardType == [fetch : 1 .. MaxFetches, hop : Hops, host : Hosts,
              step : {"resolving", "answering"}, verdict : BOOLEAN]

TypeOK ==
  /\ pc \in {"idle", "validating", "preparing", "opening", "writing", "saving"} \cup Asking
  /\ fetch \in 0 .. MaxFetches
  /\ url \in Urls
  /\ expired \in BOOLEAN
  /\ intercepting \in BOOLEAN
  /\ requests \in [Hops -> {"none", "paused", "loaded", "refused"}]
  /\ guards \subseteq GuardType
  /\ files \in [Urls -> [fetch : 0 .. MaxFetches, whole : BOOLEAN]]
  /\ records \subseteq [fetch : 1 .. MaxFetches, url : Urls]
  /\ allowed \subseteq Hops
  \* A request has one guard, and the guard one answer.
  /\ \A g \in guards : g.fetch = fetch => requests[g.hop] = "paused"
  /\ \A f, g \in guards : f.fetch = g.fetch /\ f.hop = g.hop => f = g
  /\ kills \in 0 .. MaxKills

\* What a page consists of has passed a guard of the fetch that reads it, although
\* guards of earlier fetches, late, still run (browser.go:247-258, 283-301).
LoadedWasAllowed == \A h \in Hops : requests[h] = "loaded" => h \in allowed

\* The screenshot an enrichment names is that of its own fetch, and whole, unless a
\* later fetch of the same URL has gone over it: an error of the write, a kill, and an
\* expired context never leave a record without it (browser.go:269-280,
\* dispatch.go:241-264).
RecordedPictures ==
  \A r \in records :
    /\ files[r.url].fetch >= r.fetch
    /\ files[r.url].fetch = r.fetch => files[r.url].whole

\* Every fetch returns, whatever Chrome, the resolver and the guards do
\* (browser.go:225-226, 291-298).
FetchReturns == pc # "idle" ~> pc = "idle"

\* No guard runs for ever: the answer to nobody ends it (browser.go:290-299).
GuardsEnd == <>[](guards = {})
=============================================================================
