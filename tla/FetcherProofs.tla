------------------------------ MODULE FetcherProofs ------------------------------
(***************************************************************************)
(* What Fetch reads and records, for any URLs, hosts and addresses, and    *)
(* any number of fetches and kills; and that the summary is the beginning  *)
(* of the page's text, for any text.                                       *)
(*                                                                         *)
(* A request is loaded without a guard only while Chrome does not pause    *)
(* requests, and a guard speaks only for a paused request of its own fetch.*)
(* So the first part of the invariant says when requests are paused, and   *)
(* that no guard is of a fetch still to come.  The second part says which  *)
(* fetches can have written a screenshot or a record: of the fetch that is *)
(* under way there is no record yet, so that writing its screenshot spoils *)
(* none.                                                                   *)
(*                                                                         *)
(* The loops of the summary have explicit solutions, the beginnings of the *)
(* text so far; that there is no other is an induction over their rounds.  *)
(***************************************************************************)
EXTENDS MCFetcher, SequenceTheorems, WellFoundedInduction, TLAPS

\* When Chrome pauses requests, and whose the guards are.
GuardsOK ==
  /\ pc \in {"navigating", "loading"} => intercepting
  /\ pc # "idle" => fetch >= 1
  /\ \A g \in guards : g.fetch <= fetch

\* Which fetch wrote a screenshot, and how far the one under way is.
PicturesOK ==
  /\ \A u \in Urls : files[u].fetch <= fetch
  /\ \A r \in records : r.fetch <= fetch /\ (pc # "idle" => r.fetch < fetch)
  /\ pc \in {"writing", "saving"} => files[url].fetch = fetch
  /\ pc = "saving" => files[url].whole

FetchInv == TypeOK /\ GuardsOK /\ LoadedWasAllowed
PictureInv == PicturesOK /\ RecordedPictures

\* Nothing has been fetched yet.
LEMMA InitFetch == Init => FetchInv /\ PictureInv
<1> SUFFICES ASSUME Init PROVE FetchInv /\ PictureInv
  OBVIOUS
<1>1. TypeOK
  <2>1. requests \in [Hops -> {"none", "paused", "loaded", "refused"}]
    BY DEF Init, NoRequests
  <2>2. 0 \in 0 .. MaxFetches /\ 0 \in 0 .. MaxKills
    BY FetcherAssumption
  <2>3. files \in [Urls -> [fetch : 0 .. MaxFetches, whole : BOOLEAN]]
    BY <2>2 DEF Init
  <2>4. QED
    BY <2>1, <2>2, <2>3 DEF Init, TypeOK
<1>2. GuardsOK /\ LoadedWasAllowed /\ PicturesOK /\ RecordedPictures
  BY DEF Init, GuardsOK, LoadedWasAllowed, PicturesOK, RecordedPictures, NoRequests
<1>3. QED
  BY <1>1, <1>2 DEF FetchInv, PictureInv

-----------------------------------------------------------------------------
(* Requests and guards *)

\* Phases that go on, or end, without a request.
LEMMA PhasesType ==
  ASSUME TypeOK, GuardsOK, LoadedWasAllowed,
         pc' \in {"idle", "validating", "preparing", "opening", "writing", "saving"}
                 \cup Asking,
         pc # "idle" \/ pc' = "idle",
         pc' \in {"navigating", "loading"} => intercepting',
         intercepting' \in BOOLEAN, expired' \in BOOLEAN, kills' \in 0 .. MaxKills,
         files' \in [Urls -> [fetch : 0 .. MaxFetches, whole : BOOLEAN]],
         records' \subseteq [fetch : 1 .. MaxFetches, url : Urls],
         guards' = guards \/ guards' = {},
         UNCHANGED <<fetch, url, requests, allowed>>
  PROVE  FetchInv'
<1>1. TypeOK'
  BY DEF TypeOK
<1>2. GuardsOK'
  BY DEF GuardsOK
<1>3. LoadedWasAllowed'
  BY DEF LoadedWasAllowed
<1>4. QED
  BY <1>1, <1>2, <1>3 DEF FetchInv

\* A call has a number no guard has, and no requests yet.
LEMMA CallType == FetchInv /\ Call => FetchInv'
<1> SUFFICES ASSUME FetchInv, Call PROVE FetchInv'
  OBVIOUS
<1>1. fetch \in Nat /\ fetch' = fetch + 1 /\ fetch' \in 0 .. MaxFetches
  BY FetcherAssumption DEF FetchInv, TypeOK, Call
<1>2. \A g \in guards : g.fetch < fetch'
  BY <1>1, FetcherAssumption DEF FetchInv, TypeOK, GuardsOK, GuardType
<1>3. TypeOK'
  <2>1. requests' \in [Hops -> {"none", "paused", "loaded", "refused"}]
    BY DEF Call, NoRequests
  <2>2. guards' = guards /\ \A g \in guards : g.fetch # fetch'
    BY <1>1, <1>2, FetcherAssumption DEF Call, FetchInv, TypeOK, GuardType
  <2>3. QED
    BY <1>1, <2>1, <2>2 DEF FetchInv, TypeOK, Call, disk
<1>4. GuardsOK'
  BY <1>1, <1>2, FetcherAssumption DEF FetchInv, TypeOK, GuardsOK, Call, disk, GuardType
<1>5. LoadedWasAllowed'
  BY DEF LoadedWasAllowed, Call, NoRequests
<1>6. QED
  BY <1>3, <1>4, <1>5 DEF FetchInv

\* While Chrome pauses requests, each one gets its guard.
LEMMA AskType ==
  ASSUME FetchInv, NEW hop \in Hops, NEW host \in Hosts, Ask(hop, host),
         pc \in {"navigating", "loading"}, pc' = "loading",
         UNCHANGED <<fetch, url, expired>>
  PROVE  FetchInv'
<1> DEFINE guard == [fetch |-> fetch, hop |-> hop, host |-> host,
                     step |-> "resolving", verdict |-> FALSE]
<1>1. intercepting /\ fetch \in 1 .. MaxFetches
  BY FetcherAssumption DEF FetchInv, TypeOK, GuardsOK
<1>2. /\ requests[hop] = "none"
      /\ requests' = [requests EXCEPT ![hop] = "paused"]
      /\ guards' = guards \cup {guard}
      /\ UNCHANGED <<intercepting, allowed, files, records, kills>>
  BY <1>1 DEF Ask, disk
<1>3. guard \in GuardType
  BY <1>1 DEF GuardType
<1>4. requests \in [Hops -> {"none", "paused", "loaded", "refused"}]
  BY DEF FetchInv, TypeOK
<1>5. \A g \in guards : g.fetch = fetch => g.hop # hop
  BY <1>2 DEF FetchInv, TypeOK
<1>6. /\ \A g \in guards' : g.fetch = fetch => requests'[g.hop] = "paused"
      /\ \A f, g \in guards' : f.fetch = g.fetch /\ f.hop = g.hop => f = g
  <2>1. \A g \in guards : g.fetch = fetch => requests[g.hop] = "paused" /\ g.hop \in Hops
    BY DEF FetchInv, TypeOK, GuardType
  <2>2. \A f, g \in guards : f.fetch = g.fetch /\ f.hop = g.hop => f = g
    BY DEF FetchInv, TypeOK
  <2>3. guard.fetch = fetch /\ guard.hop = hop
    OBVIOUS
  <2> HIDE DEF guard
  <2>4. QED
    BY <1>2, <1>4, <1>5, <2>1, <2>2, <2>3
<1> HIDE DEF guard
<1>7. TypeOK'
  BY <1>2, <1>3, <1>4, <1>6 DEF FetchInv, TypeOK, Asking
<1>8. GuardsOK'
  BY <1>1, <1>2, FetcherAssumption DEF FetchInv, GuardsOK, TypeOK, guard
<1>9. LoadedWasAllowed'
  BY <1>2, <1>4 DEF FetchInv, LoadedWasAllowed
<1>10. QED
  BY <1>7, <1>8, <1>9 DEF FetchInv

\* A guard that has its verdict is still the guard of its request.
LEMMA ResolveType ==
  ASSUME FetchInv, NEW g \in guards, Resolve(g)
  PROVE  FetchInv'
<1>1. PICK verdict \in BOOLEAN :
        guards' = (guards \ {g}) \cup {[g EXCEPT !.step = "answering", !.verdict = verdict]}
  <2>1. \A host, done : Verdicts(host, done) \subseteq BOOLEAN
    BY DEF Verdicts, ValidateFetchURL
  <2>2. PICK done \in {TRUE, Orphan(g)} : \E verdict \in Verdicts(g.host, done) :
          guards' = (guards \ {g}) \cup {[g EXCEPT !.step = "answering", !.verdict = verdict]}
    BY Zenon DEF Resolve
  <2>3. Verdicts(g.host, done) \subseteq BOOLEAN
    BY <2>1
  <2>4. QED
    BY <2>2, <2>3
<1>2. UNCHANGED <<pc, fetch, url, expired, intercepting, requests, allowed,
                  files, records, kills>>
  BY DEF Resolve, disk
<1> DEFINE h == [g EXCEPT !.step = "answering", !.verdict = verdict]
<1>3. g \in GuardType
  BY DEF FetchInv, TypeOK
<1>4. h \in GuardType /\ h.fetch = g.fetch /\ h.hop = g.hop
  BY <1>3 DEF GuardType
<1> HIDE DEF h
<1>5. guards' = (guards \ {g}) \cup {h}
  BY <1>1 DEF h
<1>6. /\ \A f \in guards' : f.fetch = fetch => requests[f.hop] = "paused"
      /\ \A e, f \in guards' : e.fetch = f.fetch /\ e.hop = f.hop => e = f
  BY <1>4, <1>5 DEF FetchInv, TypeOK
<1>7. TypeOK'
  BY <1>2, <1>4, <1>5, <1>6 DEF FetchInv, TypeOK
<1>8. GuardsOK'
  BY <1>2, <1>4, <1>5 DEF FetchInv, GuardsOK
<1>9. LoadedWasAllowed'
  BY <1>2 DEF FetchInv, LoadedWasAllowed
<1>10. QED
  BY <1>7, <1>8, <1>9 DEF FetchInv

\* A guard that answers is the only one of its request.
LEMMA AnswerType ==
  ASSUME FetchInv, NEW g \in guards, Mute(g) \/ Answer(g)
  PROVE  FetchInv'
<1>1. /\ guards' = guards \ {g}
      /\ UNCHANGED <<pc, fetch, url, expired, intercepting, files, records, kills>>
  BY DEF Mute, Answer, disk
<1>2. g \in GuardType /\ g.hop \in Hops
  BY DEF FetchInv, TypeOK, GuardType
<1>3. requests \in [Hops -> {"none", "paused", "loaded", "refused"}]
  BY DEF FetchInv, TypeOK
<1>4. GuardsOK'
  BY <1>1 DEF FetchInv, GuardsOK
<1>5. CASE Mute(g)
  <2>1. requests' = requests /\ allowed' = allowed
    BY <1>5 DEF Mute
  <2>2. TypeOK' /\ LoadedWasAllowed'
    BY <1>1, <2>1 DEF FetchInv, TypeOK, LoadedWasAllowed
  <2>3. QED
    BY <1>4, <2>2 DEF FetchInv
<1>6. CASE Answer(g)
  <2>1. /\ g.fetch = fetch
        /\ requests' = [requests EXCEPT ![g.hop] = IF g.verdict THEN "loaded" ELSE "refused"]
        /\ allowed' = IF g.verdict THEN allowed \cup {g.hop} ELSE allowed
    BY <1>6 DEF Answer, Orphan
  <2>2. \A f \in guards' : f.fetch = fetch => requests'[f.hop] = "paused"
    <3> SUFFICES ASSUME NEW f \in guards', f.fetch = fetch
                 PROVE  requests'[f.hop] = "paused"
      OBVIOUS
    <3>1. f \in guards /\ f # g /\ requests[f.hop] = "paused" /\ f.hop \in Hops
      BY <1>1 DEF FetchInv, TypeOK, GuardType
    <3>2. f.hop # g.hop
      BY <2>1, <3>1 DEF FetchInv, TypeOK
    <3>3. QED
      BY <1>2, <1>3, <2>1, <3>1, <3>2
  <2>3. requests' \in [Hops -> {"none", "paused", "loaded", "refused"}]
        /\ allowed' \subseteq Hops
    BY <1>2, <1>3, <2>1 DEF FetchInv, TypeOK
  <2>4. TypeOK'
    BY <1>1, <2>2, <2>3 DEF FetchInv, TypeOK
  <2>5. LoadedWasAllowed'
    BY <1>2, <1>3, <2>1 DEF FetchInv, LoadedWasAllowed
  <2>6. QED
    BY <1>4, <2>4, <2>5 DEF FetchInv
<1>7. QED
  BY <1>5, <1>6

\* Every step keeps what is said of requests and guards.
LEMMA NextFetch == FetchInv /\ [Next]_vars => FetchInv'
<1> SUFFICES ASSUME FetchInv, [Next]_vars PROVE FetchInv'
  OBVIOUS
<1>1. TypeOK /\ GuardsOK /\ LoadedWasAllowed
  BY DEF FetchInv
<1>2. CASE Call
  BY <1>2, CallType
<1>3. CASE Expire \/ UNCHANGED vars
  <2>1. UNCHANGED <<pc, fetch, url, intercepting, requests, guards, files, records, allowed,
                    kills>> /\ expired' \in BOOLEAN
    BY <1>1, <1>3 DEF Expire, vars, page, disk, TypeOK
  <2>2. QED
    BY <1>1, <2>1 DEF FetchInv, TypeOK, GuardsOK, LoadedWasAllowed
<1>4. CASE Validate \/ MkdirAll \/ Enable \/ Loaded \/ Read \/ CaptureScreenshot \/ Disable
           \/ RunFails
  <2>1. /\ pc # "idle"
        /\ pc' \in {"idle", "preparing", "opening"} \cup Asking
        /\ pc' # "loading"
        /\ intercepting' \in BOOLEAN
        /\ pc' = "navigating" => intercepting'
        /\ UNCHANGED <<fetch, url, expired, requests, guards, files, records, allowed, kills>>
    <3>1. CASE Validate \/ MkdirAll
      BY <1>1, <3>1 DEF Validate, MkdirAll, Goto, page, disk, Asking, TypeOK
    <3>2. CASE Enable \/ Disable
      BY <1>1, <3>2 DEF Enable, Disable, Goto, disk, Asking, TypeOK
    <3>3. CASE Loaded \/ Read \/ CaptureScreenshot \/ RunFails
      BY <1>1, <3>3 DEF Loaded, Read, CaptureScreenshot, RunFails, Goto, page, disk, Asking,
                        TypeOK
    <3>4. QED
      BY <1>4, <3>1, <3>2, <3>3
  <2>2. QED
    BY <1>1, <2>1, PhasesType DEF TypeOK
<1>5. CASE Navigate
  BY <1>1, <1>5, AskType, FetcherAssumption DEF Navigate, Goto, Hosts, Hops, TypeOK
<1>6. CASE PageAsks
  BY <1>6, AskType DEF PageAsks, Hops
<1>7. CASE WriteFile \/ WriteReturns \/ SaveEnrichment
  <2>1. /\ pc # "idle" /\ pc' \in {"idle", "writing", "saving"}
        /\ UNCHANGED <<fetch, url, expired, intercepting, requests, guards, allowed, kills>>
    BY <1>7 DEF WriteFile, WriteReturns, SaveEnrichment, Goto, page
  <2>2. fetch \in 1 .. MaxFetches /\ url \in Urls
    BY <1>1, <2>1, FetcherAssumption DEF TypeOK, GuardsOK
  <2>3. files' \in [Urls -> [fetch : 0 .. MaxFetches, whole : BOOLEAN]]
    <3>1. \/ files' = files
          \/ files' = [files EXCEPT ![url] = [fetch |-> fetch, whole |-> FALSE]]
          \/ files' = [files EXCEPT ![url].whole = TRUE]
      BY <1>7 DEF WriteFile, WriteReturns, SaveEnrichment, page
    <3>2. /\ [fetch |-> fetch, whole |-> FALSE] \in [fetch : 0 .. MaxFetches, whole : BOOLEAN]
          /\ files \in [Urls -> [fetch : 0 .. MaxFetches, whole : BOOLEAN]]
      BY <1>1 DEF TypeOK
    <3>3. QED
      BY <3>1, <3>2
  <2>4. records' \subseteq [fetch : 1 .. MaxFetches, url : Urls]
    BY <1>1, <1>7, <2>2 DEF WriteFile, WriteReturns, SaveEnrichment, TypeOK
  <2>5. QED
    BY <1>1, <2>1, <2>3, <2>4, PhasesType DEF TypeOK, Asking
<1>8. CASE Guard
  BY <1>8, ResolveType, AnswerType DEF Guard
<1>9. CASE Kill
  <2>1. /\ pc # "idle" /\ pc' = "idle" /\ guards' = {} /\ kills' \in 0 .. MaxKills
        /\ UNCHANGED <<fetch, url, expired, intercepting, requests, allowed, files, records>>
    BY <1>1, <1>9, FetcherAssumption DEF Kill, Goto, TypeOK
  <2>2. QED
    BY <1>1, <2>1, PhasesType DEF TypeOK
<1>10. QED
  BY <1>2, <1>3, <1>4, <1>5, <1>6, <1>7, <1>8, <1>9 DEF Next, LocalStep, ChromeStep

-----------------------------------------------------------------------------
(* Screenshots and records *)

\* Every step keeps the pictures of the records.
LEMMA NextPicture == FetchInv /\ PictureInv /\ [Next]_vars => PictureInv'
<1> SUFFICES ASSUME FetchInv, PictureInv, [Next]_vars PROVE PictureInv'
  OBVIOUS
<1>1. /\ fetch \in Nat /\ url \in Urls
      /\ files \in [Urls -> [fetch : 0 .. MaxFetches, whole : BOOLEAN]]
      /\ records \subseteq [fetch : 1 .. MaxFetches, url : Urls]
  BY FetcherAssumption DEF FetchInv, TypeOK
<1>2. /\ \A u \in Urls : files[u].fetch \in Nat
      /\ \A r \in records : r.fetch \in Nat /\ r.url \in Urls
  BY <1>1, FetcherAssumption
<1>3. CASE Call
  <2>1. /\ pc' = "validating" /\ fetch' = fetch + 1
        /\ files' = files /\ records' = records
    BY <1>3 DEF Call, disk
  <2>2. QED
    BY <1>1, <1>2, <2>1 DEF PictureInv, PicturesOK, RecordedPictures
<1>4. CASE /\ files' = files /\ records' = records /\ UNCHANGED <<fetch, url>>
           /\ \/ pc' = pc
              \/ pc # "idle" /\ pc' \notin {"writing", "saving"}
  BY <1>4 DEF PictureInv, PicturesOK, RecordedPictures
<1>5. CASE WriteFile /\ pc' = "writing"
  <2>1. /\ pc = "opening" /\ pc' = "writing" /\ records' = records
        /\ UNCHANGED <<fetch, url>>
        /\ files' = [files EXCEPT ![url] = [fetch |-> fetch, whole |-> FALSE]]
    BY <1>5 DEF WriteFile, Goto
  <2>2. /\ files'[url].fetch = fetch
        /\ \A u \in Urls : u # url => files'[u] = files[u]
    BY <1>1, <2>1
  <2>3. \A r \in records : r.fetch < fetch
    BY <2>1 DEF PictureInv, PicturesOK
  <2>4. RecordedPictures'
    BY <1>1, <1>2, <2>1, <2>2, <2>3 DEF PictureInv, RecordedPictures
  <2>5. PicturesOK'
    BY <1>1, <2>1, <2>2 DEF PictureInv, PicturesOK
  <2>6. QED
    BY <2>4, <2>5 DEF PictureInv
<1>6. CASE WriteReturns
  <2>1. /\ pc = "writing" /\ records' = records /\ UNCHANGED <<fetch, url>>
        /\ \/ pc' = "idle" /\ files' = files
           \/ pc' = "saving" /\ files' = [files EXCEPT ![url].whole = TRUE]
    BY <1>6 DEF WriteReturns, Goto
  <2>2. /\ \A u \in Urls : files'[u].fetch = files[u].fetch
        /\ \A u \in Urls : files[u].whole => files'[u].whole
        /\ pc' = "saving" => files'[url].whole
    BY <1>1, <2>1
  <2>3. QED
    BY <1>1, <1>2, <2>1, <2>2 DEF PictureInv, PicturesOK, RecordedPictures
<1>7. CASE SaveEnrichment
  <2>1. /\ pc = "saving" /\ pc' = "idle" /\ files' = files /\ UNCHANGED <<fetch, url>>
        /\ records' \subseteq records \cup {[fetch |-> fetch, url |-> url]}
    BY <1>7 DEF SaveEnrichment, Goto
  <2>2. QED
    BY <1>1, <1>2, <2>1 DEF PictureInv, PicturesOK, RecordedPictures
<1>8. CASE \/ Validate \/ MkdirAll \/ ChromeStep \/ RunFails \/ Kill
           \/ WriteFile /\ pc' # "writing"
  <2>1. /\ files' = files /\ records' = records /\ UNCHANGED <<fetch, url>>
    BY <1>8 DEF Validate, MkdirAll, ChromeStep, Enable, Navigate, PageAsks, Ask, Loaded, Read,
                CaptureScreenshot, Disable, RunFails, Kill, WriteFile, Goto, page, disk
  <2>2. pc # "idle"
    BY <1>8 DEF Validate, MkdirAll, ChromeStep, Enable, Navigate, PageAsks, Loaded, Read,
                CaptureScreenshot, Disable, RunFails, Kill, WriteFile, Asking
  <2>3. pc' \notin {"writing", "saving"} \/ pc' = pc
    BY <1>8 DEF Validate, MkdirAll, ChromeStep, Enable, Navigate, PageAsks, Loaded, Read,
                CaptureScreenshot, Disable, RunFails, Kill, WriteFile, Goto
  <2>4. QED
    BY <1>4, <2>1, <2>2, <2>3
<1>9. CASE Expire \/ Guard \/ UNCHANGED vars
  <2>1. UNCHANGED <<pc, fetch, url, files, records>>
    BY <1>9 DEF Expire, Guard, Resolve, Mute, Answer, vars, page, disk
  <2>2. QED
    BY <1>4, <2>1
<1>10. QED
  BY <1>3, <1>5, <1>6, <1>7, <1>8, <1>9 DEF Next, LocalStep

-----------------------------------------------------------------------------
(* Theorems *)

\* Both parts hold in every reachable state.
LEMMA FetchInvariant == Spec => [](FetchInv /\ PictureInv)
BY InitFetch, NextFetch, NextPicture, PTL DEF Spec

\* Types, and that a paused request has one guard, of its own fetch.
THEOREM FetcherTypeCorrect == Spec => []TypeOK
BY FetchInvariant, PTL DEF FetchInv

\* Nothing is read that a guard of this fetch has not let pass.
THEOREM OnlyAllowedIsLoaded == Spec => []LoadedWasAllowed
BY FetchInvariant, PTL DEF FetchInv

\* A recorded picture is there, and whole, unless a later fetch has gone over it.
THEOREM PicturesAreThere == Spec => []RecordedPictures
BY FetchInvariant, PTL DEF PictureInv

-----------------------------------------------------------------------------
(* Induction, for what the operators of Summary compute *)

\* Every set of naturals with something in it has a least element.
LEMMA LeastElement ==
  ASSUME NEW T \in SUBSET Nat, T # {}
  PROVE  \E n \in T : \A m \in T : n <= m
<1> DEFINE Less == {p \in Nat \X Nat : p[1] < p[2]}
<1>1. IsWellFoundedOn(Less, Nat)
  BY NatLessThanWellFounded DEF OpToRel
<1>2. \A n, m \in Nat : m < n => <<m, n>> \in Less
  OBVIOUS
<1> HIDE DEF Less
<1>3. PICK n \in T : \A m \in T : <<m, n>> \notin Less
  BY <1>1, WFMin
<1>4. \A m \in T : ~(m < n)
  BY <1>2, <1>3
<1>5. QED
  BY <1>4

\* Induction, with a set in the place of a predicate.
LEMMA Induction ==
  ASSUME NEW T, 0 \in T, \A n \in Nat : n \in T => n + 1 \in T
  PROVE  \A n \in Nat : n \in T
<1>1. SUFFICES ASSUME Nat \ T # {} PROVE FALSE
  OBVIOUS
<1>2. PICK n \in Nat \ T : \A m \in Nat \ T : n <= m
  BY <1>1, LeastElement
<1>3. n # 0 /\ n - 1 \in Nat /\ n - 1 \in T
  BY <1>2
<1>4. QED
  BY <1>2, <1>3

\* The same over the places of a finite sequence.
LEMMA IntervalInduction ==
  ASSUME NEW n \in Nat, NEW T, n >= 1 => 1 \in T, \A i \in 1 .. n - 1 : i \in T => i + 1 \in T
  PROVE  \A i \in 1 .. n : i \in T
<1> DEFINE U == {i \in Nat : i + 1 \in 1 .. n => i + 1 \in T}
<1>1. 0 \in U
  OBVIOUS
<1>2. \A i \in Nat : i \in U => i + 1 \in U
  OBVIOUS
<1> HIDE DEF U
<1>3. \A i \in Nat : i \in U
  BY <1>1, <1>2, Induction
<1>4. QED
  BY <1>3 DEF U


\* What is kept of a text of any length.
Cut(text, limit) == SubSeq(text, 1, IF Len(text) < limit THEN Len(text) ELSE limit)

\* Its length and its characters.
LEMMA CutProperties ==
  ASSUME NEW S, NEW text \in Seq(S), NEW limit \in Nat
  PROVE  /\ Cut(text, limit) \in Seq(S)
         /\ Len(Cut(text, limit)) = IF Len(text) < limit THEN Len(text) ELSE limit
         /\ \A i \in 1 .. Len(Cut(text, limit)) : Cut(text, limit)[i] = text[i]
<1> DEFINE n == IF Len(text) < limit THEN Len(text) ELSE limit
<1>1. n \in Int /\ n >= 0 /\ n <= Len(text)
  BY LenProperties
<1>2. \A i \in 1 .. n : text[i] \in S
  BY <1>1, ElementOfSeq
<1>3. Cut(text, limit) = SubSeq(text, 1, n)
  BY DEF Cut
<1> HIDE DEF n
<1>4. /\ SubSeq(text, 1, n) \in Seq(S)
      /\ Len(SubSeq(text, 1, n)) = IF 1 <= n THEN n - 1 + 1 ELSE 0
      /\ \A i \in 1 .. n - 1 + 1 : SubSeq(text, 1, n)[i] = text[1 + i - 1]
  BY <1>1, <1>2, SubSeqProperties
<1>5. Len(SubSeq(text, 1, n)) = n
  BY <1>1, <1>4
<1>6. \A i \in 1 .. n : SubSeq(text, 1, n)[i] = text[i]
  BY <1>1, <1>4
<1>7. QED
  BY <1>3, <1>4, <1>5, <1>6 DEF n

\* A character is appended to a text that is cut as the loop does it.
LEMMA CutAppend ==
  ASSUME NEW S, NEW text \in Seq(S), NEW ch \in S, NEW limit \in Nat
  PROVE  Cut(Append(text, ch), limit)
           = IF Len(Cut(text, limit)) < limit THEN Append(Cut(text, limit), ch)
             ELSE Cut(text, limit)
<1> DEFINE longer == Append(text, ch)
           cut == Cut(text, limit)
           next == IF Len(cut) < limit THEN Append(cut, ch) ELSE cut
<1>1. /\ longer \in Seq(S) /\ Len(longer) = Len(text) + 1 /\ Len(text) \in Nat
      /\ \A i \in 1 .. Len(text) : longer[i] = text[i]
      /\ longer[Len(text) + 1] = ch
  BY AppendProperties, LenProperties
<1>2. /\ cut \in Seq(S)
      /\ Len(cut) = IF Len(text) < limit THEN Len(text) ELSE limit
      /\ \A i \in 1 .. Len(cut) : cut[i] = text[i]
  BY CutProperties
<1>3. /\ Append(cut, ch) \in Seq(S) /\ Len(Append(cut, ch)) = Len(cut) + 1
      /\ \A i \in 1 .. Len(cut) : Append(cut, ch)[i] = cut[i]
      /\ Append(cut, ch)[Len(cut) + 1] = ch
  BY <1>2, AppendProperties
<1>4. /\ Cut(longer, limit) \in Seq(S)
      /\ Len(Cut(longer, limit)) = IF Len(longer) < limit THEN Len(longer) ELSE limit
      /\ \A i \in 1 .. Len(Cut(longer, limit)) : Cut(longer, limit)[i] = longer[i]
  BY <1>1, CutProperties
<1> HIDE DEF longer, cut
<1>5. Len(Cut(longer, limit)) = Len(next) /\ next \in Seq(S)
  BY <1>1, <1>2, <1>3, <1>4
<1>6. ASSUME NEW i \in 1 .. Len(Cut(longer, limit)) PROVE Cut(longer, limit)[i] = next[i]
  BY <1>1, <1>2, <1>3, <1>4
<1>7. Cut(longer, limit) = next
  BY <1>4, <1>5, <1>6, SeqEqual
<1>8. QED
  BY <1>7 DEF longer, cut

\* Texts that are joined may be grouped in any way.
LEMMA Regrouped ==
  ASSUME NEW S, NEW base \in Seq(S)
  PROVE  \A s, t \in Seq(S) : base \o (s \o t) = (base \o s) \o t
<1>1. ASSUME NEW s \in Seq(S), NEW t \in Seq(S)
      PROVE  (base \o s) \o t = base \o (s \o t)
  BY ConcatAssociative, SMT
<1>2. QED
  BY <1>1

\* A text grows by the next character.
LEMMA PrefixAppend ==
  ASSUME NEW S, NEW base \in Seq(S), NEW node \in Seq(S), NEW i \in 0 .. Len(node) - 1
  PROVE  /\ base \o SubSeq(node, 1, i) \in Seq(S)
         /\ base \o SubSeq(node, 1, i + 1)
              = Append(base \o SubSeq(node, 1, i), node[i + 1])
<1>1. Len(node) \in Nat /\ \A j \in 1 .. Len(node) : node[j] \in S
  BY LenProperties, ElementOfSeq
<1>2. SubSeq(node, 1, i) \in Seq(S)
  <2>1. \A j \in 1 .. i : node[j] \in S
    BY <1>1
  <2>2. i \in Int /\ 1 \in Int
    BY <1>1
  <2>3. QED
    BY <2>1, <2>2, SubSeqProperties
<1>3. i + 1 \in 1 .. Len(node) /\ 1 \in 1 .. Len(node) /\ (i + 1) - 1 = i
      /\ i + 1 \in 1 .. Len(node)
  BY <1>1
<1>4. SubSeq(node, 1, i + 1) = SubSeq(node, 1, i) \o <<node[i + 1]>>
  <2> DEFINE n == i + 1
  <2>1. SubSeq(node, 1, n) = SubSeq(node, 1, n - 1) \o <<node[n]>>
    BY <1>3, SubSeqRecursiveSecond
  <2>2. QED
    BY <1>3, <2>1
<1>5. <<node[i + 1]>> \in Seq(S) /\ node[i + 1] \in S
  BY <1>1, <1>3
<1>6. base \o SubSeq(node, 1, i) \in Seq(S)
  BY <1>2, ConcatProperties
<1>7. base \o (SubSeq(node, 1, i) \o <<node[i + 1]>>)
        = (base \o SubSeq(node, 1, i)) \o <<node[i + 1]>>
  BY <1>2, <1>5, Regrouped
<1>8. Append(base \o SubSeq(node, 1, i), node[i + 1])
        = (base \o SubSeq(node, 1, i)) \o <<node[i + 1]>>
  BY <1>5, <1>6, AppendIsConcat
<1>9. QED
  BY <1>4, <1>6, <1>7, <1>8

\* The walk over a node's characters.
LEMMA CollectIsCut ==
  ASSUME NEW S, NEW base \in Seq(S), NEW node \in Seq(S), NEW limit \in Nat
  PROVE  Collect(Cut(base, limit), node, limit) = Cut(base \o node, limit)
<1> DEFINE n == Len(node)
           out == Cut(base, limit)
           Step(x, ch) == IF Len(x) < limit THEN Append(x, ch) ELSE x
           Walk(f) == f = [i \in 0 .. n |-> IF i = 0 THEN out ELSE Step(f[i - 1], node[i])]
           text == CHOOSE f : Walk(f)
           cut == [i \in 0 .. n |-> Cut(base \o SubSeq(node, 1, i), limit)]
           T == {i \in Nat : i <= n => text[i] = cut[i]}
<1>1. n \in Nat /\ \A i \in 1 .. n : node[i] \in S
  BY LenProperties, ElementOfSeq
<1>2. cut[0] = out
  <2>1. SubSeq(node, 1, 0) = <<>>
    BY SubSeqEmpty
  <2>2. base \o <<>> = base
    BY ConcatEmptySeq
  <2>3. 0 \in 0 .. n
    BY <1>1
  <2>4. cut[0] = Cut(base \o SubSeq(node, 1, 0), limit)
    BY <2>3, Zenon
  <2>5. QED
    BY <2>1, <2>2, <2>4, Zenon
<1>3. ASSUME NEW i \in 1 .. n PROVE cut[i] = Step(cut[i - 1], node[i])
  <2> DEFINE j == i - 1
  <2>1. j \in 0 .. n - 1 /\ j + 1 = i /\ i \in 0 .. n /\ j \in 0 .. n
    BY <1>1
  <2> HIDE DEF j
  <2>2. /\ base \o SubSeq(node, 1, j) \in Seq(S)
        /\ base \o SubSeq(node, 1, j + 1) = Append(base \o SubSeq(node, 1, j), node[j + 1])
    BY <2>1, PrefixAppend
  <2>3. Cut(base \o SubSeq(node, 1, j + 1), limit)
          = Step(Cut(base \o SubSeq(node, 1, j), limit), node[i])
    <3> DEFINE prefix == base \o SubSeq(node, 1, j)
               longer == base \o SubSeq(node, 1, j + 1)
    <3>1. prefix \in Seq(S) /\ node[i] \in S /\ longer = Append(prefix, node[i])
      BY <1>1, <2>1, <2>2
    <3> HIDE DEF prefix, longer
    <3>2. Cut(longer, limit) = Step(Cut(prefix, limit), node[i])
      BY <3>1, CutAppend
    <3>3. QED
      BY <3>2 DEF prefix, longer
  <2>4. cut[j + 1] = Step(cut[j], node[i])
    BY <2>1, <2>3
  <2>5. QED
    BY <2>1, <2>4 DEF j
<1> HIDE DEF Step, out
<1>4. Walk(cut)
  <2>1. ASSUME NEW i \in 0 .. n
        PROVE  cut[i] = IF i = 0 THEN out ELSE Step(cut[i - 1], node[i])
    <3> HIDE DEF cut
    <3>1. i # 0 => i \in 1 .. n
      BY <1>1
    <3>2. QED
      BY <1>2, <1>3, <3>1
  <2>2. DOMAIN cut = 0 .. n /\ cut = [i \in 0 .. n |-> cut[i]]
    OBVIOUS
  <2> HIDE DEF cut
  <2>3. QED
    BY <2>1, <2>2
<1>5. Walk(text)
  BY <1>4, Zenon
<1>6. Collect(Cut(base, limit), node, limit) = text[n]
  BY DEF Collect, Step, out
<1> HIDE DEF cut, text
<1>7. 0 \in T
  BY <1>1, <1>2, <1>5
<1>8. ASSUME NEW i \in Nat, i \in T PROVE i + 1 \in T
  <2>1. CASE i + 1 <= n
    <3>1. i + 1 \in 0 .. n /\ i + 1 # 0 /\ (i + 1) - 1 = i /\ i + 1 \in 1 .. n /\ i <= n
      BY <1>1, <2>1
    <3>2. text[i + 1] = Step(text[i], node[i + 1])
      BY <1>5, <3>1
    <3>3. cut[i + 1] = Step(cut[i], node[i + 1])
      BY <1>3, <3>1
    <3>4. QED
      BY <1>8, <3>1, <3>2, <3>3
  <2>2. CASE ~(i + 1 <= n)
    BY <2>2
  <2>3. QED
    BY <2>1, <2>2
<1> HIDE DEF T
<1>9. n \in T
  BY <1>1, <1>7, <1>8, Induction
<1>10. text[n] = cut[n]
  BY <1>1, <1>9 DEF T
<1>11. cut[n] = Cut(base \o node, limit)
  <2>1. n \in 0 .. n /\ SubSeq(node, 1, n) = node
    BY <1>1, SubSeqFull
  <2>2. cut[n] = Cut(base \o SubSeq(node, 1, n), limit)
    BY <2>1, Zenon DEF cut
  <2> HIDE DEF n
  <2>3. QED
    BY <2>1, <2>2
<1>12. QED
  BY <1>6, <1>10, <1>11

\* The text of the first i nodes is that of the nodes before the last, and the last.
Flattens(f, nodes, m) ==
  \A i \in 1 .. m : f[i] = IF i = 1 THEN nodes[i] ELSE f[i - 1] \o nodes[i]

\* There are such texts.
LEMMA FlatteningExists ==
  ASSUME NEW S, NEW nodes \in Seq(Seq(S))
  PROVE  \E f \in [1 .. Len(nodes) -> Seq(S)] : Flattens(f, nodes, Len(nodes))
<1> DEFINE n == Len(nodes)
           T == {m \in Nat : m <= n => \E f \in [1 .. m -> Seq(S)] : Flattens(f, nodes, m)}
<1>1. n \in Nat /\ \A i \in 1 .. n : nodes[i] \in Seq(S)
  BY LenProperties, ElementOfSeq
<1>2. 0 \in T
  <2>1. [i \in 1 .. 0 |-> <<>>] \in [1 .. 0 -> Seq(S)]
    OBVIOUS
  <2>2. Flattens([i \in 1 .. 0 |-> <<>>], nodes, 0)
    BY DEF Flattens
  <2>3. QED
    BY <2>1, <2>2
<1>3. ASSUME NEW m \in Nat, m \in T PROVE m + 1 \in T
  <2>1. SUFFICES ASSUME m + 1 <= n
                 PROVE  \E g \in [1 .. m + 1 -> Seq(S)] : Flattens(g, nodes, m + 1)
    OBVIOUS
  <2>2. PICK f \in [1 .. m -> Seq(S)] : Flattens(f, nodes, m)
    BY <1>1, <1>3, <2>1
  <2> DEFINE last == IF m = 0 THEN nodes[1] ELSE f[m] \o nodes[m + 1]
             g == [i \in 1 .. m + 1 |-> IF i = m + 1 THEN last ELSE f[i]]
  <2>3. last \in Seq(S)
    <3>1. nodes[m + 1] \in Seq(S) /\ (m = 0 => nodes[1] \in Seq(S))
          /\ (m # 0 => f[m] \in Seq(S))
      BY <1>1, <2>1
    <3>2. m # 0 => f[m] \o nodes[m + 1] \in Seq(S)
      BY <3>1, ConcatProperties
    <3>3. QED
      BY <3>1, <3>2
  <2> HIDE DEF last
  <2>4. g \in [1 .. m + 1 -> Seq(S)]
    BY <2>3
  <2>5. Flattens(g, nodes, m + 1)
    <3>1. ASSUME NEW i \in 1 .. m + 1
          PROVE  g[i] = IF i = 1 THEN nodes[i] ELSE g[i - 1] \o nodes[i]
      <4>1. CASE i = m + 1
        BY <4>1 DEF last
      <4>2. CASE i # m + 1
        <5>1. i \in 1 .. m /\ (i # 1 => i - 1 \in 1 .. m + 1 /\ i - 1 # m + 1)
          BY <4>2
        <5>2. QED
          BY <2>2, <4>2, <5>1 DEF Flattens
      <4>3. QED
        BY <4>1, <4>2
    <3> HIDE DEF g
    <3>2. QED
      BY <3>1 DEF Flattens
  <2> HIDE DEF g
  <2>6. QED
    BY <2>4, <2>5
<1> HIDE DEF T
<1>4. n \in T
  BY <1>1, <1>2, <1>3, Induction
<1>5. QED
  BY <1>1, <1>4 DEF T

\* What FlattenSeq computes.
LEMMA FlattenSeqFlattens ==
  ASSUME NEW S, NEW nodes \in Seq(Seq(S)), nodes # <<>>
  PROVE  \E f \in [1 .. Len(nodes) -> Seq(S)] :
           Flattens(f, nodes, Len(nodes)) /\ FlattenSeq(nodes) = f[Len(nodes)]
<1> DEFINE n == Len(nodes)
           Rounds(f) == f = [i \in 1 .. n |-> IF i = 1 THEN nodes[i] ELSE f[i - 1] \o nodes[i]]
           flatten == CHOOSE f : Rounds(f)
           T == {i \in 1 .. n : flatten[i] \in Seq(S)}
<1>1. n \in Nat \ {0} /\ \A i \in 1 .. n : nodes[i] \in Seq(S)
  BY LenProperties, ElementOfSeq, EmptySeq
<1>2. \E f : Rounds(f)
  <2>1. PICK f \in [1 .. n -> Seq(S)] : Flattens(f, nodes, n)
    BY FlatteningExists
  <2>2. Rounds(f)
    BY <2>1 DEF Flattens
  <2>3. QED
    BY <2>2
<1>3. Rounds(flatten)
  BY <1>2, Zenon
<1>4. FlattenSeq(nodes) = flatten[n]
  BY <1>1 DEF FlattenSeq
<1> HIDE DEF flatten
<1>5. 1 \in T
  BY <1>1, <1>3
<1>6. ASSUME NEW i \in 1 .. n - 1, i \in T PROVE i + 1 \in T
  <2>1. i + 1 \in 1 .. n /\ i + 1 # 1 /\ (i + 1) - 1 = i /\ flatten[i] \in Seq(S)
    BY <1>6
  <2>2. flatten[i + 1] = flatten[i] \o nodes[i + 1]
    BY <1>3, <2>1
  <2>3. flatten[i] \o nodes[i + 1] \in Seq(S)
    BY <1>1, <2>1, ConcatProperties
  <2>4. QED
    BY <2>1, <2>2, <2>3
<1> HIDE DEF T, n
<1>7. \A i \in 1 .. n : i \in T
  BY <1>1, <1>5, <1>6, IntervalInduction
<1>8. flatten \in [1 .. n -> Seq(S)] /\ Flattens(flatten, nodes, n)
  BY <1>3, <1>7 DEF Flattens, T
<1>9. QED
  BY <1>4, <1>8 DEF n

\* The script collects the beginning of the page's text.
LEMMA BodyTextIsCut ==
  ASSUME NEW S, NEW nodes \in Seq(Seq(S)), NEW limit \in Nat
  PROVE  /\ FlattenSeq(nodes) \in Seq(S)
         /\ BoundedBodyText(nodes, limit) = Cut(FlattenSeq(nodes), limit)
<1> DEFINE n == Len(nodes)
           Walk(f) == f = [k \in 0 .. n |-> IF k = 0 THEN <<>>
                                            ELSE Collect(f[k - 1], nodes[k], limit)]
           out == CHOOSE f : Walk(f)
<1>1. n \in Nat /\ \A i \in 1 .. n : nodes[i] \in Seq(S)
  BY LenProperties, ElementOfSeq
<1>2. BoundedBodyText(nodes, limit) = out[n]
  BY DEF BoundedBodyText
<1>3. <<>> \in Seq(S) /\ Len(<<>>) = 0 /\ Cut(<<>>, limit) = <<>>
  <2>1. PICK e \in Seq(S) : e = <<>> /\ Len(e) = 0
    BY EmptySeq
  <2>2. Cut(e, limit) \in Seq(S) /\ Len(Cut(e, limit)) = 0
    <3>1. /\ Cut(e, limit) \in Seq(S)
          /\ Len(Cut(e, limit)) = IF Len(e) < limit THEN Len(e) ELSE limit
      BY CutProperties
    <3>2. (IF Len(e) < limit THEN Len(e) ELSE limit) = 0
      BY <2>1
    <3>3. QED
      BY <3>1, <3>2, Zenon
  <2>3. Cut(e, limit) = <<>>
    BY <2>2, EmptySeq
  <2>4. QED
    BY <2>1, <2>3, Zenon
<1>4. \E f \in [0 .. n -> Seq(S)] :
        /\ f[0] = <<>> /\ f[n] = FlattenSeq(nodes)
        /\ \A k \in 1 .. n : f[k] = f[k - 1] \o nodes[k]
  <2>1. CASE nodes = <<>>
    <3>1. n = 0 /\ FlattenSeq(nodes) = <<>>
      BY <1>3, <2>1 DEF FlattenSeq
    <3> DEFINE g == [k \in 0 .. n |-> <<>>]
    <3>2. g \in [0 .. n -> Seq(S)]
      BY <1>3
    <3>3. g[0] = <<>> /\ g[n] = FlattenSeq(nodes)
      BY <3>1
    <3>4. \A k \in 1 .. n : FALSE
      BY <3>1
    <3> HIDE DEF g, n
    <3>5. QED
      BY <3>2, <3>3, <3>4, Zenon
  <2>2. CASE nodes # <<>>
    <3>1. PICK f \in [1 .. n -> Seq(S)] :
            Flattens(f, nodes, n) /\ FlattenSeq(nodes) = f[n]
      BY <2>2, FlattenSeqFlattens
    <3>2. n # 0
      BY <1>1, <2>2, EmptySeq
    <3> DEFINE g == [k \in 0 .. n |-> IF k = 0 THEN <<>> ELSE f[k]]
    <3>3. g \in [0 .. n -> Seq(S)]
      BY <1>1, <1>3
    <3>4. g[0] = <<>> /\ g[n] = FlattenSeq(nodes)
      BY <1>1, <3>1, <3>2
    <3>5. ASSUME NEW k \in 1 .. n PROVE g[k] = g[k - 1] \o nodes[k]
      <4>1. /\ k - 1 \in 0 .. n /\ k \in 0 .. n /\ k # 0
            /\ k = 1 => k - 1 = 0
            /\ k # 1 => k - 1 # 0
        BY <1>1
      <4>2. /\ g[k] = f[k]
            /\ k = 1 => g[k - 1] = <<>>
            /\ k # 1 => g[k - 1] = f[k - 1]
        BY <4>1
      <4>3. f[k] = IF k = 1 THEN nodes[k] ELSE f[k - 1] \o nodes[k]
        BY <3>1 DEF Flattens
      <4>4. <<>> \o nodes[k] = nodes[k]
        BY <1>1, ConcatEmptySeq
      <4> HIDE DEF g
      <4>5. QED
        BY <4>2, <4>3, <4>4
    <3> HIDE DEF g
    <3>6. QED
      BY <3>3, <3>4, <3>5
  <2>3. QED
    BY <2>1, <2>2
<1>5. PICK flat \in [0 .. n -> Seq(S)] :
        /\ flat[0] = <<>> /\ flat[n] = FlattenSeq(nodes)
        /\ \A k \in 1 .. n : flat[k] = flat[k - 1] \o nodes[k]
  BY <1>4
<1> DEFINE cut == [k \in 0 .. n |-> Cut(flat[k], limit)]
           T == {k \in Nat : k <= n => out[k] = cut[k]}
<1>6. cut[0] = <<>>
  BY <1>1, <1>3, <1>5
<1>7. ASSUME NEW k \in 1 .. n PROVE cut[k] = Collect(cut[k - 1], nodes[k], limit)
  <2>1. k - 1 \in 0 .. n /\ k \in 0 .. n /\ nodes[k] \in Seq(S)
    BY <1>1
  <2>2. flat[k - 1] \in Seq(S)
    BY <2>1
  <2>3. Collect(Cut(flat[k - 1], limit), nodes[k], limit)
          = Cut(flat[k - 1] \o nodes[k], limit)
    BY <2>1, <2>2, CollectIsCut
  <2>4. QED
    BY <1>5, <2>1, <2>3
<1> HIDE DEF cut
<1>8. Walk(cut)
  <2>1. ASSUME NEW k \in 0 .. n
        PROVE  cut[k] = IF k = 0 THEN <<>> ELSE Collect(cut[k - 1], nodes[k], limit)
    <3>1. k # 0 => k \in 1 .. n
      BY <1>1
    <3>2. QED
      BY <1>6, <1>7, <3>1
  <2>2. cut = [k \in 0 .. n |-> cut[k]]
    BY DEF cut
  <2>3. QED
    BY <2>1, <2>2
<1>9. Walk(out)
  BY <1>8, Zenon
<1> HIDE DEF out
<1>10. 0 \in T
  BY <1>1, <1>6, <1>9
<1>11. ASSUME NEW k \in Nat, k \in T PROVE k + 1 \in T
  <2>1. CASE k + 1 <= n
    <3>1. k + 1 \in 0 .. n /\ k + 1 # 0 /\ (k + 1) - 1 = k /\ k + 1 \in 1 .. n /\ k <= n
      BY <1>1, <2>1
    <3>2. out[k + 1] = Collect(out[k], nodes[k + 1], limit)
      BY <1>9, <3>1
    <3>3. cut[k + 1] = Collect(cut[k], nodes[k + 1], limit)
      BY <1>7, <3>1
    <3>4. QED
      BY <1>11, <3>1, <3>2, <3>3
  <2>2. CASE ~(k + 1 <= n)
    BY <2>2
  <2>3. QED
    BY <2>1, <2>2
<1> HIDE DEF T
<1>12. n \in T
  BY <1>1, <1>10, <1>11, Induction
<1>13. out[n] = cut[n] /\ n \in 0 .. n
  BY <1>1, <1>12 DEF T
<1>14. cut[n] = Cut(FlattenSeq(nodes), limit) /\ FlattenSeq(nodes) \in Seq(S)
  BY <1>5, <1>13 DEF cut
<1>15. QED
  BY <1>2, <1>13, <1>14

\* Trimming does not lengthen a text.
LEMMA TrimShortens ==
  ASSUME NEW S, NEW text \in Seq(S)
  PROVE  TrimSpace(text) \in Seq(S) /\ Len(TrimSpace(text)) <= Len(text)
<1> DEFINE inked == {i \in DOMAIN text : text[i] # Space}
           first == CHOOSE i \in inked : \A j \in inked : i <= j
           last == CHOOSE i \in inked : \A j \in inked : i >= j
<1>1. /\ DOMAIN text = 1 .. Len(text) /\ Len(text) \in Nat
      /\ \A i \in 1 .. Len(text) : text[i] \in S
  BY LenProperties, ElementOfSeq
<1>2. inked \subseteq 1 .. Len(text)
  BY <1>1
<1>3. CASE inked = {}
  <2>1. TrimSpace(text) = <<>>
    BY <1>3 DEF TrimSpace
  <2>2. <<>> \in Seq(S) /\ Len(<<>>) = 0
    BY EmptySeq
  <2>3. QED
    BY <1>1, <2>1, <2>2
<1>4. CASE inked # {}
  <2>1. TrimSpace(text) = SubSeq(text, first, last)
    BY <1>4 DEF TrimSpace
  <2> HIDE DEF inked
  <2>2. first \in inked
    <3>1. inked \in SUBSET Nat
      BY <1>1, <1>2
    <3>2. \E i \in inked : \A j \in inked : i <= j
      BY <1>4, <3>1, LeastElement
    <3>3. QED
      BY <3>2, Zenon
  <2>3. last \in inked
    <3> DEFINE behind == {k \in Nat : Len(text) - k \in inked}
    <3>1. behind # {}
      <4>1. PICK i \in inked : TRUE
        BY <1>4
      <4>2. i \in Nat /\ Len(text) - i \in Nat /\ Len(text) - (Len(text) - i) = i
        BY <1>1, <1>2
      <4>3. Len(text) - i \in behind
        BY <4>2
      <4>4. QED
        BY <4>3
    <3>2. PICK k \in behind : \A m \in behind : k <= m
      BY <3>1, LeastElement
    <3>3. ASSUME NEW j \in inked PROVE Len(text) - k >= j
      <4>1. j \in Nat /\ Len(text) - j \in Nat /\ Len(text) - (Len(text) - j) = j
        BY <1>1, <1>2
      <4>2. Len(text) - j \in behind
        BY <4>1
      <4>3. k \in Nat
        OBVIOUS
      <4> HIDE DEF behind
      <4>4. k <= Len(text) - j
        BY <3>2, <4>2
      <4>5. QED
        BY <1>1, <4>1, <4>3, <4>4
    <3>4. \E i \in inked : \A j \in inked : i >= j
      BY <3>2, <3>3
    <3>5. QED
      BY <3>4, Zenon
  <2> HIDE DEF first, last
  <2>4. /\ first \in Int /\ last \in Int /\ first >= 1 /\ last <= Len(text)
        /\ \A i \in first .. last : text[i] \in S
    BY <1>1, <1>2, <2>2, <2>3
  <2>5. /\ SubSeq(text, first, last) \in Seq(S)
        /\ Len(SubSeq(text, first, last)) = IF first <= last THEN last - first + 1 ELSE 0
    BY <2>4, SubSeqProperties
  <2>6. QED
    BY <1>1, <2>1, <2>4, <2>5
<1>5. QED
  BY <1>3, <1>4

-----------------------------------------------------------------------------
(* The summary *)

\* The summary of every page is the beginning of its text, of the configured length or
\* the default one: whatever the nodes, and whatever characters there are
\* (browser.go:99-117, 195-214, 278).
THEOREM EverySummaryIsBeginning ==
  ASSUME NEW S, NEW nodes \in Seq(Seq(S)), NEW maxChars \in Int
  PROVE  PageSummary(nodes, maxChars) = Beginning(nodes, EffectiveSummaryLimit(maxChars))
<1> DEFINE limit == EffectiveSummaryLimit(maxChars)
           text == FlattenSeq(nodes)
<1>1. limit \in Nat \ {0}
  BY DEF EffectiveSummaryLimit
<1> HIDE DEF limit
<1>2. text \in Seq(S) /\ BoundedBodyText(nodes, limit) = Cut(text, limit)
  BY <1>1, BodyTextIsCut
<1> HIDE DEF text
<1>3. /\ Cut(text, limit) \in Seq(S)
      /\ Len(Cut(text, limit)) = IF Len(text) < limit THEN Len(text) ELSE limit
  BY <1>1, <1>2, CutProperties
<1>4. /\ TrimSpace(Cut(text, limit)) \in Seq(S)
      /\ Len(TrimSpace(Cut(text, limit))) <= Len(Cut(text, limit))
  BY <1>3, TrimShortens
<1>5. Len(TrimSpace(Cut(text, limit))) <= limit
  BY <1>1, <1>2, <1>3, <1>4, LenProperties
<1>6. TrimSummary(Cut(text, limit), limit) = TrimSpace(Cut(text, limit))
  BY <1>1, <1>5 DEF TrimSummary
<1>7. PageSummary(nodes, maxChars) = TrimSummary(BoundedBodyText(nodes, limit), limit)
  BY DEF PageSummary, limit
<1>8. Beginning(nodes, limit) = TrimSpace(Cut(text, limit))
  BY DEF Beginning, Cut, text
<1>9. QED
  BY <1>2, <1>6, <1>7, <1>8 DEF limit

\* So is that of every page of the instance that is checked.
THEOREM SummariesAreBeginnings == Spec => []SummaryIsBeginning
<1>1. ASSUME NEW nodes \in Pages, NEW limit \in 1 .. 5
      PROVE  PageSummary(nodes, limit) = Beginning(nodes, limit)
  <2> DEFINE S == {Space, "x", "y"}
  <2>1. \A U, n : n \in Nat => BoundedSeq(U, n) \subseteq Seq(U)
    BY SeqDef DEF BoundedSeq, SeqOf
  <2>2. Texts \subseteq Seq(S) /\ Pages \subseteq Seq(Texts)
    BY <2>1 DEF Texts, Pages
  <2>3. nodes \in Seq(Seq(S))
    BY <2>2, SeqMonotonic
  <2>4. EffectiveSummaryLimit(limit) = limit /\ limit \in Int
    BY DEF EffectiveSummaryLimit
  <2>5. QED
    BY <2>3, <2>4, EverySummaryIsBeginning
<1>2. SummaryIsBeginning
  BY <1>1 DEF SummaryIsBeginning, SummariesAgree
<1>3. QED
  BY <1>2, PTL
================================================================================
