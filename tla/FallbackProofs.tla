---------------------------- MODULE FallbackProofs ----------------------------
(***************************************************************************)
(* The identities in memory, in the table and at the server, for any       *)
(* number of push tokens, any answers and any number of restarts.          *)
(***************************************************************************)
EXTENDS Fallback, TLAPS

\* Between the handler's two steps, only the identity that is being saved may differ
\* from the server's.
OthersAgree ==
  \A i \in {id, row} \ {NoIdentity} :
    i.from \notin lost /\ ~(client = "saving" /\ i.from = next.from) => i = bound[i.from]

HandlerOK ==
  /\ client = "saving" =>
       /\ next \in Identity /\ next \in known
       /\ next.from = id.from /\ (next.from \notin lost => next = bound[next.from])
  /\ client \in {"registering", "saving"} => id \in Identity

LoadingOK ==
  /\ loop = "loading" => client = "none" /\ id = NoIdentity
  /\ loop \in {"running", "waiting"} => id # NoIdentity

\* What the next import will bring is still as the server has it.
ImportsOK ==
  /\ \A i \in {id, row} \ {NoIdentity} : i.from \in 0 .. imports
  /\ \A i \in late : i.from \in 0 .. imports
  /\ \A n \in 0 .. MaxImports : n > imports => bound[n] = Imported(n)

IdentityInv ==
  TypeOK /\ OthersAgree /\ OnlyKnownIdentities /\ HandlerOK /\ LoadingOK /\ ImportsOK

\* Whatever the server answers is an identity.
LEMMA ReplacementsType ==
  ASSUME TypeOK, id \in Identity
  PROVE  Replacements \subseteq {i \in Identity : i.from = id.from}
<1>1. tokens \in 0 .. MaxTokens /\ tokens \in Field /\ Blank \in Field
  BY DEF TypeOK, Field
<1>2. \A old \in Field, a \in UuidAnswer \cup TokenAnswer : Merge(old, a) \in Field
  BY <1>1, FallbackAssumption DEF Merge
<1>3. id.uuid \in Field /\ id.token \in Field
  BY DEF Identity
<1>4. ASSUME NEW u \in UuidAnswer, NEW t \in TokenAnswer
      PROVE  Replaced(u, t) \in {i \in Identity : i.from = id.from}
  <2>1. Merge(id.uuid, u) \in Field /\ Merge(id.token, t) \in Field
    BY <1>2, <1>3
  <2>2. QED
    BY <1>1, <2>1 DEF Identity, Replaced
<1>5. QED
  BY <1>4 DEF Replacements

LEMMA ImportedType ==
  ASSUME NEW n \in 0 .. MaxImports
  PROVE  Imported(n) \in Identity /\ Imported(n).from = n
BY FallbackAssumption DEF Imported, Identity, Field

LEMMA IdentityInit ==
  ASSUME Init
  PROVE  IdentityInv
<1>1. 0 \in 0 .. MaxImports /\ 0 \in 0 .. MaxTokens
  BY FallbackAssumption
<1>2. Imported(0) \in Identity /\ Imported(0).from = 0
  BY <1>1, ImportedType
<1>3. bound \in [0 .. MaxImports -> Identity]
  BY ImportedType DEF Init
<1>4. TypeOK
  BY <1>1, <1>2, <1>3 DEF Init, TypeOK, Loop, Client
<1>5. bound[0] = Imported(0)
  BY <1>1 DEF Init
<1>6. OthersAgree /\ OnlyKnownIdentities /\ HandlerOK /\ LoadingOK
  BY <1>2, <1>5 DEF Init, OthersAgree, OnlyKnownIdentities, HandlerOK, LoadingOK
<1>7. ImportsOK
  BY <1>1, <1>2 DEF Init, ImportsOK
<1>8. QED
  BY <1>4, <1>6, <1>7 DEF IdentityInv

\* A call that is given up leaves identities of the process's own import.
LEMMA GivenUp ==
  ASSUME IdentityInv, id \in Identity, MayActLater
  PROVE  late' \subseteq Identity /\ \A i \in late' : i.from \in 0 .. imports
<1>1. Replacements \subseteq {i \in Identity : i.from = id.from}
  BY ReplacementsType DEF IdentityInv
<1>2. id.from \in 0 .. imports /\ id # NoIdentity
  BY NoIdentityAssumption DEF IdentityInv, ImportsOK
<1>3. late' = late \/ \E i \in Replacements : late' = late \cup {i}
  BY DEF MayActLater
<1>4. QED
  BY <1>1, <1>2, <1>3 DEF IdentityInv, TypeOK, ImportsOK

\* A step that leaves the identities alone, and begins no saving.
LEMMA QuietStep ==
  ASSUME IdentityInv, TypeOK', LoadingOK',
         UNCHANGED <<id, row, imports, bound, late, known, lost>>,
         client # "saving", client' # "saving",
         client' = "registering" => id \in Identity
  PROVE  IdentityInv'
BY DEF IdentityInv, OthersAgree, OnlyKnownIdentities, HandlerOK, ImportsOK

\* A step of the loop or of the surroundings.
LEMMA ClientGoesOn ==
  ASSUME IdentityInv, TypeOK', LoadingOK',
         UNCHANGED <<client, next, id, row, imports, bound, late, known, lost>>
  PROVE  IdentityInv'
BY DEF IdentityInv, OthersAgree, OnlyKnownIdentities, HandlerOK, ImportsOK

LEMMA IdentityStep ==
  ASSUME IdentityInv, [Next]_vars
  PROVE  IdentityInv'
<1> USE DEF IdentityInv
<1>1. CASE LoadIdentity
  <2>1. TypeOK' /\ LoadingOK'
    BY <1>1 DEF LoadIdentity, outside, history, TypeOK, Loop, Client, LoadingOK
  <2>2. client # "saving" /\ client' \in {"none", "dialing"} /\ id' \in {id, row}
    BY <1>1 DEF LoadIdentity, LoadingOK
  <2>3. UNCHANGED <<row, imports, bound, late, known, lost>>
    BY <1>1 DEF LoadIdentity, outside, history
  <2>4. QED
    BY <2>1, <2>2, <2>3 DEF OthersAgree, OnlyKnownIdentities, HandlerOK, ImportsOK
<1>2. CASE ClientEnds
  <2>1. TypeOK' /\ LoadingOK'
    BY <1>2 DEF ClientEnds, outside, history, goroutines, TypeOK, Loop, Client, LoadingOK
  <2>2. QED
    BY <1>2, <2>1, QuietStep DEF ClientEnds, outside, history
<1>3. CASE BackoffElapses
  <2>1. TypeOK' /\ LoadingOK'
    BY <1>3 DEF BackoffElapses, outside, history, goroutines, TypeOK, Loop, Client, LoadingOK
  <2>2. client = "none" /\ client' = "dialing"
    BY <1>3 DEF BackoffElapses, TypeOK
  <2>3. UNCHANGED <<id, row, imports, bound, late, known, lost>>
    BY <1>3 DEF BackoffElapses, outside, history
  <2>4. client # "saving" /\ client' # "saving" /\ client' # "registering"
    BY <2>2
  <2>5. QED
    BY <2>1, <2>3, <2>4, QuietStep
<1>4. CASE Canceled
  <2>1. TypeOK' /\ LoadingOK'
    BY <1>4 DEF Canceled, outside, history, goroutines, TypeOK, Loop, Client, LoadingOK
  <2>2. QED
    BY <1>4, <2>1, ClientGoesOn DEF Canceled, outside, history, goroutines
<1>5. CASE WorkerErrorEndsRun
  <2>1. TypeOK' /\ LoadingOK'
    BY <1>5 DEF WorkerErrorEndsRun, outside, history, goroutines, TypeOK, Loop, Client, LoadingOK
  <2>2. QED
    BY <1>5, <2>1, ClientGoesOn DEF WorkerErrorEndsRun, outside, history, goroutines
<1>6. CASE Dial
  <2>1. TypeOK' /\ LoadingOK'
    BY <1>6 DEF Dial, outside, history, goroutines, TypeOK, Loop, Client, LoadingOK
  <2>2. QED
    BY <1>6, <2>1, QuietStep DEF Dial, outside, history
<1>7. CASE ReadFails
  <2>1. TypeOK' /\ LoadingOK'
    BY <1>7 DEF ReadFails, outside, history, goroutines, TypeOK, Loop, Client, LoadingOK
  <2>2. QED
    BY <1>7, <2>1, QuietStep DEF ReadFails, outside, history
<1>8. CASE ReadInit
  <2>1. tokens' \in 0 .. MaxTokens
    BY <1>8, FallbackAssumption DEF ReadInit, TypeOK
  <2>2. TypeOK' /\ LoadingOK' /\ id \in Identity
    BY <1>8, <2>1 DEF ReadInit, TypeOK, Loop, Client, LoadingOK
  <2>3. QED
    BY <1>8, <2>2, QuietStep DEF ReadInit
<1>9. CASE Register
  <2>1. id \in Identity /\ client = "registering" /\ client' = "saving"
    BY <1>9 DEF Register, HandlerOK
  <2>2. PICK i \in Replacements :
          bound' = [bound EXCEPT ![i.from] = i] /\ next' = i /\ known' = known \cup {i}
    BY <1>9 DEF Register, Bind
  <2>3. i \in Identity /\ i.from = id.from
    BY <2>1, <2>2, ReplacementsType
  <2>4. id.from \in 0 .. imports /\ id.from \in 0 .. MaxImports /\ id # NoIdentity
    BY <2>1, NoIdentityAssumption DEF ImportsOK, Identity
  <2>5. /\ lost' = lost \ {id.from}
        /\ UNCHANGED <<loop, id, row, ctxDone, workerErr, link, tokens, imports, late, unusable>>
    BY <1>9 DEF Register
  <2>6. TypeOK'
    BY <2>1, <2>2, <2>3, <2>5 DEF TypeOK, Loop, Client
  <2>7. /\ bound'[id.from] = i
        /\ \A m \in 0 .. MaxImports : m # id.from => bound'[m] = bound[m]
    BY <2>2, <2>3, <2>4 DEF TypeOK
  <2>8. \A j \in {id, row} \ {NoIdentity} : j.from \in 0 .. MaxImports
    BY DEF TypeOK, Identity
  <2>9. OthersAgree'
    BY <2>1, <2>2, <2>3, <2>5, <2>7, <2>8 DEF OthersAgree
  <2>10. OnlyKnownIdentities'
    BY <2>2, <2>5 DEF OnlyKnownIdentities
  <2>11. HandlerOK'
    BY <2>1, <2>2, <2>3, <2>5, <2>7 DEF HandlerOK
  <2>12. LoadingOK'
    BY <2>1, <2>5 DEF LoadingOK
  <2>13. ImportsOK'
    <3>1. \A m \in 0 .. MaxImports : m > imports => m # id.from
      BY <2>4 DEF TypeOK
    <3>2. QED
      BY <2>5, <2>7, <3>1 DEF ImportsOK
  <2>14. QED
    BY <2>6, <2>9, <2>10, <2>11, <2>12, <2>13
<1>10. CASE RegisterFails
  <2>1. id \in Identity /\ client = "registering" /\ client' = "reading" /\ MayActLater
    BY <1>10 DEF RegisterFails, HandlerOK
  <2>2. UNCHANGED <<loop, next, id, row, ctxDone, workerErr, link, tokens, imports, bound, known,
                    lost, unusable>>
    BY <1>10 DEF RegisterFails
  <2>3. late' \subseteq Identity /\ \A i \in late' : i.from \in 0 .. imports
    BY <2>1, GivenUp
  <2>4. TypeOK'
    BY <2>1, <2>2, <2>3 DEF TypeOK, Loop, Client
  <2>5. OthersAgree' /\ OnlyKnownIdentities' /\ HandlerOK' /\ LoadingOK'
    BY <2>1, <2>2 DEF OthersAgree, OnlyKnownIdentities, HandlerOK, LoadingOK
  <2>6. ImportsOK'
    BY <2>2, <2>3 DEF ImportsOK
  <2>7. QED
    BY <2>4, <2>5, <2>6
<1>11. CASE SaveFails
  <2>1. /\ client = "saving" /\ client' = "reading"
        /\ row' \in {row, next} /\ lost' = lost \cup {next.from}
        /\ UNCHANGED <<loop, next, id, ctxDone, workerErr, link, tokens, imports, bound, late,
                       known, unusable>>
    BY <1>11 DEF SaveFails
  <2>2. next \in Identity /\ next \in known /\ next.from = id.from /\ id # NoIdentity
    BY <2>1 DEF HandlerOK, TypeOK
  <2>3. next.from \in 0 .. imports
    BY <2>2 DEF ImportsOK
  <2>4. TypeOK'
    BY <2>1, <2>2, <2>3 DEF TypeOK, Loop, Client
  <2>5. OthersAgree' /\ OnlyKnownIdentities' /\ HandlerOK' /\ LoadingOK' /\ ImportsOK'
    BY <2>1, <2>2, <2>3 DEF OthersAgree, OnlyKnownIdentities, HandlerOK, LoadingOK, ImportsOK
  <2>6. QED
    BY <2>4, <2>5
<1>12. CASE SaveIdentity
  <2>1. /\ client = "saving" /\ client' = "reading"
        /\ row' = next /\ id' = next
        /\ UNCHANGED <<loop, next, ctxDone, workerErr, link, tokens, imports, bound, late, known,
                       lost, unusable>>
    BY <1>12 DEF SaveIdentity, outside, history
  <2>2. /\ next \in Identity /\ next \in known /\ next.from = id.from /\ id # NoIdentity
        /\ next.from \notin lost => next = bound[next.from]
        /\ next # NoIdentity
    BY <2>1, NoIdentityAssumption DEF HandlerOK, TypeOK
  <2>3. next.from \in 0 .. imports
    BY <2>2 DEF ImportsOK
  <2>4. TypeOK'
    BY <2>1, <2>2 DEF TypeOK, Loop, Client
  <2>5. OthersAgree' /\ OnlyKnownIdentities' /\ HandlerOK' /\ LoadingOK' /\ ImportsOK'
    BY <2>1, <2>2, <2>3 DEF OthersAgree, OnlyKnownIdentities, HandlerOK, LoadingOK, ImportsOK
  <2>6. QED
    BY <2>4, <2>5
<1>13. CASE LinkCloses
  <2>1. TypeOK' /\ LoadingOK'
    BY <1>13 DEF LinkCloses, outside, history, goroutines, TypeOK, Loop, Client, LoadingOK
  <2>2. QED
    BY <1>13, <2>1, ClientGoesOn DEF LinkCloses, outside, history, goroutines
<1>14. CASE LinkGoesSilent
  <2>1. TypeOK' /\ LoadingOK'
    BY <1>14 DEF LinkGoesSilent, outside, history, goroutines, TypeOK, Loop, Client, LoadingOK
  <2>2. QED
    BY <1>14, <2>1, ClientGoesOn DEF LinkGoesSilent, outside, history, goroutines
<1>15. CASE Stop
  <2>1. ctxDone' \in BOOLEAN
    BY <1>15 DEF Stop, TypeOK
  <2>2. workerErr' \in BOOLEAN
    BY <1>15 DEF Stop, TypeOK
  <2>3. UNCHANGED <<goroutines, id, row, outside>>
    BY <1>15 DEF Stop
  <2>4. TypeOK' /\ LoadingOK'
    BY <2>1, <2>2, <2>3 DEF goroutines, outside, history, TypeOK, LoadingOK
  <2>5. QED
    BY <2>3, <2>4, ClientGoesOn DEF goroutines, outside, history
<1>16. CASE Restart
  <2>1. /\ client' = "none" /\ id' = NoIdentity /\ next' = NoIdentity
        /\ loop' = "loading" /\ link' = "none" /\ ctxDone' = FALSE /\ workerErr' = FALSE
        /\ lost' = (IF client = "saving" THEN lost \cup {next.from} ELSE lost)
        /\ unusable' = FALSE
        /\ UNCHANGED <<row, tokens, imports, bound, known>>
    BY <1>16 DEF Restart
  <2>2. client = "saving" => next.from \in 0 .. imports
    BY DEF HandlerOK, ImportsOK, TypeOK
  <2>3. lost' \subseteq 0 .. imports
    BY <2>1, <2>2 DEF TypeOK
  <2>4. late' \subseteq Identity /\ \A i \in late' : i.from \in 0 .. imports
    <3>1. CASE client = "registering"
      BY <1>16, <3>1, GivenUp DEF Restart, HandlerOK
    <3>2. CASE client # "registering"
      BY <1>16, <3>2 DEF Restart, TypeOK, ImportsOK
    <3>3. QED
      BY <3>1, <3>2
  <2>5. TypeOK'
    BY <2>1, <2>3, <2>4 DEF TypeOK, Loop, Client
  <2>6. OthersAgree' /\ OnlyKnownIdentities' /\ HandlerOK' /\ LoadingOK' /\ ImportsOK'
    BY <2>1, <2>4 DEF OthersAgree, OnlyKnownIdentities, HandlerOK, LoadingOK, ImportsOK
  <2>7. QED
    BY <2>5, <2>6
<1>17. CASE Import
  <2>1. /\ imports < MaxImports /\ imports' = imports + 1
        /\ row' = Imported(imports + 1) /\ known' = known \cup {row'}
        /\ UNCHANGED <<loop, client, next, id, ctxDone, workerErr, link, tokens, bound, late,
                       lost, unusable>>
    BY <1>17 DEF Import, goroutines
  <2>2. imports \in Nat /\ imports + 1 \in 0 .. MaxImports
    BY <2>1, FallbackAssumption DEF TypeOK
  <2>3. row' \in Identity /\ row'.from = imports + 1
    BY <2>1, <2>2, ImportedType
  <2>4. TypeOK'
    BY <2>1, <2>2, <2>3 DEF TypeOK
  <2>5. row' = bound[row'.from]
    BY <2>1, <2>2, <2>3 DEF ImportsOK
  <2>6. OthersAgree'
    BY <2>1, <2>5 DEF OthersAgree
  <2>7. OnlyKnownIdentities' /\ HandlerOK' /\ LoadingOK'
    BY <2>1 DEF OnlyKnownIdentities, HandlerOK, LoadingOK
  <2>8. ImportsOK'
    BY <2>1, <2>2, <2>3 DEF ImportsOK
  <2>9. QED
    BY <2>4, <2>6, <2>7, <2>8
<1>18. CASE UNCHANGED vars
  <2>1. TypeOK' /\ LoadingOK'
    BY <1>18 DEF vars, goroutines, outside, history, TypeOK, LoadingOK
  <2>2. QED
    BY <1>18, <2>1, ClientGoesOn DEF vars, goroutines, outside, history
<1>19. CASE ReadUpdate
  <2>1. TypeOK' /\ LoadingOK'
    BY <1>19 DEF ReadUpdate, goroutines, TypeOK, LoadingOK
  <2>2. QED
    BY <1>19, <2>1, ClientGoesOn DEF ReadUpdate, goroutines
<1>20. CASE ServerActsLate
  <2>1. PICK i \in late : /\ late' = late \ {i}
                          /\ bound' = [bound EXCEPT ![i.from] = i]
                          /\ lost' = lost \cup {i.from}
    BY <1>20 DEF ServerActsLate, Bind
  <2>2. UNCHANGED <<loop, client, next, id, row, ctxDone, workerErr, link, tokens, imports,
                    known, unusable>>
    BY <1>20 DEF ServerActsLate, goroutines
  <2>3. i \in Identity /\ i.from \in 0 .. imports /\ i.from \in 0 .. MaxImports
    BY DEF TypeOK, ImportsOK, Identity
  <2>4. TypeOK'
    BY <2>1, <2>2, <2>3 DEF TypeOK
  <2>5. \A m \in 0 .. MaxImports : m # i.from => bound'[m] = bound[m]
    BY <2>1 DEF TypeOK
  <2>6. \A j \in {id, row} \ {NoIdentity} : j.from \in 0 .. MaxImports
    BY DEF TypeOK, Identity
  <2>7. OthersAgree'
    BY <2>1, <2>2, <2>5, <2>6 DEF OthersAgree
  <2>8. HandlerOK'
    <3>1. client = "saving" => next.from \in 0 .. MaxImports
      BY DEF HandlerOK, Identity
    <3>2. QED
      BY <2>1, <2>2, <2>5, <3>1 DEF HandlerOK
  <2>9. OnlyKnownIdentities' /\ LoadingOK'
    BY <2>2 DEF OnlyKnownIdentities, LoadingOK
  <2>10. ImportsOK'
    <3>1. \A m \in 0 .. MaxImports : m > imports => m # i.from
      BY <2>3 DEF TypeOK
    <3>2. QED
      BY <2>1, <2>2, <2>5, <3>1 DEF ImportsOK
  <2>11. QED
    BY <2>4, <2>7, <2>8, <2>9, <2>10
<1>21. QED
  BY <1>1, <1>2, <1>3, <1>4, <1>5, <1>6, <1>7, <1>8, <1>9, <1>10, <1>11, <1>12, <1>13, <1>14,
     <1>15, <1>16, <1>17, <1>18, <1>19, <1>20
     DEF Next, LoopStep, ClientStep

LEMMA IdentityInvariant == Spec => []IdentityInv
<1>1. IdentityInv /\ [Next]_vars => IdentityInv'
  BY IdentityStep
<1>2. QED
  BY <1>1, IdentityInit, PTL DEF Spec

-----------------------------------------------------------------------------
(* The abstract receiver *)

\* The loop's states as Receiver names them.
LEMMA ReceiverSteps ==
  ASSUME TypeOK, [Next]_vars
  PROVE  [Abstract!Next]_Abstract!receiver
<1>1. CASE LoopStep
  <2>1. CASE LoadIdentity
    <3>1. loop = "loading" /\ loop' \in {"running", "returned"} /\ UNCHANGED <<ctxDone, workerErr>>
      BY <2>1 DEF LoadIdentity
    <3>2. QED
      BY <3>1 DEF Abstract!Next, Abstract!Starts, Abstract!Ends
  <2>2. CASE ClientEnds \/ BackoffElapses \/ Canceled
    <3>1. /\ loop \in {"running", "waiting"}
          /\ loop' \in {"running", "waiting", "returned"}
          /\ loop' = "returned" => ctxDone
          /\ UNCHANGED <<ctxDone, workerErr>>
      BY <2>2 DEF ClientEnds, BackoffElapses, Canceled
    <3>2. QED
      BY <3>1 DEF Abstract!Next, Abstract!Ends, Abstract!receiver
  <2>3. CASE WorkerErrorEndsRun
    <3>1. /\ loop \in {"running", "waiting"} /\ loop' = "returned"
          /\ workerErr /\ ctxDone' = TRUE
      BY <2>3 DEF WorkerErrorEndsRun
    <3>2. QED
      BY <3>1 DEF Abstract!Next, Abstract!Ends
  <2>4. QED
    BY <1>1, <2>1, <2>2, <2>3 DEF LoopStep
<1>2. CASE Stop
  <2>1. loop' = loop /\ (ctxDone' \/ workerErr')
    BY <1>2 DEF Stop, goroutines
  <2>2. QED
    BY <2>1 DEF Abstract!Next, Abstract!Stop
<1>3. CASE Restart
  <2>1. loop' = "loading" /\ ~ctxDone' /\ ~workerErr'
    BY <1>3 DEF Restart
  <2>2. QED
    BY <2>1 DEF Abstract!Next, Abstract!Restart
<1>4. CASE \/ ClientStep \/ LinkCloses \/ LinkGoesSilent \/ ServerActsLate \/ Import
           \/ UNCHANGED vars
  <2>1. UNCHANGED <<loop, ctxDone, workerErr>>
    BY <1>4 DEF ClientStep, Dial, ReadFails, ReadInit, ReadUpdate, Register, RegisterFails,
                SaveFails, SaveIdentity, LinkCloses, LinkGoesSilent, ServerActsLate, Import,
                goroutines, vars
  <2>2. QED
    BY <2>1 DEF Abstract!receiver
<1>5. QED
  BY <1>1, <1>2, <1>3, <1>4 DEF Next

-----------------------------------------------------------------------------
(* Theorems *)

\* Every variable keeps its type, and no socket outlives its client.
THEOREM FallbackTypes == Spec => []TypeOK
<1>1. IdentityInv => TypeOK
  BY DEF IdentityInv
<1>2. QED
  BY <1>1, IdentityInvariant, PTL

\* Memory and table agree with the server between registrations, unless the last one
\* the server performed of that import is one the process gave up or died over
\* (app.go:171-218, 281-309, client.go:40-98).
THEOREM AgreementIsKept == Spec => []IdentitiesAgree
<1>1. IdentityInv => IdentitiesAgree
  BY DEF IdentityInv, OthersAgree, IdentitiesAgree
<1>2. QED
  BY <1>1, IdentityInvariant, PTL

\* Memory and table hold nothing that was not imported or confirmed
\* (app.go:281-309, sqlite.go:154-186).
THEOREM NothingUnknownIsKept == Spec => []OnlyKnownIdentities
<1>1. IdentityInv => OnlyKnownIdentities
  BY DEF IdentityInv
<1>2. QED
  BY <1>1, IdentityInvariant, PTL

\* The safety part of ImplementsReceiver: the loop's steps are those that Bridge takes
\* for granted, and having started it ends only when told to or for a worker's error
\* (app.go:171-218).
THEOREM StepsOfReceiver == Spec => Abstract!Init /\ [][Abstract!Next]_Abstract!receiver
<1>1. Init => Abstract!Init
  BY DEF Init, Abstract!Init
<1>2. TypeOK /\ [Next]_vars => [Abstract!Next]_Abstract!receiver
  BY ReceiverSteps
<1>3. QED
  BY <1>1, <1>2, FallbackTypes, PTL DEF Spec
=============================================================================
