-------------------------------- MODULE Store --------------------------------
(***************************************************************************)
(* The tables of internal/store/sqlite.go and the statements run on them.  *)
(*                                                                         *)
(* A table is a sequence of rows whose position is the INTEGER PRIMARY KEY *)
(* (no statement deletes a row).  The module has no variables: an operator *)
(* is one SQL statement, or one transaction, as a function from the table  *)
(* before to the table after.  OpenSQLite sets SetMaxOpenConns(1), so the  *)
(* statements of the handler and of the two workers never overlap and each *)
(* can be one atomic step of the modules that use them.                    *)
(*                                                                         *)
(* delivery_attempts and enrichment_tasks have the same queue columns; the *)
(* operators below that take a "table" stand for the twin statements of    *)
(* both.  A row's "next" is next_attempt_at as the claim compares it to now.                 *)
(***************************************************************************)
EXTENDS Naturals, Sequences

CONSTANTS
  Notification,  \* the notifications that reach HandleMessage
  NoQid,         \* the empty message id
  Url,           \* the links a notification can contain
  Page           \* what a fetch of a link can return (title, summary, picture)

\* A notification's urls are what browser.ExtractURLs finds in its content, in
\* order and with repetitions.
ASSUME NotificationAssumption ==
  \A n \in Notification : /\ DOMAIN n = {"qid", "content", "raw", "urls"}
                          /\ n.urls \in Seq(Url)

-----------------------------------------------------------------------------
(* Rows *)

TaskStatus == {"pending", "running", "done", "failed"}
DeliveryKind == {"original", "enriched"}
When == {"past", "future"}

\* wecom.BuildOriginalMarkdown and BuildEnrichedMarkdown: the text is a function
\* of these parts ("message-<id>" is implied by the row's msg column).
OriginalPayload(n) == <<n.qid, n.content>>
EnrichedPayload(url, page) == <<url, page>>

Payload == {OriginalPayload(n) : n \in Notification} \cup (Url \X Page)

Delivery == [msg : Nat, kind : DeliveryKind, payload : Payload,
             status : TaskStatus, attempts : Nat, next : When]
EnrichmentTask == [msg : Nat, url : Url,
                   status : TaskStatus, attempts : Nat, next : When]

-----------------------------------------------------------------------------
(* messages *)

\* Mutant: the key covers the frame, not the message id alone.
DedupeKey_OfFrame(n) == <<n.qid, n.content, n.raw>>

\* The UNIQUE key of a message: its qid, or a digest of everything it says.
DedupeKey(n) == IF n.qid # NoQid THEN <<n.qid>> ELSE <<n.content, n.raw>>

IsDuplicate(messages, n) ==
  \E m \in DOMAIN messages : DedupeKey(messages[m]) = DedupeKey(n)

\* INSERT OR IGNORE INTO messages: a duplicate keeps the row first stored.
SaveMessage(messages, n) ==
  IF IsDuplicate(messages, n) THEN messages ELSE Append(messages, n)

-----------------------------------------------------------------------------
(* delivery_attempts and enrichment_tasks *)

\* Mutant: the unique index forgets message_id.
EnqueueDelivery_AnyMessage(table, m, kind, payload) ==
  IF \E i \in DOMAIN table : table[i].kind = kind /\ table[i].payload = payload
  THEN table
  ELSE Append(table, [msg |-> m, kind |-> kind, payload |-> payload,
                      status |-> "pending", attempts |-> 0, next |-> "past"])

\* INSERT OR IGNORE against UNIQUE(message_id, kind, payload).
EnqueueDelivery(table, m, kind, payload) ==
  IF \E i \in DOMAIN table : /\ table[i].msg = m
                             /\ table[i].kind = kind
                             /\ table[i].payload = payload
  THEN table
  ELSE Append(table, [msg |-> m, kind |-> kind, payload |-> payload,
                      status |-> "pending", attempts |-> 0, next |-> "past"])

\* INSERT OR IGNORE against UNIQUE(message_id, url).
EnqueueEnrichment(table, m, url) ==
  IF \E i \in DOMAIN table : table[i].msg = m /\ table[i].url = url
  THEN table
  ELSE Append(table, [msg |-> m, url |-> url,
                      status |-> "pending", attempts |-> 0, next |-> "past"])

Claimable(table) ==
  {i \in DOMAIN table : table[i].status = "pending" /\ table[i].next = "past"}

\* WHERE status = 'pending' AND next_attempt_at <= ? ORDER BY id LIMIT 1
\* (defaultClaimLimit): the id selected, or none.
SelectTasks(table) ==
  {i \in Claimable(table) : \A j \in Claimable(table) : i <= j}

\* UPDATE ... WHERE id = i.
Update(table, i, row) == [table EXCEPT ![i] = row]

\* The transaction that selects a task and sets it to running.
ClaimTask(table, i) == Update(table, i, [table[i] EXCEPT !.status = "running"])

MarkDone(table, i) == Update(table, i, [table[i] EXCEPT !.status = "done"])

\* attempts is left as it was.
MarkFailed(table, i) == Update(table, i, [table[i] EXCEPT !.status = "failed"])

\* Mutants: the attempts, or the status, are not written.
MarkRetry_SameAttempts(table, i, attempts, next) ==
  Update(table, i, [table[i] EXCEPT !.status = "pending", !.next = next])
MarkRetry_SameStatus(table, i, attempts, next) ==
  Update(table, i, [table[i] EXCEPT !.attempts = attempts, !.next = next])

\* Back to pending whatever the status was; next is the new
\* next_attempt_at.
MarkRetry(table, i, attempts, next) ==
  Update(table, i, [table[i] EXCEPT !.status = "pending",
                                    !.attempts = attempts,
                                    !.next = next])

\* The clock passes next_attempt_at.
BecomeDue(table, i) == Update(table, i, [table[i] EXCEPT !.next = "past"])

-----------------------------------------------------------------------------
(* enrichments *)

\* Mutant: ON CONFLICT DO NOTHING.
SaveEnrichment_FirstWins(table, m, url, page) ==
  [k \in DOMAIN table \cup {<<m, url>>} |->
     IF k \in DOMAIN table THEN table[k] ELSE page]

\* INSERT ... ON CONFLICT(message_id, url) DO UPDATE: the last page wins.
SaveEnrichment(table, m, url, page) ==
  [k \in DOMAIN table \cup {<<m, url>>} |->
     IF k = <<m, url>> THEN page ELSE table[k]]
=============================================================================
