--------------------------------- MODULE Config ---------------------------------
(***************************************************************************)
(* config.Load: the defaults, the keys a file gives, the webhook from the  *)
(* environment, and the check that every command starts with.  A text is   *)
(* empty, blank, or something; an extension id is well formed or not.      *)
(***************************************************************************)
EXTENDS Integers

Texts == {"", " ", "text"}

Default ==
  [host |-> "text", version |-> "text", platform |-> "text",
   mode |-> "chrome-cdp", cdp_url |-> "text", extension_id |-> "", ready_timeout |-> 60,
   sqlite_path |-> "text", webhook_url |-> "", webhook_env |-> "text",
   enabled |-> TRUE, chrome_path |-> "text", screenshot_dir |-> "text",
   timeout |-> 20, summary_max |-> 1000,
   wecom_max_attempts |-> 5, enrichment_max_attempts |-> 3,
   initial_backoff |-> 2, max_backoff |-> 60]

Keys == DOMAIN Default

Given(text) == text \notin {"", " "}

\* Mutant: the maximum is compared with nothing.
Validate_AnyMaximum(c) ==
  /\ \A k \in {"host", "version", "platform", "sqlite_path", "webhook_url"} : Given(c[k])
  /\ c.mode \in {"chrome-cdp", "go-fallback"}
  /\ c.mode = "chrome-cdp" => Given(c.cdp_url) /\ c.extension_id = "a-p, 32" /\ c.ready_timeout >= 1
  /\ \A k \in {"wecom_max_attempts", "enrichment_max_attempts", "initial_backoff"} : c[k] >= 1
  /\ c.enabled =>
       /\ Given(c.chrome_path) /\ Given(c.screenshot_dir)
       /\ c.timeout >= 1 /\ c.summary_max >= 1

Validate(c) ==
  /\ \A k \in {"host", "version", "platform", "sqlite_path", "webhook_url"} : Given(c[k])
  /\ c.mode \in {"chrome-cdp", "go-fallback"}
  /\ c.mode = "chrome-cdp" => Given(c.cdp_url) /\ c.extension_id = "a-p, 32" /\ c.ready_timeout >= 1
  /\ \A k \in {"wecom_max_attempts", "enrichment_max_attempts", "initial_backoff"} : c[k] >= 1
  /\ c.max_backoff >= c.initial_backoff
  /\ c.enabled =>
       /\ Given(c.chrome_path) /\ Given(c.screenshot_dir)
       /\ c.timeout >= 1 /\ c.summary_max >= 1

\* A key of the file replaces the default even with an empty value; the environment
\* is asked when no webhook is left and a variable is named.
Load(file, env) ==
  LET c == [k \in Keys |-> IF k \in DOMAIN file THEN file[k] ELSE Default[k]]
  IN  IF c.webhook_url = "" /\ c.webhook_env # "" THEN [c EXCEPT !.webhook_url = env] ELSE c
=============================================================================
