------------------------------ MODULE MCImporter ------------------------------
(* An instance of Importer for TLC; and the configurations a command can load.  *)
EXTENDS Importer

C == INSTANCE Config
S == INSTANCE Summary
B == INSTANCE Backoff

ValuesOf(key) ==
  CASE key = "mode" -> {"chrome-cdp", "go-fallback", "text"}
    [] key = "extension_id" -> {"", "text", "a-p, 32"}
    [] key = "enabled" -> BOOLEAN
    [] key \in {"ready_timeout", "timeout", "summary_max", "wecom_max_attempts",
                "enrichment_max_attempts", "initial_backoff", "max_backoff"} -> 0 .. 4
    [] OTHER -> C!Texts

Only(key, value) == [k \in {key} |-> value]

\* f's keys, and g's where f has none.
Over(f, g) == [k \in DOMAIN f \cup DOMAIN g |-> IF k \in DOMAIN f THEN f[k] ELSE g[k]]

One == UNION {{Only(key, v) : v \in ValuesOf(key)} : key \in C!Keys}

Two == {Over(f, g) : f \in One, g \in One}

\* Files of a few keys, with one of the two that make a file acceptable.
Files ==
  {Over(f, Only("extension_id", "a-p, 32")) : f \in Two}
    \cup {Over(f, Only("mode", "go-fallback")) : f \in Two}

\* What the other packages make of a configuration c, where counts are the numbers of
\* attempts made so far.
Fits(c, counts) ==
  /\ \A n \in counts :
       LET wait == B!Exponential(c.initial_backoff, c.max_backoff, n)
       IN  /\ B!NextAttempt(c.initial_backoff, c.max_backoff, n) = wait
           /\ B!AppBackoff(c.initial_backoff, c.max_backoff, n) = wait
  /\ c.enabled => S!EffectiveSummaryLimit(c.summary_max) = c.summary_max
  /\ c.enabled => c.timeout # 0 /\ c.screenshot_dir # ""

ConfigsFit ==
  /\ C!Validate(C!Load(Only("extension_id", "a-p, 32"), "text"))
  /\ \A file \in Files, env \in C!Texts :
       LET c == C!Load(file, env) IN C!Validate(c) => Fits(c, 1 .. 5)

\* A configuration with which a command goes on is one the other packages are made
\* for: they do not fall back to defaults of their own, and both backoffs are the
\* bounded exponential one, whatever the number of attempts.  The file of the quick
\* start is accepted (config.go:100-179, app.go:64-85, browser.go:112-117,
\* dispatch.go:329-342, README.md:53-75).
AcceptedConfigsFit == pc \in {"reading", "looking"} => ConfigsFit
=============================================================================
