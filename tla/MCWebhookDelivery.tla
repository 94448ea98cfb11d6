------------------------- MODULE MCWebhookDelivery -------------------------
(* A small instance of WebhookDelivery for TLC. *)
EXTENDS WebhookDelivery, TLC

MCEngine == [s \in Forwarded |->
    CASE s = "storage_driver" -> "local"
      [] s = "queue_driver"   -> "qstash"
      [] s = "llm_driver"     -> "anthropic"
      [] OTHER                -> ""]

\* No file; one with half a certificate; one that traces, and sets a number
\* and a driver.
MCFile == {
    <<>>,
    [cert_file |-> "cert"],
    [rpm |-> "60", queue_driver |-> "rabbit", tracing |-> "on",
     tracing_endpoint |-> "otel", log_level |-> "debug"]}

\* Nothing set; a mode without a key; one with a key, the other half of the
\* certificate, and a driver under the engine's name; a driver under both
\* prefixes, a number that is none and a flag in capitals.
MCEnv == {
    <<>>,
    <<"VLS", "auth_mode">> :> "api_key",
    (<<"VLS", "auth_mode">> :> "api_key") @@ (<<"VLS", "api_key">> :> "secret")
        @@ (<<"VLS", "key_file">> :> "key") @@ (<<"VLE", "queue_driver">> :> "asynq"),
    (<<"VLS", "queue_driver">> :> "qstash") @@ (<<"VLE", "queue_driver">> :> "asynq")
        @@ (<<"VLS", "rpm">> :> "-5") @@ (<<"VLS", "tracing">> :> "TRUE")
        @@ (<<"VLE", "log_level">> :> "warn") @@ (<<"VLS", "log_level">> :> "")}

\* Requests meet only in the process they share: one with a key and a
\* deadline and one with neither, and two without.
MCInit ==
    /\ WebhookInit
    /\ \E r, q \in Request :
         /\ r # q /\ r = CHOOSE x \in Request : TRUE
         /\ path[r] \in {"api", "internal"} /\ path[q] = "internal"

MCSpec == MCInit /\ [][WebhookNext]_webhookVars /\ WebhookFairness

=============================================================================
