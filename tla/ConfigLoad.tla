----------------------------- MODULE ConfigLoad -----------------------------
(***************************************************************************)
(* internal/config/config.go: a configuration is built from the defaults,  *)
(* the YAML file and the environment, and then checked.  A configuration   *)
(* is a function from settings to strings; a flag is "on" or "off", a list *)
(* is the comma-separated string it is split from, and a file gives values *)
(* to some of the settings.  An environment maps variables, pairs of a     *)
(* prefix and a setting, to strings; "" is a variable that is not set.     *)
(***************************************************************************)
EXTENDS Naturals, Sequences

CONSTANT PositiveNumber   \* the strings Atoi reads as a number above zero

\* Config and its parts, by the way a setting is read from the environment.
Forwarded == {"database_url", "log_level", "anthropic_key", "openai_key",
              "gemini_key", "storage_driver", "queue_driver", "llm_driver"}
Text      == {"addr", "auth_mode", "api_key", "tracing_endpoint",
              "service_name", "cert_file", "key_file"}
Flag      == {"metrics", "tracing", "tracing_insecure", "rate_limit", "cors"}
Number    == {"rpm"}
List      == {"origins"}
FileOnly  == {"read_timeout", "write_timeout", "drain_timeout",
              "min_version", "sample_rate", "per_principal_rpm", "max_age",
              "max_body_size", "default_timeout", "query_timeout"}
Setting   == Forwarded \cup Text \cup Flag \cup Number \cup List \cup FileOnly

\* Default(); the engine's part of it is the engine's.
ServerDefault ==
    [addr |-> ":8080", auth_mode |-> "none", api_key |-> "",
     cert_file |-> "", key_file |-> "", min_version |-> "",
     read_timeout |-> "30s", write_timeout |-> "120s", drain_timeout |-> "15s",
     metrics |-> "on", tracing |-> "off", tracing_insecure |-> "off",
     tracing_endpoint |-> "", service_name |-> "vectorless-server",
     sample_rate |-> "1.0",
     rate_limit |-> "off", rpm |-> "600", per_principal_rpm |-> "0",
     cors |-> "on", origins |-> "*", max_age |-> "86400",
     max_body_size |-> "32MiB", default_timeout |-> "30s",
     query_timeout |-> "120s"]

Default(engine) ==
    [s \in Setting |-> IF s \in Forwarded THEN engine[s] ELSE ServerDefault[s]]

\* yaml.Unmarshal into the defaults.
Read(file, cfg) == [s \in Setting |-> IF s \in DOMAIN file THEN file[s] ELSE cfg[s]]

\* The variables a setting is taken from, the first non-empty one of them.
Prefixes(s) == CASE s \in Forwarded -> <<"VLS", "VLE">>
                 [] s \in FileOnly  -> <<>>
                 [] OTHER           -> <<"VLS">>

Lookup(env, v) == IF v \in DOMAIN env THEN env[v] ELSE ""

FirstEnv(env, s) ==
    LET set == {i \in DOMAIN Prefixes(s) : Lookup(env, <<Prefixes(s)[i], s>>) # ""}
    IN  IF set = {} THEN ""
        ELSE LET first == CHOOSE i \in set : \A j \in set : i <= j
             IN  Lookup(env, <<Prefixes(s)[first], s>>)

\* What a non-empty variable does to a setting.  A flag is on for exactly
\* two spellings; a number that is none, or not positive, is passed over.
Set(s, v, old) ==
    CASE s \in Flag   -> IF v \in {"true", "1"} THEN "on" ELSE "off"
      [] s \in Number -> IF v \in PositiveNumber THEN v ELSE old
      [] OTHER        -> v

\* applyEnvOverrides
Override(env, cfg) ==
    [s \in Setting |-> LET v == FirstEnv(env, s)
                       IN  IF v = "" THEN cfg[s] ELSE Set(s, v, cfg[s])]

\* Validate, but for the engine's own part of it.
Valid(cfg) ==
    /\ cfg["auth_mode"] \in {"none", "api_key"}
    /\ cfg["auth_mode"] = "api_key" => cfg["api_key"] # ""
    /\ cfg["cert_file"] # "" <=> cfg["key_file"] # ""
    /\ cfg["min_version"] \in {"", "1.2", "1.3"}
    /\ cfg["tracing"] = "on" => cfg["tracing_endpoint"] # ""

\* Slip: the file is validated, then overridden.
Load_ValidatedFirst(engine, file, env) ==
    LET cfg == Read(file, Default(engine))
    IN  [ok |-> Valid(cfg), cfg |-> Override(env, cfg)]

\* Slip: the file is read over the environment.
Load_FileLast(engine, file, env) ==
    LET cfg == Read(file, Override(env, Default(engine)))
    IN  [ok |-> Valid(cfg), cfg |-> cfg]

\* Load, for a file that can be read and parsed, or none (the empty one).
Load(engine, file, env) ==
    LET cfg == Override(env, Read(file, Default(engine)))
    IN  [ok |-> Valid(cfg), cfg |-> cfg]

----------------------------------------------------------------------------

\* "Precedence (highest wins): 1. Environment variables 2. YAML file 3.
\* Built-in defaults", among the values that can be read; of two variables
\* the server's own comes first.
ByPrecedence(engine, file, env, s) ==
    LET var(p) == Lookup(env, <<p, s>>)
        named  == {p \in {"VLS", "VLE"} :
                     s \notin FileOnly /\ (p = "VLE" => s \in Forwarded)}
        usable == {p \in named :
                     var(p) # "" /\ (s \in Number => var(p) \in PositiveNumber)}
    IN  IF "VLS" \in usable THEN Set(s, var("VLS"), "")
        ELSE IF "VLE" \in usable THEN Set(s, var("VLE"), "")
        ELSE IF s \in DOMAIN file THEN file[s] ELSE Default(engine)[s]

=============================================================================
