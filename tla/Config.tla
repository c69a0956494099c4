-------------------------------- MODULE Config --------------------------------
(***************************************************************************)
(* How src/src/config.rs turns a configuration file into the configuration *)
(* a server runs with, or refuses it.                                      *)
(*                                                                         *)
(* A file is a record: exists; sections, a function from the names of the  *)
(* tables it has to the fields written in each; and keyFile, whether the   *)
(* file that github.private_key_path names is there.  A configuration is a *)
(* function from sections to records with all their fields; an Option that *)
(* is None is a section outside its domain.  Lists of patterns and paths   *)
(* are one name each, temperatures are tenths.                             *)
(***************************************************************************)
EXTENDS Integers

Optional == {"review", "diff_filter", "batching", "database", "dashboard",
             "auto_approve", "retry", "queue", "cache", "rules", "logging"}
Providers == {"github", "gitlab"}
Sections == {"server", "llm"} \cup Providers \cup Optional

\* The fields without a serde default: leaving one out is a parse error.
Required ==
    [s \in Sections |->
        CASE s = "server" -> {"host", "port"}
          [] s = "github" -> {"webhook_secret", "app_id", "private_key_path"}
          [] s = "gitlab" -> {"webhook_secret", "access_token"}
          [] s = "llm" -> {"provider", "base_url", "model", "max_tokens",
                           "temperature"}
          [] OTHER -> {}]

\* Mutant of DefaultBatching: a default raised in one of its two places.
DefaultBatchingRaised == [enabled |-> FALSE, timeout_seconds |-> 60, max_size |-> 10]

\* The default_* functions.
DefaultBatching == [enabled |-> FALSE, timeout_seconds |-> 30, max_size |-> 10]
DefaultOf ==
    [true |-> TRUE, false |-> FALSE,
     gitlab_url |-> "https://gitlab.com", db_path |-> "sentryshark.db",
     dashboard_refresh |-> 30, docs_patterns |-> "docs", max_retries |-> 3,
     base_delay_ms |-> 1000, max_delay_ms |-> 30000, worker_count |-> 4,
     concurrency_limit |-> 1, cache_enabled |-> TRUE, cache_ttl_hours |-> 24,
     rules_dir |-> "rules", json_logging |-> FALSE]
DefaultPatterns == [lockfile |-> "lockfiles", generated |-> "generated"]

\* The #[serde(default)] attributes: what a field gets that its section, being
\* in the file, leaves out.
FieldDefaults ==
  [server |-> <<>>, llm |-> <<>>,
   github |-> [use_app_auth |-> DefaultOf.false, installation_id |-> "none"],
   gitlab |-> [ci_cd_enabled |-> DefaultOf.false, base_url |-> DefaultOf.gitlab_url],
   review |-> [x \in {"security", "style", "performance", "correctness",
                      "maintainability", "inline_comments", "summary_comment",
                      "template"} |->
                  CASE x \in {"inline_comments", "summary_comment"} -> FALSE
                    [] x = "template" -> "none"
                    [] OTHER -> DefaultOf.true],
   diff_filter |-> [lockfile_patterns |-> DefaultPatterns.lockfile,
                    generated_patterns |-> DefaultPatterns.generated,
                    enabled |-> DefaultOf.true,
                    include_patterns |-> "none", exclude_patterns |-> "none"],
   batching |-> DefaultBatching,
   auto_approve |-> [enabled |-> DefaultOf.true,
                     docs_patterns |-> DefaultOf.docs_patterns,
                     skip_lockfiles |-> DefaultOf.true,
                     skip_whitespace |-> DefaultOf.true],
   retry |-> [max_retries |-> DefaultOf.max_retries,
              base_delay_ms |-> DefaultOf.base_delay_ms,
              max_delay_ms |-> DefaultOf.max_delay_ms],
   queue |-> [worker_count |-> DefaultOf.worker_count,
              concurrency_limit |-> DefaultOf.concurrency_limit],
   cache |-> [enabled |-> DefaultOf.cache_enabled,
              ttl_hours |-> DefaultOf.cache_ttl_hours],
   rules |-> [rules_dir |-> DefaultOf.rules_dir, inline_rules |-> "none"],
   logging |-> [json_format |-> DefaultOf.json_logging],
   database |-> [path |-> DefaultOf.db_path],
   dashboard |-> [enabled |-> DefaultOf.true,
                  refresh_seconds |-> DefaultOf.dashboard_refresh]]

\* The Default implementations: what a section gets that is not in the file.
\* AppConfig::default() is this function; it has no provider.
SectionDefaults ==
  [server |-> [host |-> "0.0.0.0", port |-> 3000],
   llm |-> [provider |-> "llamacpp", base_url |-> "http://localhost:8080",
            model |-> "default", max_tokens |-> 4096, temperature |-> 1],
   review |-> [security |-> TRUE, style |-> TRUE, performance |-> TRUE,
               correctness |-> TRUE, maintainability |-> TRUE,
               inline_comments |-> TRUE, summary_comment |-> TRUE,
               template |-> "none"],
   diff_filter |-> [lockfile_patterns |-> DefaultPatterns.lockfile,
                    generated_patterns |-> DefaultPatterns.generated,
                    enabled |-> TRUE,
                    include_patterns |-> "none", exclude_patterns |-> "none"],
   batching |-> [enabled |-> FALSE, timeout_seconds |-> 30, max_size |-> 10],
   auto_approve |-> [enabled |-> TRUE, docs_patterns |-> DefaultOf.docs_patterns,
                     skip_lockfiles |-> TRUE, skip_whitespace |-> TRUE],
   retry |-> [max_retries |-> 3, base_delay_ms |-> 1000, max_delay_ms |-> 30000],
   queue |-> [worker_count |-> 4, concurrency_limit |-> 1],
   cache |-> [enabled |-> TRUE, ttl_hours |-> 24],
   rules |-> [rules_dir |-> DefaultOf.rules_dir, inline_rules |-> "none"],
   logging |-> [json_format |-> FALSE],
   database |-> [path |-> DefaultOf.db_path],
   dashboard |-> [enabled |-> TRUE,
                  refresh_seconds |-> DefaultOf.dashboard_refresh]]
-------------------------------------------------------------------------------
\* What is given, and the defaults for the rest.
FillIn(given, defaults) ==
    [x \in DOMAIN given \cup DOMAIN defaults |->
        IF x \in DOMAIN given THEN given[x] ELSE defaults[x]]

\* toml::from_str succeeds.
Parses(file) ==
    /\ {"server", "llm"} \subseteq DOMAIN file.sections
    /\ \A s \in DOMAIN file.sections : Required[s] \subseteq DOMAIN file.sections[s]

\* AppConfig::load up to the validation.
Loaded(file) ==
    IF file.exists
    THEN [s \in DOMAIN file.sections \cup Optional |->
            IF s \in DOMAIN file.sections
            THEN FillIn(file.sections[s], FieldDefaults[s])
            ELSE SectionDefaults[s]]
    ELSE SectionDefaults

\* review_config(), batching_config(), ...: a section or its default.
SectionOf(cfg, s) == IF s \in DOMAIN cfg THEN cfg[s] ELSE SectionDefaults[s]

\* Mutant of MustBeGiven: the secret of GitLab is not looked at.
MustBeGivenButToken ==
    {<<"github", "webhook_secret">>, <<"github", "app_id">>,
     <<"github", "private_key_path">>, <<"gitlab", "access_token">>}

\* The fields of a provider that must not be empty.
MustBeGiven ==
    {<<"github", "webhook_secret">>, <<"github", "app_id">>,
     <<"github", "private_key_path">>,
     <<"gitlab", "webhook_secret">>, <<"gitlab", "access_token">>}

\* The complaints about the providers that are configured.
ProviderErrors(cfg, file) ==
    {e \in MustBeGiven : e[1] \in DOMAIN cfg /\ cfg[e[1]][e[2]] = ""}
    \cup
    {e \in {<<"github", "no such key file">>} :
        "github" \in DOMAIN cfg /\ cfg["github"].use_app_auth /\ ~file.keyFile}

\* validate() finds nothing to complain about.
Valid(cfg, file) ==
    LET llm == cfg["llm"]
        batching == SectionOf(cfg, "batching")
        retry == SectionOf(cfg, "retry")
        queue == SectionOf(cfg, "queue")
    IN  /\ cfg["server"].port # 0
        /\ llm.base_url # "" /\ llm.model # "" /\ llm.max_tokens # 0
        /\ llm.temperature \in 0 .. 20
        /\ ProviderErrors(cfg, file) = {}
        /\ Providers \cap DOMAIN cfg # {}
        /\ batching.timeout_seconds # 0 /\ batching.max_size # 0
        /\ retry.max_delay_ms >= retry.base_delay_ms
        /\ queue.worker_count # 0 /\ queue.concurrency_limit # 0
===============================================================================
