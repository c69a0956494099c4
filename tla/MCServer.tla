------------------------------- MODULE MCServer -------------------------------
(* Finite instances of Server for TLC. *)
EXTENDS Server, TLC

CONSTANTS w1, w2

Secret == "s"

\* The sections a file may have, with what the checks tell apart.
ServerSection(port) == [host |-> "127.0.0.1", port |-> port]
LlmSection(temperature) ==
    [provider |-> "ollama", base_url |-> "http://llm", model |-> "m",
     max_tokens |-> 4096, temperature |-> temperature]
Github(secret, app) ==
    "github" :> [webhook_secret |-> secret, app_id |-> "1",
                 private_key_path |-> "key.pem", use_app_auth |-> app]
Gitlab(secret) ==
    "gitlab" :> [webhook_secret |-> secret, access_token |-> "t"]
NoDashboard == "dashboard" :> [enabled |-> FALSE]

File(sections, keyFile) == [exists |-> TRUE, sections |-> sections, keyFile |-> keyFile]
With(sections) ==
    File("server" :> ServerSection(3000) @@ "llm" :> LlmSection(1) @@ sections, TRUE)

\* Files a server starts with: both providers; GitLab alone, no dashboard,
\* sections with some of their fields.
BothProviders == With(Github(Secret, TRUE) @@ Gitlab(Secret))
GitlabAlone ==
    With(Gitlab(Secret) @@ NoDashboard @@ "review" :> [inline_comments |-> TRUE]
         @@ "queue" :> [worker_count |-> 1])

\* Files it should refuse.
BadFiles ==
    {[exists |-> FALSE, sections |-> <<>>, keyFile |-> FALSE],
     File(Github(Secret, FALSE), TRUE),
     With(<<>>),
     With(Github("", FALSE)), With(Gitlab("")),
     With(Github(Secret, FALSE) @@ Gitlab("")),
     With("gitlab" :> [webhook_secret |-> Secret]),
     With(Gitlab(Secret) @@ "batching" :> [timeout_seconds |-> 0]),
     With(Gitlab(Secret) @@ "retry" :> [max_delay_ms |-> 10]),
     With(Gitlab(Secret) @@ "queue" :> [concurrency_limit |-> 0]),
     File("server" :> ServerSection(0) @@ "llm" :> LlmSection(1) @@ Gitlab(Secret), TRUE),
     File("server" :> ServerSection(1) @@ "llm" :> LlmSection(21) @@ Gitlab(Secret), TRUE),
     File("server" :> ServerSection(1) @@ "llm" :> LlmSection(1)
          @@ Github(Secret, TRUE), FALSE)}

AllFiles == {BothProviders, GitlabAlone} \cup BadFiles
GoodFiles == {BothProviders}

GithubEvent(key, wellFormed, action, hasPr) ==
    [provider |-> "github", key |-> key, wellFormed |-> wellFormed,
     action |-> action, hasPr |-> hasPr]
GitlabEvent(key, wellFormed, kind, mrIn, state, action) ==
    [provider |-> "gitlab", key |-> key, wellFormed |-> wellFormed,
     kind |-> kind, mrIn |-> mrIn, state |-> state, action |-> action]

Opened == GithubEvent(Secret, TRUE, "opened", TRUE)
Merged == GitlabEvent(Secret, TRUE, "merge_request", {"object_attributes"},
                      "merged", "update")

\* Every way through the two handlers.
AllEvents ==
    {Opened, Merged,
     GithubEvent("other", FALSE, "opened", TRUE),
     GithubEvent(Secret, TRUE, "synchronize", FALSE),
     GithubEvent(Secret, TRUE, "closed", TRUE),
     GitlabEvent("other", FALSE, "push", {}, "", ""),
     GitlabEvent(NoKey, TRUE, "merge_request", {"object_attributes"}, "opened", ""),
     GitlabEvent(Secret, TRUE, "pipeline", {"object_attributes"}, "opened", "")}

Get(kind) == [kind |-> kind, filter |-> "none"]
Find(repos, verdicts, limit) ==
    [kind |-> "search",
     filter |-> [repos |-> repos, verdicts |-> verdicts, limit |-> limit]]
AllGets ==
    {Get("metrics"), Get("dashboard"),
     Find(Providers, {"Approve"}, -1), Find({"github"}, Verdicts, 1)}
HealthOnly == {Get("health")}
===============================================================================
