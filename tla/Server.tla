-------------------------------- MODULE Server --------------------------------
(***************************************************************************)
(* The process of src/src/main.rs: it starts with a configuration or       *)
(* refuses, admits webhooks through the limiter to their handlers, runs    *)
(* the reviews they start, and answers requests for metrics and history.   *)
(*                                                                         *)
(* Requests and reviews are tasks on the Threads of the runtime.  Between  *)
(* two awaits a task keeps its thread, so each step needs a free one; a    *)
(* task that runs git (a blocking std::process::Command) keeps its thread  *)
(* until git returns, one that the limiter has admitted until it has its   *)
(* answer, one that adds to the counters until it has added to all of      *)
(* them, and one that scrapes them until it has read them all.             *)
(*                                                                         *)
(* What a review does on the way is ReviewTask, the limiter RateLimiter;   *)
(* here a review ends or comes to be saved, and a client may be denied     *)
(* once the limiter has admitted enough of its calls.  Each provider is    *)
(* one client, and one repository.                                         *)
(***************************************************************************)
EXTENDS Config, Webhook, Metrics, ReviewHistory

CONSTANTS Webhooks,     \* the webhooks that may be sent, once each
          Events,       \* what they may carry
          Files,        \* the configuration files
          Gets,         \* the GET requests, of which one is made
          Given,        \* the verdicts the LLM gives
          AddressKnown, \* whether the client's address reaches the handlers:
                        \* {FALSE} is main as it is (see Receive)
          Threads,      \* worker threads of the runtime
          MaxRequests,  \* RateLimiter::new(60, ...)
          PageSize      \* get_recent_reviews(50)

ASSUME ServerAssumption ==
    /\ IsFiniteSet(Webhooks)
    /\ \A f \in Files :
          /\ f = [exists |-> f.exists, sections |-> f.sections, keyFile |-> f.keyFile]
          /\ f.exists \in BOOLEAN
    /\ \A g \in Gets : g.kind = "search" => g.filter.limit \in Int
    /\ \A e \in Events : e.provider \in Providers
    /\ Given \subseteq Verdicts
    /\ AddressKnown \subseteq BOOLEAN
    /\ Threads \in Nat \ {0} /\ MaxRequests \in Nat /\ PageSize \in Nat

VARIABLES
    file,         \* the configuration file found at the start
    config,       \* AppState.config
    phase,        \* where main is
    addressKnown, \* whether requests carry a ConnectInfo
    shuttingDown, \* ShutdownHandle
    hook,         \* the event of each webhook
    pc,           \* where its request, then its review, is
    reply,        \* the status it was answered with, 0 before
    verdict,      \* the verdict of each review
    left,         \* the counters it has still to add to
    metrics,      \* AppState.metrics
    rows,         \* the reviews table
    get           \* the GET request

startVars == <<file, config, phase, addressKnown>>
hookVars == <<hook, pc, reply>>
reviewVars == <<verdict, left, rows>>
vars == <<startVars, shuttingDown, hookVars, reviewVars, metrics, get>>

NoEvent == [provider |-> "none"]
NoVerdict == "none"
RequestStates == {"idle", "sent", "received", "admitted", "answered"}
ReviewStates == {"spawned", "git", "working", "posted", "recording",
                 "finished", "ended"}
NoStats == GetStats(<<>>)
Requested(kind, filter) ==
    [kind |-> kind, filter |-> filter, state |-> "sent", seen |-> <<>>,
     floor |-> 0, stats |-> NoStats, shown |-> <<>>]
NoGet == [Requested("none", "none") EXCEPT !.state = "idle"]

Init ==
    /\ file \in Files
    /\ config = <<>>
    /\ phase = "starting"
    /\ addressKnown \in AddressKnown
    /\ shuttingDown = FALSE
    /\ hook = [w \in Webhooks |-> NoEvent]
    /\ pc = [w \in Webhooks |-> "idle"]
    /\ reply = [w \in Webhooks |-> 0]
    /\ verdict = [w \in Webhooks |-> NoVerdict]
    /\ left = [w \in Webhooks |-> <<>>]
    /\ metrics = NoMetrics
    /\ rows = <<>>
    /\ get = NoGet
-------------------------------------------------------------------------------
(* Starting *)

\* AppConfig::load: the file is read, completed and validated, or refused.
Load ==
    /\ phase = "starting"
    /\ IF (file.exists => Parses(file)) /\ Valid(Loaded(file), file)
       THEN phase' = "loaded" /\ config' = Loaded(file)
       ELSE phase' = "refused" /\ UNCHANGED config
    /\ UNCHANGED <<file, addressKnown, shuttingDown, hookVars, reviewVars,
                   metrics, get>>

\* The database is opened and the address bound, or main returns an error.
Serve ==
    /\ phase = "loaded"
    /\ phase' \in {"serving", "refused"}
    /\ UNCHANGED <<file, config, addressKnown, shuttingDown, hookVars,
                   reviewVars, metrics, get>>

\* SIGTERM or SIGINT: the flag is raised; nothing reads it.
Signal ==
    /\ phase = "serving" /\ ~shuttingDown
    /\ shuttingDown' = TRUE
    /\ UNCHANGED <<startVars, hookVars, reviewVars, metrics, get>>
-------------------------------------------------------------------------------
(* Webhooks *)

Busy == {w \in Webhooks : pc[w] \in {"admitted", "git", "recording"}}
FreeThread ==
    Cardinality(Busy) + (IF get.state = "scraping" THEN 1 ELSE 0) < Threads

Send(w) ==
    /\ phase = "serving"
    /\ pc[w] = "idle"
    /\ \E e \in Events : hook' = [hook EXCEPT ![w] = e]
    /\ pc' = [pc EXCEPT ![w] = "sent"]
    /\ UNCHANGED <<startVars, shuttingDown, reply, reviewVars, metrics, get>>

\* The extractors run first.  axum::serve(listener, app) serves the router
\* without connection info, so ConnectInfo answers for the handler.
Receive(w) ==
    /\ pc[w] = "sent" /\ FreeThread
    /\ IF addressKnown
       THEN /\ pc' = [pc EXCEPT ![w] = "received"]
            /\ metrics' = Add(metrics, "received")
            /\ UNCHANGED reply
       ELSE /\ pc' = [pc EXCEPT ![w] = "answered"]
            /\ reply' = [reply EXCEPT ![w] = InternalError]
            /\ UNCHANGED metrics
    /\ UNCHANGED <<startVars, shuttingDown, hook, reviewVars, get>>

Answer(w, status, state) ==
    /\ reply' = [reply EXCEPT ![w] = status]
    /\ pc' = [pc EXCEPT ![w] = state]
    /\ UNCHANGED <<startVars, shuttingDown, hook, reviewVars, get>>

\* The client's window is full; which it can only be when that many of its
\* calls were admitted (RateLimiter!DeniedOnlyAtLimit).
Admitted(p) ==
    {w \in Webhooks : /\ hook[w].provider = p
                      /\ pc[w] \notin {"sent", "received"}
                      /\ reply[w] # TooManyRequests}
Deny(w) ==
    /\ pc[w] = "received" /\ FreeThread
    /\ Cardinality(Admitted(hook[w].provider)) >= MaxRequests
    /\ metrics' = Add(metrics, "limited")
    /\ Answer(w, TooManyRequests, "answered")

\* It is not, or has moved on.  Other calls may ask the limiter before this one
\* is answered.
Admit(w) ==
    /\ pc[w] = "received" /\ FreeThread
    /\ pc' = [pc EXCEPT ![w] = "admitted"]
    /\ UNCHANGED <<startVars, shuttingDown, hook, reply, reviewVars, metrics, get>>

\* Mutant of Handle: every answer but 200 counts as a rejection.
HandleCountsAll(w) ==
    LET e == hook[w]
        status == Status(config, e)
    IN  /\ pc[w] = "admitted"
        /\ metrics' = IF status # Ok THEN Add(metrics, "rejected") ELSE metrics
        /\ Answer(w, status, IF StartsReview(config, e) THEN "spawned" ELSE "answered")

\* The handler checks the event and answers, with no await.
Handle(w) ==
    LET e == hook[w]
        status == Status(config, e)
    IN  /\ pc[w] = "admitted"
        /\ metrics' = IF status = Unauthorized THEN Add(metrics, "rejected")
                                               ELSE metrics
        /\ Answer(w, status, IF StartsReview(config, e) THEN "spawned" ELSE "answered")
-------------------------------------------------------------------------------
(* Reviews *)

Goes(w, from, to) ==
    /\ pc[w] = from
    /\ pc' = [pc EXCEPT ![w] = to]
    /\ UNCHANGED <<startVars, shuttingDown, hook, reply, get>>

StartGit(w) ==
    FreeThread /\ Goes(w, "spawned", "git") /\ UNCHANGED <<reviewVars, metrics>>

\* Mutant of GitReturns: the fetch from GitLab asks for a password.
GitAsks(w) ==
    /\ hook[w].provider = "github"
    /\ \E to \in {"working", "ended"} : Goes(w, "git", to)
    /\ UNCHANGED <<reviewVars, metrics>>

\* With a diff to review; or it failed, or the diff is empty or trivial.
GitReturns(w) ==
    /\ \E to \in {"working", "ended"} : Goes(w, "git", to)
    /\ UNCHANGED <<reviewVars, metrics>>

\* Cache, LLM and posting: the review is posted, or the task ends as failed.
Work(w) ==
    /\ FreeThread
    /\ \/ \E v \in Given : /\ verdict' = [verdict EXCEPT ![w] = v]
                          /\ Goes(w, "working", "posted")
       \/ Goes(w, "working", "ended") /\ UNCHANGED verdict
    /\ UNCHANGED <<left, rows, metrics>>

\* save_review, whose error is dropped; then record_review starts.
Save(w) ==
    /\ FreeThread
    /\ rows' \in {rows, SaveReview(rows, hook[w].provider, verdict[w])}
    /\ left' = [left EXCEPT ![w] = RecordStart(verdict[w])]
    /\ Goes(w, "posted", "recording")
    /\ UNCHANGED <<verdict, metrics>>

Record(w) ==
    /\ pc[w] = "recording"
    /\ metrics' = Add(metrics, Head(left[w]))
    /\ left' = [left EXCEPT ![w] = Tail(@)]
    /\ pc' = IF Len(left[w]) = 1 THEN [pc EXCEPT ![w] = "finished"] ELSE pc
    /\ UNCHANGED <<startVars, shuttingDown, hook, reply, verdict, rows, get>>
-------------------------------------------------------------------------------
(* Requests that only read *)

\* The order render_prometheus loads the counters in.
ScrapeOrder == <<"total", "Approve", "RequestChanges", "Comment", "latency", "repo">>
DashboardRoutes == {"dashboard", "stats", "search"}
Finished == {w \in Webhooks : pc[w] = "finished"}
Begun == {w \in Webhooks : pc[w] \in {"recording", "finished"}}

Reads(change) ==
    /\ get' = change
    /\ UNCHANGED <<startVars, shuttingDown, hookVars, reviewVars, metrics>>

Ask ==
    /\ phase = "serving"
    /\ get.state = "idle"
    /\ \E g \in Gets : Reads(Requested(g.kind, g.filter))

\* The routes of the dashboard are there only if it is enabled.
NotFound ==
    /\ get.state = "sent" /\ FreeThread
    /\ get.kind \in DashboardRoutes
    /\ ~SectionOf(config, "dashboard").enabled
    /\ Reads([get EXCEPT !.state = "not found"])

Routed(kinds) ==
    /\ get.state = "sent" /\ FreeThread
    /\ get.kind \in kinds
    /\ get.kind \in DashboardRoutes => SectionOf(config, "dashboard").enabled

StartScrape ==
    /\ Routed({"metrics"})
    /\ Reads([get EXCEPT !.state = "scraping", !.floor = Cardinality(Finished)])

\* One load.
Scrape ==
    /\ get.state = "scraping"
    /\ LET n == Len(get.seen) + 1
           seen == Append(get.seen, metrics[ScrapeOrder[n]])
       IN  Reads([get EXCEPT !.seen = seen,
                             !.state = IF n = Len(ScrapeOrder) THEN "answered"
                                                               ELSE "scraping"])

\* get_stats, for the health check, the statistics and the page's numbers.
ReadStats ==
    /\ Routed({"health", "stats", "dashboard"})
    /\ Reads([get EXCEPT !.stats = GetStats(rows),
                         !.state = IF get.kind = "dashboard" THEN "counted"
                                                             ELSE "answered"])

\* The page's rows, read after the mutex was released and taken again.
ReadRows ==
    /\ get.state = "counted" /\ FreeThread
    /\ Reads([get EXCEPT !.shown = GetRecentReviews(rows, PageSize),
                         !.state = "answered"])

Search ==
    /\ Routed({"search"})
    /\ Reads([get EXCEPT !.shown = SearchReviews(rows, get.filter),
                         !.floor = Len(rows), !.state = "answered"])
-------------------------------------------------------------------------------
Request(w) == Receive(w) \/ Deny(w) \/ Admit(w) \/ Handle(w)
Review(w) == StartGit(w) \/ GitReturns(w) \/ Work(w) \/ Save(w) \/ Record(w)
Reader == NotFound \/ StartScrape \/ Scrape \/ ReadStats \/ ReadRows \/ Search

Next ==
    \/ Load \/ Serve \/ Signal
    \/ \E w \in Webhooks : Send(w) \/ Request(w) \/ Review(w)
    \/ Ask \/ Reader

Spec == Init /\ [][Next]_vars

\* The runtime polls every task that can go on; git returns.
FairSpec ==
    /\ Spec
    /\ \A w \in Webhooks : WF_vars(Request(w)) /\ WF_vars(Review(w))
    /\ WF_vars(Reader)
-------------------------------------------------------------------------------
(* Properties *)

\* The type invariant.
TypeOK ==
    /\ file \in Files /\ addressKnown \in AddressKnown /\ shuttingDown \in BOOLEAN
    /\ phase \in {"starting", "loaded", "serving", "refused"}
    /\ hook \in [Webhooks -> Events \cup {NoEvent}]
    /\ pc \in [Webhooks -> RequestStates \cup ReviewStates]
    /\ \A w \in Webhooks : pc[w] # "idle" => hook[w] \in Events
    /\ reply \in [Webhooks -> {0, Ok, BadRequest, Unauthorized, TooManyRequests,
                               InternalError}]
    /\ verdict \in [Webhooks -> Verdicts \cup {NoVerdict}]
    /\ left \in [Webhooks -> Seq(ReviewCounters)]
    /\ metrics \in [Counters -> Nat]

\* Whatever the file says or leaves out, a review runs only for an event whose
\* sender knew the provider's secret, and that secret is not empty: the checks
\* of the handlers (github.rs:253, gitlab.rs:107) and of validate
\* (config.rs:486-513), which are far apart, leave no gap between them.
OnlyAuthenticRuns ==
    \A w \in Webhooks :
        pc[w] \in ReviewStates =>
            /\ hook[w].key \notin {NoKey, ""}
            /\ hook[w].provider \in DOMAIN config
            /\ hook[w].key = config[hook[w].provider].webhook_secret

\* The two places that hold defaults, the serde attributes and the Default
\* implementations of config.rs, agree: a header with nothing below it
\* changes nothing.  Only the two flags of [review] that have a plain
\* #[serde(default)] (config.rs:71, 73) are then off instead of on.
FlagsOffWhenGiven ==
    {<<"review", "inline_comments">>, <<"review", "summary_comment">>}
WithHeader(s) ==
    [file EXCEPT !.sections = FillIn(@, [x \in {s} |-> <<>>])]
DefaultsAgree ==
    phase = "loaded" =>
        \A s \in Optional \ DOMAIN file.sections :
            /\ DOMAIN Loaded(WithHeader(s))[s] = DOMAIN config[s]
            /\ \A x \in DOMAIN config[s] :
                   (Loaded(WithHeader(s))[s][x] # config[s][x])
                       <=> <<s, x>> \in FlagsOffWhenGiven

\* The counters say what happened: webhooks received, limited and rejected
\* are those that reached the handler, were answered 429, were answered 401
\* (main.rs:95-100, github.rs:255, gitlab.rs:109), and while no review is
\* being recorded all counters of reviews agree with each other.
Answered(status) == {w \in Webhooks : reply[w] = status}
CountersAddUp ==
    /\ metrics["received"] =
           Cardinality({w \in Webhooks : addressKnown /\ pc[w] \notin {"idle", "sent"}})
    /\ metrics["limited"] = Cardinality(Answered(TooManyRequests))
    /\ metrics["rejected"] = Cardinality(Answered(Unauthorized))
    /\ Begun = Finished =>
           \A n \in {metrics["total"], metrics["latency"], metrics["repo"],
                     metrics["Approve"] + metrics["RequestChanges"]
                                        + metrics["Comment"]} :
               n = Cardinality(Finished)

\* A scrape is no snapshot, but each of its numbers of reviews, and the sum
\* of the verdicts, lies between the reviews fully recorded when it began and
\* those whose recording had begun when it ended (metrics.rs:80-104 against
\* metrics.rs:159-310): two of them differ by no more than the reviews
\* recorded meanwhile.
ScrapeWithinOverlap ==
    get.kind = "metrics" /\ get.state = "answered" =>
        LET n == get.seen
        IN  \A x \in {n[1], n[2] + n[3] + n[4], n[5], n[6]} :
                get.floor <= x /\ x <= Cardinality(Begun)

\* What a reader is shown is whole although reviews are saved meanwhile.  The
\* page takes its numbers and its rows in two holds of the mutex
\* (dashboard.rs:97-98): it lists the newest reviews without a gap, at least
\* as many as its total says, up to the size of a page, and none of those the
\* total counts is missing in favour of older ones.  A search leaves a match
\* out only when the limit is used up by newer ones.
PageCoversTotal ==
    get.state = "answered" =>
        LET n == Len(get.shown) IN
        /\ get.kind = "dashboard" =>
            /\ n >= (IF get.stats.total < PageSize THEN get.stats.total ELSE PageSize)
            /\ n > 0 => get.shown[1] >= get.stats.total
            /\ \A i \in 1 .. n - 1 : get.shown[i] = get.shown[i + 1] + 1
        /\ get.kind = "search" =>
            \A i \in 1 .. get.floor :
                Matches(rows[i], get.filter) =>
                    \/ \E j \in 1 .. n : get.shown[j] = i
                    \/ n = get.filter.limit /\ \A j \in 1 .. n : get.shown[j] > i

\* Every webhook and every GET is answered, although reviews run git on the
\* threads of the runtime (review.rs:103-135, called in an async block), and
\* also after a signal, which ends nothing (main.rs:77-83).
EveryRequestAnswered ==
    []<>(/\ \A w \in Webhooks : pc[w] \notin {"sent", "received", "admitted"}
         /\ get.state \in {"idle", "answered", "not found"})

\* README.md:168: "Receive GitHub webhook events. Supports `pull_request`
\* events (opened, synchronize)."  Such an event, signed with the configured
\* secret and not over the rate limit, has started a review when it has been
\* answered.
EventsStartReviews ==
    \A w \in Webhooks :
        LET e == hook[w]
        IN  ~ /\ pc[w] = "answered" /\ reply[w] # TooManyRequests
              /\ e.provider = "github" /\ "github" \in DOMAIN config
              /\ e.key = config["github"].webhook_secret
              /\ e.wellFormed /\ e.hasPr /\ e.action \in {"opened", "synchronize"}
===============================================================================
