# A TLA+ model of SentryShark

SentryShark is a self-hosted review bot: webhooks of GitHub and GitLab start a
background task that fetches the branch, asks a local LLM for a review and
posts it. This directory models the parts of `src/src/` whose correctness
depends on the order of events, its line-by-line passes over diffs and LLM
answers, and the configuration it starts with, checks them with TLC on small
instances, and proves with TLAPS, for all instances, every invariant and every
action property that a passing run checks.

## 1. Inventory

| Part | Source | State | Operations | Hard behaviour |
|---|---|---|---|---|
| Review queue | `queue.rs` | bounded channel, resumed queue, `active_counts` behind an `RwLock` | `new` (resume), `submit`, dispatcher loop, workers | interleaving, crash and restart, shutdown, full channel |
| Job table | `db.rs` | `review_jobs` rows | `enqueue_job`, `update_job_status`, `get_pending_jobs` | survives a crash in the middle of a job |
| Shutdown handle | `shutdown.rs` | one atomic flag | `shutdown`, `is_shutting_down`, `wait_for_shutdown` | read by loops at their own pace |
| Rate limiter | `rate_limit.rs` | per address a list of instants behind a mutex | `is_allowed`, `count`, `cleanup`, cleanup task | the clock is read before the mutex is awaited |
| Review task | `github.rs`, `gitlab.rs` | locals of the task | clone, auto-approve, cache, LLM, post, save | remote failures, lost answers, partial posts, tasks of one request racing |
| Review cache | `cache.rs`, `db.rs` | `review_cache` rows with a time to live | `get`, `set` | check, then act across an LLM call |
| Review engine | `review.rs` | `pending_batches` | `clone_and_diff`, `add_to_batch`, `get_batch`, `clone_and_diff_batch`, `should_process_batch` | whose state is it: one engine per task |
| Retry | `retry.rs` | loop counter | `retry_with_backoff` | bound, repetition of what was done already |
| Metrics | `metrics.rs` | atomic counters, per-repository map | `record_*`, renderers | early returns that count nothing or twice |
| History | `db.rs` | `reviews` rows | `save_review`, queries | written after the platform was told |
| LLM client | `llm.rs` | none | `review_code`, `build_prompt` | 120 s timeout |
| GitHub authentication | `github.rs` | cached installation token behind a mutex | `get_token` | made anew for every call; mutex held across the exchange |
| Auto-approver, diff filter, rule engine, review parser | `auto_approve.rs`, `diff_filter.rs`, `rule_engine.rs`, `inline_comments.rs` | none (pure) | line-by-line passes over text | boundaries of sections, line numbers |
| Webhook handlers | `github.rs`, `gitlab.rs` | none | `webhook_handler` up to the spawn | checks in different orders, early returns |
| Server | `main.rs`, `lib.rs` | router, `AppState` | start, signals, `github_webhook`, `gitlab_webhook`, `health_check`, `metrics_handler` | admission, blocking calls on the runtime's threads |
| Configuration | `config.rs` | none | `load`, `validate`, the getters | two places for every default, checks far from what relies on them |
| Dashboard | `dashboard.rs` | none | page, statistics, search | two reads for one page |
| Prompt templates | `templates.rs` | none | texts | none |

How they interact. `main` builds one `AppState` (configuration, database,
metrics, limiter). A webhook passes the limiter, is verified and parsed by its
handler, and the handler spawns a review task and answers 200 at once. Tasks
run on the same threads as the requests, and block them while git runs. They
share the database (one `Mutex<Connection>`, so every database call is atomic)
and the metrics. `ReviewQueue` is a library type: nothing in `main` makes one,
so the queue is modelled with any number of callers of `submit`, as its tests
use it.

What makes each modelled part correct:

* queue: a job is stored before it is held, held in one place only, never
  dropped while the loop runs, started only within its repository's limit;
  slots are given back; shutdown drains and ends; blocked submitters return;
* limiter: never more than `max_requests` per client and window, refusals only
  at the limit, idle clients forgotten;
* review task: a review belongs to the diff that was fetched, is not older than
  the event, is recorded only after it is completely visible, every end is
  counted once, retries are bounded, every task ends;
* passes over text: files are kept or dropped as a whole, what is approved
  unseen is known exactly, a rule match names the added line it is about, a comment is made from
  one block of the answer;
* batches and tokens: what a task brings is in one list, for which somebody is
  waiting (not: that commits of several events share a review, see section 3); a
  token that is handed out is still good;
* server: nothing runs that was not authenticated, the counters say what
  happened, a reader sees no gaps, every request is answered.

`PROJECT.json` lists the hazards at their lines; the properties below exist for
them.

## 2. Modules

| Module | What it is |
|---|---|
| `JobTable` | the rows of `review_jobs` and the three operations on them, as operators |
| `ReviewQueue` | `queue.rs` over `JobTable`: callers, dispatcher, workers, shutdown flag, host |
| `JobSlots` | the abstract promise of the queue: stored, waiting, running, done, at most `Limit` running per repository |
| `MCReviewQueue` | instances for TLC |
| `ReviewQueueProofs` | TLAPS proofs about `ReviewQueue` |
| `RateLimiter`, `MCRateLimiter`, `RateLimiterProofs` | the limiter, its instances, its proofs |
| `ReviewTask`, `MCReviewTask`, `ReviewTaskProofs` | the background tasks of both platforms over cache, history and counters, their instances, the proofs |
| `DiffText` | the lines of `git diff`, which line may follow which, and the helpers all passes share |
| `Enumeration`, `EnumerationProofs` | what a loop over `1 .. n` collects that keeps some of the numbers; that it is the one increasing sequence of them, and what one more number does to it |
| `DiffFilter`, `AutoApprove`, `RuleEngine`, `ReviewParser` | one pass each, a loop iteration as an operator |
| `Config` | the configuration file, defaults and validation, as operators |
| `Webhook` | the checks of the two handlers, as operators on an event |
| `Metrics`, `ReviewHistory` | counters and the order they are visited in; the table of reviews and its queries; operators |
| `Server`, `MCServer`, `ServerProofs` | the process over these four: start, signals, requests, reviews, readers; instances; proofs |
| `GitHubAuth` | the token cache and the exchange, for any callers and instances |
| `BatchReview`, `MCBatchReview`, `BatchReviewProofs` | tasks with batching on, over the engine's batches and over `GitHubAuth`; instances; proofs |
| `ReviewText`, `MCReviewText` | the passes over texts that grow line by line, with what they should give; instances |
| `ReviewTextProofs`, `ReviewCommentsProofs` | the proofs about the passes; the second is about the comments of an answer, on top of the first |

### ReviewQueue

An action ends where the code awaits. `submit` is `Enqueue` (or `EnqueueFails`)
followed by `Send` (or `SendFails`), or by `DropSubmit`: the caller drops the
future while it waits for room at line 240, the process goes on, and the row
stays `pending` with nobody holding the job until the next start reads it.
`NoJobLost` excepts these rows by name. The dispatcher's position is `pc`:
`top` (line 105), `get` (117), `recv` (125), `check` (143), `mark` (159),
`exited` after a break, `down` without a process. `hand` is the local `job`.
A worker goes `spawned`, `running`, `finished`, `done`; it holds its slot until
the last step. `pid[w]` is `JobPayload.id`: any number its caller chose, or the
row's id after a restart; `WorkerStart` updates the row of that number, which
may be another job's or none. `Crash` keeps the table only; `Start` is
`ReviewQueue::new` on it.

Abstractions. A job is an element of `Works` and is submitted once; the texts
of its payload are left out. Absent keys of `active_counts` are 0. `created_at`
orders rows like their ids, which assumes a wall clock that is not set back.
The sleep of the placeholder worker (one round of 100 ms) is a step. The job
counters of `Metrics` are written and never read back; they are left out.
`update_job_status` may fail at any time (its error is ignored).

### RateLimiter

Each call of `is_allowed`, `count` and `cleanup` is a stamp action (the clock
is read) and a run action (the mutex is held), so the mutex can be granted in
another order than the stamps. A `Vec<Instant>` is the set of admitted calls
that pushed its elements. `horizon` and `inOrder` are history: the latest stamp
a list was pruned with, and whether its prunings came in time order.
`Instant::duration_since` of a later instant is 0, as in the standard library.

### ReviewTask

One task per delivered event. Its position is `pc`: `batch` (waiting for
`batch_timeout`), `clone`, `approve`, `lookup`, `llm`, `store`, `post`, `save`,
`record` (the row is written or lost, the counter comes next), and then an end: `skipped`, `failed`, `approved`, `reviewed`. A crash turns ends
into `past` and running tasks into `lost`, and clears the counters; cache and
history are in the database and stay. `version` is the branch, `head` the commit
the event names (any commit so far: events are late and out of order), `seen`
what the fetch brought. A post may be shown although its answer is lost
(`PostFails`, `ApproveAttempt`). GitHub takes a review in one call; GitLab takes
one call per inline comment and one for the summary (`Pieces`). `config` is
chosen once, at the start.

Abstractions. A diff is an element of `Diffs` and its hash is itself; being
trivial or empty is a property of the diff. A review is its number of inline
comments, with the diff the LLM was asked about as history. Fetching a base and
a head is one step that may fail; the diff is made from what it fetched. Which
error texts count as transient is left open (both happen). Delays are left out.
A batch has one entry, because the engine that keeps it belongs to the task;
`BatchReview` has batches of several. Tokens are in `GitHubAuth`, latency and
per-repository counters in `Server`.

### Server

`phase` is where `main` is: `starting`, `loaded` (line 31), `serving` (83), or
`refused`. A webhook and the review it starts have one position, `pc`: `sent`,
`received` (the limiter is asked, line 97), `admitted` (it let the call pass; the
handler answers without an await, while others may ask), `answered`, or `spawned`, `git` (the
thread is blocked), `working`, `posted`, `recording`, `finished`, `ended`. What
happens to a review between fetch and post is `ReviewTask`; here it ends or
comes to be saved. `record_review` adds to one counter per step and a scrape
loads one per step; the page of the dashboard reads numbers and rows in two
steps. A step of a task needs a free thread; `admitted`, `git`, `recording` and
a scrape hold theirs. The limiter appears as what `RateLimiterProofs` shows of it: a
client may be refused only if `MaxRequests` of its calls were admitted.

`AddressKnown` says whether a request carries its connection info, which the
handlers need (`ConnectInfo`, `main.rs:89`). `main` does not arrange for it, so
`{FALSE}` is the program; with `TRUE` the rest of the server can be looked at.

An event is what the handlers look at; a signature is the secret it was made
with, so that verifying it is comparing secrets. A file is the fields it gives.
Abstractions: environment and paths; TOML syntax; temperatures are tenths;
lists of patterns are one value. `created_at` is read under the mutex, so rows
are in its order as long as the wall clock is not set back; times are not in
the filters of a search. Counters are in the order the code visits them,
although they are relaxed atomics: the properties bound each number by itself,
so another order changes nothing. The counters of a failed, trivial or cached
review are in `ReviewTask`. The limits of SQLite and of integers are not reached.

### GitHubAuth and BatchReview

A caller goes `waiting` for the mutex, then `listing` and `exchanging` (holding
it), `issued` when GitHub has made the token and the answer is under way, and
`got` or `failed`. A token is the three times that matter: issued, received,
returned. Any request may fail, in particular when the JWT is too old. `Tick` is
time; nothing bounds how long a request takes.

A task of `BatchReview` adds an entry, sleeps if it made the batch or leaves if it
did not, takes the batch, fetches for every entry (any of the diffs may be
missing), asks the LLM and posts with a token. An entry is the `CommitRange`
(`github.rs:334`) with, as history, the task that brought it. A range is the
names of two branches, the same for all events of a request, so entries with one
range are fetched one after the other as the same newest branch: two of them in
one list give the same diff twice, two in different lists give it to the LLM
twice. The model tells entries apart, and says nothing of commits.

`instance` says which engine and which `GitHubAuth` a task uses: its own, as in
the program (`github.rs:327`, `545`), or with `shared` one for all, as tests of
`review.rs` use an engine. The shared cases of the engine, of the token cache and
of its mutex are what these types promise to a program that shares them;
SentryShark does not.

### ReviewText and the passes

`FilterLine`, `CheckLine` and `ParseLine` are one iteration of the loops of
`filter_diff`, `check_diff` and `parse`; the record they work on has the loop's
locals. `Flush` and `Saved` are what the code does at the next header and again
after the loop. A step of `ReviewText` reads any line that may come next, so a
state is a text with everything the loops know after it, and the properties
compare that with a definition that looks at the whole text at once.

A line is its kind and what the code looks at. A changed line is "code", "odd"
(a rule matches it), "blank", or begins with `--` or `++` after its sign: the
passes take such a line for a header. `diff --git` carries a path; the passes
take its third word, so a blank in a path cuts it (`FirstWord`), and a renamed
file is judged by its old name. Matching a pattern is a relation, `Matching`, on
the text as it is; lower-casing is a function. A hunk header without a count
whose function name contains a comma has no readable start (`NoStart`): the
comma found in `parse_hunk_start_line` is then the wrong one. In answers the
texts of comments and summary are the numbers of the lines they are made from.

The rules that match a line, the rows that match a search and the lines a
property compares with are collected by `Ascending` (`Enumeration`): the numbers
of a set in their order, as a recursive function, about which it can be proved
what `SelectSeq` would only compute.

`at` in a rule match is history. A filter that is disabled, and lines before
the first `diff --git`, are left out: the engine does not call the pass in the
first case and git writes none in the second. `check_content` (the same
matching without file and line) is left out.

## 3. Runs

| Run | Checks | Instance | Expected |
|---|---|---|---|
| `queue_crash` | `TypeOK` `WithinConcurrencyLimit` `OnePlace` `NoJobLost` `StoredBeforeHeld` `AtMostOneReceivedWaits` `DrainedExit` `SlotsAreKept` `ImplementsSlots` | 3 jobs of 2 repositories, limit 1, channel of 1, ids 0 and 1, one restart | pass |
| `queue_live` | `AcceptedRuns` `RequeuedRuns` `ShutdownEnds` `SubmitReturns` | 3 jobs of 2 repositories, one restart after which nobody submits | pass |
| `queue_restart` | `AcceptedIsRecoverable` | as `queue_crash` | violated |
| `limiter_safe` | `TypeOK` `WithinLimit` `WindowLimitInOrder` `DeniedOnlyAtLimit` `IdleKeyForgotten` | 2 calls of one client and 1 of another, 1 per window of 2 ticks | pass |
| `limiter_window` | `LimitsRequestsPerWindow` | 4 calls of one client, 2 per window | violated |
| `task_ends` | `TypeOK` `PostedBeforeRecorded` `SummaryLast` `ReviewFitsDiff` `NotOlderThanEvent` `ApprovalsBounded` `EveryEndCounted` `TaskEnds` | 2 events, 2 requests of 2 pushes each, 3 configurations, 2 retries, 2 inline comments, one crash | pass |
| `task_identical` | `SkipsIdenticalDiffs` | 2 events | violated |
| `server_safe` | `OnlyAuthenticRuns` `DefaultsAgree` `CountersAddUp` `ScrapeWithinOverlap` `PageCoversTotal` `EveryRequestAnswered` | 15 files, 2 webhooks out of 8 events, 1 GET out of 4, 2 threads, 1 call per client, pages of 1 | pass |
| `server_webhooks` | `EventsStartReviews` | one file, the same webhooks, `AddressKnown = {FALSE}` | violated |
| `batch_shared` | `EntryInOneBatch` `TokenUsable` | 3 tasks of 2 requests, shared or not, tokens that live 4 ticks and are kept 3, 6 ticks | pass |
| `text_passes` | `FilterKeepsWholeFiles` `TrivialHidesExactly` `MatchesAreAddedLines` `MatchLineIsOneTooHigh` `CommentsComeFromBlocks` `SummaryIsItsSections` | all diffs of up to 9 lines over 5 paths, all answers of up to 5 lines | pass |
| `text_excluded` | `SkipsExcludedFiles` | the same texts | violated |

Why the bounds are enough to be interesting. A channel of one fills with the
second job; a limit of one makes the second job of a repository wait while the
other repository's job is behind it; ids 0 and 1 are an id of no row and the id
of the first row, so that a worker may mark another job's row; one restart is
enough to resume rows while callers submit. In the limiter a window of two
ticks has a middle, so that calls expire one at a time, and stamps and grants
can cross. Only the calls of one client are counted (`Counted`), and after a
restart in `queue_live` nobody submits (`OwnerLives`): a stamp of a count is as
good as another, and a submitter after the restart is in `queue_crash`. In the
task two pushes make `head`, `seen` and the newest version
differ, and both requests reach the same diff, so the cache is shared across
platforms. In the server two webhooks are a review that is saved and counted
while another goes on or is refused, and with a scrape or a git in between two
threads can both be taken; one call per client lets the second be refused; a
page of one row is full with the first review. The files are every check of
`validate` violated once, and the events every way through the two handlers;
the LLM gives two of the three verdicts, which differ in nothing else. With two
tasks of one request and one of another an entry can be added before, while and
after another is waited for; six ticks see a token expire and another exchanged.
A diff of nine lines has a file with two hunks, a header after a file
with a hunk, a file with a hunk after one that has none (a renamed one), or an
added line after a removed one and a marker; an answer of five
has a block after a block that lacks its number, and a summary between two
blocks. Every pass forgets all but its locals at a header or a `FILE:`, so more
files repeat what two show. Bounds are `MaxLives`, `Capacity`, `LastArrival`, `MaxTime`,
`MaxVersion`, `MaxInline`, `MaxCrashes`, `MaxDiff`, `MaxAnswer`, `OwnerLives`;
each is named as one in its module.
Symmetry is used only in runs without liveness, and only between jobs of the
same repository and calls of the same client.

Deadlock is not checked: every one of these systems may stop (the loop has
ended, all calls are decided, all tasks have ended, no webhook is left).

Fairness. `ReviewQueue`: the dispatcher, each worker and each blocked `send`
take a step if they can: tokio polls every ready task, and the channel's
semaphore is fair. Callers, crashes and the shutdown are not fair.
`RateLimiter`: time passes, the cleanup interval fires, the tokio mutex is
granted in turn. `ReviewTask`: every task is polled and every remote call
returns; the LLM client has a timeout of 120 s, for git and the platform APIs
(made with `reqwest::Client::new()`) this is an assumption about them.
`Server`: every request and every review is polled while there is a thread, and
git returns; nobody has to send anything, and signals are not fair. A review
holds a thread for a bounded number of steps, and there are finitely many
webhooks, so weak fairness is enough for the others to get it.

### What the violated runs show

* `queue_restart`: `CHANGELOG.md:18` promises "job persistence in SQLite,
  survives restarts". A job whose row says `running` when the process dies is
  not read by `get_pending_jobs` afterwards. No step writes `completed` either.
* `limiter_window`: `rate_limit.rs:8` "Limits requests per IP address within a
  time window". `now` is read before the mutex: a call stamped 1 that is decided
  after a cleanup at 2 finds the call of time 0 gone and is admitted, although
  both are in the window that ends at 1. It needs a call that waits for the
  mutex while a later reader prunes; `WindowLimitInOrder` says that without
  this the limit holds.
* `task_identical`: `README.md:18` "Skip re-reviewing identical diffs". Between
  lookup and store nothing marks a diff as being reviewed.
* `text_excluded`: `README.md:122` "Skip files matching these patterns". The path
  is lower-cased (`diff_filter.rs:120`) and the pattern is not, so a pattern with
  a capital letter, such as the lockfile pattern `Cargo.lock` of `README.md:119`,
  matches no file.

* `server_webhooks`: `README.md:168` "Receive GitHub webhook events. Supports
  `pull_request` events (opened, synchronize)". `main.rs:83` is
  `axum::serve(listener, app)`, where axum 0.7 needs
  `app.into_make_service_with_connect_info::<SocketAddr>()` for the extractor of
  `main.rs:89` and `108`; without it the extractor answers 500 and the handler
  never runs. The tests call the parts, not `main`. With `AddressKnown = {TRUE}`
  the property holds of the same instance.

### Where the code does less than the docs say, stated by a passing run

* Batching. `README.md:13` says "batch commits", `PLAN.md:20` "Batch multiple
  commits into single review", done. Every task makes its own `ReviewEngine`
  (`github.rs:327`, `gitlab.rs:183`), and with it its own `pending_batches`, so no
  event ever finds the batch of another: events that come while a task waits for
  `batch_timeout` wait as well, and then fetch and review the same newest branch
  side by side. The third part of `EntryInOneBatch` says it for all instances:
  entries of one list came through one engine, so that in the program every list
  has one entry. A shared engine would put them in one list, but with equal
  ranges, and the LLM would get the same diff once for each.
* Auto-approval. `is_whitespace_only` takes a changed line that begins with `--`
  or `++` after its sign for a header and looks at lines only, so that such lines,
  and files without a hunk (binary, renamed, of another mode), are approved unseen
  with a diff whose other changed lines are blank. `TrivialHidesExactly` states
  that, and that nothing else is overlooked. What is a lockfile or documentation is
  decided by the path the pass cuts out of the header (`ExtractFilePath`), not by
  the file's name.
* `MatchLineIsOneTooHigh`: rule matches are reported one line too high, and two
  after a "No newline" marker.
* `DefaultsAgree`: `review.inline_comments` and `summary_comment` are off when
  `[review]` is given without them and on when it is not (`config.rs:71`, `317`).
* `EveryEndCounted`: a failed approval comment is counted as an approval
  (`github.rs:392`); "approved" counts tasks that ended there, not comments.

Known and not run. Graceful shutdown (`README.md:19` "Complete in-flight reviews
before exiting", `CHANGELOG.md:21`, `PLAN.md:58`): the flag that signals raise is
read by nobody in `main` (action `Signal` changes nothing else, and no action
leaves `serving`), and installing the handlers takes away their default, so
SIGTERM and SIGINT end nothing. Searching by severity is accepted and ignored (`db.rs:310-350`). The token cache is never used, as every
call makes its own `GitHubAuth` (`github.rs:545`), and with a shared one a
request without an answer would keep the mutex. A batch with several commits
reviews what could be fetched of it and says nothing of the rest
(`review.rs:254`). The settings of `[retry]`, `[rules]` and `[queue]` are checked
and used by nobody. `worker_count` has no effect (`queue.rs:216` is an empty
loop); a batch is neither auto-approved nor cached; changed lines that begin
with `++` are not seen by `check_diff`; the row of a review is filed under the
event's `head_sha` (`github.rs:565`) although the fetch may have brought a newer
commit.

## 4. Proofs

TLAPS proves, for every value of the constants that satisfies the assumptions
named in the modules (`QueueAssumption`, `LimiterAssumption`, `TaskAssumption`,
`ServerAssumption`, `AuthAssumption`, `BatchAssumption`, `DiffAssumption`,
`RulesAssumption`, `ParserAssumption`, `BoundsAssumption`), the results below. The
assumptions are types of constants, that markers such as `NoFile` are no values of
the type they stand beside, and that there are finitely many jobs, calls, tasks of
`ReviewTask` and webhooks, which are counted.

**Queue** (`ReviewQueueProofs`; any jobs, repositories, limit, capacity, caller
ids, any number of restarts).

* `QueueTypes`: the type invariant. It holds two facts the others use: the
  channel never exceeds its capacity, and `hand` is a job exactly between
  taking it and running or pushing it back.
* `QueueOnePlace`: a job is in one place. `OnePlace` is not inductive. `Places`
  adds that a job not yet sent (`idle`, `sending`) is held nowhere, that a job
  has one row, which it can only have after `submit` began, and that without a
  process nothing is held; this is what makes a resumed job differ from every
  job in a channel.
* `QueueWithinConcurrencyLimit`: `active_counts` is the number of workers with
  a slot, and at most `Limit`. The limit is checked at `check` and the count
  raised at `mark`; `Slotted` adds that at `mark` there still is a free slot:
  only the dispatcher raises counts, workers only lower them. `Places` is needed
  so that the worker that is started was in no slot before.
* `QueueDrainedExit`: an action property from the same invariant: the loop ends
  only with `resumed` and `hand` empty and, on shutdown, no worker left.
* `QueueStoredBeforeHeld`. `Stored` adds that a job being sent has a row. Two
  lemmas say what a step can do: rows stay (`RowsStay`), and what newly enters
  memory was being sent or is in the table (`NewlyHeld`).
* `QueueAtMostOneReceivedWaits`. `HeadOfLine` restates the cardinality as "any
  two such jobs are the same", and adds that no submit of a dead process still
  counts as accepted, so that what a restart resumes is not counted.
* `QueueNoJobLost`: the listing of the restart leaves out no pending row
  (`ListingIsComplete`, by the pigeonhole principle), a pending row comes from
  `Enqueue` only (`PendingBefore`), and a loop that goes on lets go of nothing
  (`HeldStays`).
* `QueueSlotsAreKept`: an action property, action by action.
* `QueueImplementsSlots`: the refinement of `JobSlots`. Under `OnePlace` the cases
  of `Phase` exclude each other (`PhaseNow`); each action is then `Store`, `Enter`,
  `StartJob`, `FinishJob`, `Close`, `Halt` or a stutter. `StartJob` needs `Slotted`,
  `Close` and `Halt` need `StoredBeforeHeld` (what leaves memory is still stored).

**Limiter** (`RateLimiterProofs`; any calls, clients, limit, window).

* `LimiterTypes`, and `LimiterWithinLimit`: no client has more than
  `max_requests` admitted calls within the window of the latest stamp its list
  was pruned with. `StoreOK`: a list holds admitted calls only, at most
  `max_requests` of them, and an admitted call missing from it had expired at
  `horizon`; so the calls the property counts are all still in the list.
* `LimiterWindowInOrder`: if a list was always pruned in time order, no window
  at all has more. A call decided at the horizon sees all of the window that
  ends there, and later calls only move the horizon up. The hypothesis cannot be
  dropped: run `limiter_window`.
* `LimiterDeniedOnlyAtLimit`: a refusal, an action property. A list that is full
  after it was pruned with the stamp of the call consists of admitted calls of
  that client, all inside the window at the stamp.

**Review task** (`ReviewTaskProofs`; any tasks, requests, diffs, configurations,
bounds).

* `TaskTypes`, `TaskPostedBeforeRecorded`, `TaskSummaryLast`,
  `TaskReviewFitsDiff`, `TaskNotOlderThanEvent`, `TaskApprovalsBounded` follow
  from one invariant: `TypeOK`; `Fetched`, that the fetch brought a version not
  before `head` and the review in hand is of that diff; `Shown`, that what is
  visible is always a first part `1 .. k` of the review, exactly the acknowledged
  part while there is something left to post, and all of it from `save` on;
  `Approved`, that approval comments do not outnumber attempts; and `CacheFits`,
  that an entry is of the diff it is filed under. The properties by themselves
  say nothing of a task in the middle of posting, or of a review on its way to
  the cache, hence the strengthening.
* `TaskEveryEndCounted`: counters equal the numbers of ended tasks. `Counted`
  is the property over sets of tasks; one lemma says what moving one task from
  one position to another does to these numbers, and each action is a use of it.

**Server** (`ServerProofs`; any configuration files, events, webhooks, threads).

* `ServerOnlyAuthenticRuns`. The property compares a review that runs with the
  secret in the configuration, which the handler looked at long before. The
  invariant says what lies between: once a configuration is loaded its providers
  have passed the checks of `validate`, nothing has been received before the
  server serves, and every review that runs was wanted and accepted under the
  configuration there still is. `WantedIsAuthentic` then shows that what the
  handlers accept, with the empty token for a missing header, is authentic if no
  secret is empty.
* `ServerTypes`: with the facts that a posted review has a verdict and one that
  is being recorded has a counter left.
* `ServerDefaultsAgree`: a server that has loaded a configuration has found a
  file (`LoadedInv`), because without one no provider is given and `validate`
  refuses it; section by section, what `config.rs` then gives is compared with
  the other place for the same default.
* `ServerCountersAddUp`. The property counts webhooks by what has happened to
  them; each count must follow its counter through every step, also in the middle
  of `record_review`, where the total has been raised and the verdict has not.
  `LeftInv` says which counters a review has left to add to at each position.
  `AddsTo(w, c)` is the shape of all steps: one counter goes up by one and one
  webhook enters the one set that belongs to it (or nothing does). One lemma per
  kind of step shows its shape, and one lemma for all of them that the sums go on
  (`CountsInv`). That the verdicts add up to the total comes last: the verdicts
  partition the reviews that have voted.
* `ServerScrapeWithinOverlap`. A scrape in the middle has read some counters and
  not others. `ScrapeInv` speaks of all of them: `ReadAt(i)` is what was read or,
  where nothing was, what would be read now. These numbers never exceed the
  counters, are never below what they were when the scrape began, and the sum over
  the verdicts is the sum of three such numbers. `Between` bounds the counters
  by finished and begun reviews, from `CountsInv`.
* `ServerPageCoversTotal`. Between the two reads of the dashboard rows are added
  and none is taken away, so the total it has read is at most the rows there are
  (`PageInv`). What is shown is the beginning (`Begins`) of the matching rows in
  order; for a search, what matched at its start still matches.

**Batches and tokens** (`BatchReviewProofs`; any tasks, instances, times).

* `AuthTokenUsable`. `MutexHeld` says that a caller between `listing` and
  `issued` is the holder of its mutex, so there is one per instance;
  `CachedInTime` that a cached token expires at most `CacheFor` after it came;
  `TokensInTime` the property itself for fresh tokens. The bound on how long the
  answer was under way cannot be dropped: GitHub's hour begins before it.
* `BatchReviewTypes`: the types of both.
* `BatchEntryInOneBatch`: the entry of a task is once in its pending list, or once
  in the list of one task that took it; a list that is not empty has exactly one
  task sleeping for it; entries of one list share engine and key. The parts hold
  each other up. `ListsInv`: lists have only entries of tasks that have added, of
  their own engine and request, so that taking one cannot touch another's.
  `SleepersInv`: a list is empty and nobody sleeps for it, or one task does;
  without it two tasks could wake for one list and the second would end for want
  of it, or an entry could be added that nobody wakes for. `PlacesInv` is the
  first part itself. Seen by the lists, every step is `Puts` (`add_to_batch`),
  `Takes` (the task that slept wakes up) or `GoesOn` (`ListSteps`). Ranges play no
  part in it: nothing is proved about commits or diffs being reviewed once.

**Passes over text** (`ReviewTextProofs`, `ReviewCommentsProofs`; diffs and answers
of any length, any paths, patterns and rules). A step reads a line, so an invariant
of `ReviewText` is a loop invariant of the passes.

* `TextHolds`: types, and that a diff begins with `diff --git`.
* `FilterKeepsWholeFilesHolds`. The output lags behind the text: what is in hand
  comes out at the next header. `FilterInv` says which file is in hand and whether
  it is skipped, and that flushing it now gives exactly the lines of the files
  that are kept, in order.
* `TrivialHidesExactlyHolds`: from `FilterInv`, in two lemmas. A changed line whose
  file is kept is in the filter's result together with its header, so unless it
  looks like a header itself `is_trivial` sees it (`OverlooksNothingElse`), and
  calls the diff trivial only for a list of names; and where all it sees is blank,
  it does call it trivial, whatever else there is (`OverlooksHeaderLike`).
* `MatchesAreAddedLinesHolds` and `MatchLineIsOneTooHighHolds`. `RulesInv` adds that
  the file in hand is that of the last header (`RulesFile`), that every match is in
  a hunk (`MatchHunks`), and what the line counter is, counted from the header of
  that hunk if its start can be read (`RulesLine`). It starts at the number of
  the first line, where it should start one below; the second theorem passes this on
  to every match, and one more for every marker before it.
* `SummaryIsItsSectionsHolds`. `ParserInv` adds that the flag `in_summary` is what
  the lines read so far make it.
* `CommentsComeFromBlocksHolds`. `HandInv` says what the parser holds: file, number,
  severity and text of the block after the last `FILE:`; `ClosedInv` that what it
  has saved are the comments of all blocks before. Both are over operators of
  the answer alone, and the lemmas of the first half say what one line more does to
  a block: only the last one changes. `Saved` after the loop then closes it.

What these proofs keep needing is in `EnumerationProofs`. `InOrder` and `Ascending`
are recursive functions on the natural numbers; that such a function exists and
what it gives is shown by contradiction, from a least number that is a counterexample
(`LeastNumber`, which is `WFMin` of the library for `<`): the induction theorems take
an operator as a parameter and cannot be cited.

Only model-checked is liveness, which TLAPS does not do under fairness:
`AcceptedRuns`, `RequeuedRuns`, `ShutdownEnds`, `SubmitReturns`, `IdleKeyForgotten`,
`TaskEnds`, `EveryRequestAnswered`. The properties of the violated runs have
counterexamples instead of proofs.

Every property of a passing run has a mutant in `PROJECT.json`: the operator
named there stands in the module right before the definition it replaces, with
a comment that says what the bug is. TLC finds the property violated when the
replacement is made.

## 5. Not modelled, and the plan

Not modelled: prompt templates and `build_prompt` (texts without behaviour);
HTML, JSON and the Prometheus text (layout); loading rule files and
`check_content` in the rule engine (the same matching without file and line);
checks of URLs and refs (characters); `should_process_batch`, `get_reviews_by_repo`,
`record_severity_counts`, `render_json` and the counters of jobs (called by tests
or by nobody); TOML syntax and logging.

Next, in this order:

1. refinement beyond the queue: what a review promises whoever triggered it, with
   `ReviewTask` and `BatchReview` as implementations;
2. that a token is never exchanged twice while one that is still good is cached, as
   an action property of `GitHubAuth`;
3. the rule files and `check_content`, if more than matching comes to depend on
   them.
