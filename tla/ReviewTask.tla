------------------------------ MODULE ReviewTask ------------------------------
(***************************************************************************)
(* The background task a webhook spawns (src/src/github.rs, gitlab.rs):    *)
(* clone and diff, auto-approve, cache, LLM, posting, history, counters.   *)
(*                                                                         *)
(* Actors: the authors who push, the platform that delivers events (late   *)
(* or out of order), one task per delivered event, the clock that expires  *)
(* cache entries, and the host.  The remote calls (git, LLM, platform API) *)
(* may fail, and a post may be carried out although its answer is lost.    *)
(*                                                                         *)
(* A diff is an element of Diffs, its SHA-256 key is the diff itself; a    *)
(* review is the number of its inline comments and, as history, the diff   *)
(* the LLM was asked about.  A cached review is read back as it was        *)
(* written: save_cached_review and get_cached_review are inverse on it.    *)
(***************************************************************************)
EXTENDS Naturals, FiniteSets

CONSTANTS Prs,          \* pull requests (GitHub) and merge requests (GitLab)
          GitLabPrs,    \* those of GitLab
          Tasks,        \* the tasks, one for each event that is delivered
          PrOf,         \* the request a task is about
          MaxVersion,   \* bound: pushes to a branch
          Diffs, EmptyDiff, TrivialDiff,
          DiffOf,       \* the filtered diff of a request at a version
          MaxInline,    \* bound: inline comments of a review
          MaxRetries,   \* RetryConfig::default().max_retries
          Configs,      \* the configurations the server may be started with
          NoReview,
          MaxCrashes    \* bound: how often the process dies

Versions == 1 .. MaxVersion
Reviews == [diff : Diffs, inline : 0 .. MaxInline]

ASSUME TaskAssumption ==
    /\ IsFiniteSet(Tasks)
    /\ GitLabPrs \subseteq Prs
    /\ PrOf \in [Tasks -> Prs]
    /\ MaxVersion \in Nat /\ MaxInline \in Nat
    /\ MaxRetries \in Nat /\ MaxCrashes \in Nat
    /\ {EmptyDiff, TrivialDiff} \subseteq Diffs
    /\ DiffOf \in [Prs -> [Versions -> Diffs]]
    /\ Configs \subseteq [batching : BOOLEAN, cache : BOOLEAN, autoApprove : BOOLEAN]
    /\ NoReview \notin Reviews

VARIABLES
    config,     \* AppConfig: batching, cache, auto_approve enabled
    version,    \* the newest commit of each branch; 0: the request is not open
    pc,         \* where each task is
    head,       \* head_sha of the event that started the task
    seen,       \* the version that git fetch brought
    review,     \* the review in the task's hands
    sent,       \* API calls of post_review that succeeded
    posted,     \* the pieces of the review the platform has shown
    attempt,    \* retry_with_backoff: attempts to post the approval
    approvals,  \* approval comments the platform has shown
    cache,      \* the review_cache table, expired entries left out
    history,    \* the reviews table: whose task saved a row
    counters,   \* Metrics
    crashes

platform == <<config, version, head>>
work == <<seen, review, sent, posted>>
approval == <<attempt, approvals>>
vars == <<platform, pc, work, approval, cache, history, counters, crashes>>

Counters == {"hits", "misses", "failed", "reviewed", "approved"}
Zero == [c \in Counters |-> 0]

\* The ends of a task; "past" and "lost" are ends in an earlier life.
Ends == {"skipped", "failed", "reviewed", "approved"}
Active == {"batch", "clone", "approve", "lookup", "llm", "store", "post", "save",
           "record"}

DiffSeen(t) == DiffOf[PrOf[t]][seen[t]]
OnGitLab(t) == PrOf[t] \in GitLabPrs

\* GitHub takes a review in one call, GitLab one call per inline comment and
\* then one for the summary note.
Pieces(t) == IF OnGitLab(t) THEN review[t].inline + 1 ELSE 1
-------------------------------------------------------------------------------
Init ==
    /\ config \in Configs
    /\ version = [p \in Prs |-> 0]
    /\ pc = [t \in Tasks |-> "idle"]
    /\ head = [t \in Tasks |-> 0]
    /\ seen = [t \in Tasks |-> 0]
    /\ review = [t \in Tasks |-> NoReview]
    /\ sent = [t \in Tasks |-> 0]
    /\ posted = [t \in Tasks |-> {}]
    /\ attempt = [t \in Tasks |-> 0]
    /\ approvals = [t \in Tasks |-> 0]
    /\ cache = [d \in Diffs |-> NoReview]
    /\ history = {}
    /\ counters = Zero
    /\ crashes = 0

Goto(t, where) == pc' = [pc EXCEPT ![t] = where]
Count(c) == counters' = [counters EXCEPT ![c] = counters[c] + 1]

\* The task returns after record_review_failed.
Fail(t) == Goto(t, "failed") /\ Count("failed")
-------------------------------------------------------------------------------
(* the platform *)

Push(p) ==
    /\ version[p] < MaxVersion
    /\ version' = [version EXCEPT ![p] = version[p] + 1]
    /\ UNCHANGED <<config, head, pc, work, approval, cache, history, counters, crashes>>

\* A webhook about some push so far has passed the handler's checks; the
\* handler answers 200 at once and spawns the task.
Deliver(t) ==
    /\ pc[t] = "idle"
    /\ \E v \in 1 .. version[PrOf[t]] : head' = [head EXCEPT ![t] = v]
    /\ Goto(t, IF config.batching THEN "batch" ELSE "clone")
    /\ UNCHANGED <<config, version, work, approval, cache, history, counters, crashes>>
-------------------------------------------------------------------------------
(* the task *)

\* The engine, and with it pending_batches, was made by this task: its batch
\* is always new and holds its one entry.  It sleeps for batch_timeout.
BatchTimeout(t) ==
    /\ pc[t] = "batch"
    /\ Goto(t, "clone")
    /\ UNCHANGED <<platform, work, approval, cache, history, counters, crashes>>

\* Mutant of CloneFails: the failure is not counted.
CloneFailsQuietly(t) ==
    /\ pc[t] = "clone"
    /\ Goto(t, "failed")
    /\ UNCHANGED <<platform, work, approval, cache, history, counters, crashes>>

CloneFails(t) ==
    /\ pc[t] = "clone"
    /\ Fail(t)
    /\ UNCHANGED <<platform, work, approval, cache, history, crashes>>

\* git fetch brings the branch as it is now, whatever head_sha says.  A batch
\* goes to the LLM without auto-approval and without the cache.
AfterDiff(d) ==
    CASE d = EmptyDiff -> "skipped"
      [] d # EmptyDiff /\ config.batching -> "llm"
      [] d = TrivialDiff /\ config.autoApprove /\ ~config.batching -> "approve"
      [] OTHER -> IF config.cache THEN "lookup" ELSE "llm"

\* Mutant of CloneAndDiff: a mirror that was fetched after some earlier push is
\* used again.
CloneFromMirror(t) ==
    /\ pc[t] = "clone"
    /\ \E v \in 1 .. version[PrOf[t]] :
          /\ seen' = [seen EXCEPT ![t] = v]
          /\ Goto(t, AfterDiff(DiffOf[PrOf[t]][v]))
    /\ UNCHANGED <<platform, review, sent, posted, approval, cache, history,
                   counters, crashes>>

CloneAndDiff(t) ==
    /\ pc[t] = "clone"
    /\ seen' = [seen EXCEPT ![t] = version[PrOf[t]]]
    /\ Goto(t, AfterDiff(DiffOf[PrOf[t]][version[PrOf[t]]]))
    /\ UNCHANGED <<platform, review, sent, posted, approval, cache, history,
                   counters, crashes>>

\* One attempt to post the approval.  GitHub: retry_with_backoff tries again
\* after a transient error (which errors are transient depends on their text).
\* GitLab: no retry.
\* Mutant of LastAttempt: one retry too many.
LastAttemptOffByOne(t) == OnGitLab(t) \/ attempt[t] > MaxRetries

LastAttempt(t) == OnGitLab(t) \/ attempt[t] = MaxRetries

\* Mutants of ApproveAttempt: the number of the attempt wraps before it reaches
\* the last; every attempt counts.
ApproveForever(t, shown, ok, transient) ==
    /\ pc[t] = "approve"
    /\ ok => shown
    /\ approvals' = [approvals EXCEPT ![t] = IF shown THEN 1 ELSE approvals[t]]
    /\ IF ok \/ ~transient \/ LastAttempt(t)
       THEN Goto(t, "approved") /\ Count("approved") /\ UNCHANGED attempt
       ELSE /\ attempt' = [attempt EXCEPT ![t] = (attempt[t] + 1) % MaxRetries]
            /\ UNCHANGED <<pc, counters>>
    /\ UNCHANGED <<platform, work, cache, history, crashes>>

ApproveCountsAttempts(t, shown, ok, transient) ==
    /\ pc[t] = "approve"
    /\ ok => shown
    /\ approvals' = [approvals EXCEPT ![t] = approvals[t] + (IF shown THEN 1 ELSE 0)]
    /\ Count("approved")
    /\ IF ok \/ ~transient \/ LastAttempt(t)
       THEN Goto(t, "approved") /\ UNCHANGED attempt
       ELSE UNCHANGED pc /\ attempt' = [attempt EXCEPT ![t] = attempt[t] + 1]
    /\ UNCHANGED <<platform, work, cache, history, crashes>>

ApproveAttempt(t, shown, ok, transient) ==
    /\ pc[t] = "approve"
    /\ ok => shown
    /\ approvals' = [approvals EXCEPT ![t] = approvals[t] + (IF shown THEN 1 ELSE 0)]
    /\ IF ok \/ ~transient \/ LastAttempt(t)
       THEN /\ Goto(t, "approved") /\ Count("approved")
            /\ UNCHANGED attempt
       ELSE /\ attempt' = [attempt EXCEPT ![t] = attempt[t] + 1]
            /\ UNCHANGED <<pc, counters>>
    /\ UNCHANGED <<platform, work, cache, history, crashes>>

Approve(t) ==
    \E shown, ok, transient \in BOOLEAN : ApproveAttempt(t, shown, ok, transient)

CacheHit(t) ==
    /\ pc[t] = "lookup"
    /\ cache[DiffSeen(t)] # NoReview
    /\ review' = [review EXCEPT ![t] = cache[DiffSeen(t)]]
    /\ Goto(t, "post") /\ Count("hits")
    /\ UNCHANGED <<platform, seen, sent, posted, approval, cache, history, crashes>>

CacheMiss(t) ==
    /\ pc[t] = "lookup"
    /\ cache[DiffSeen(t)] = NoReview
    /\ Goto(t, "llm") /\ Count("misses")
    /\ UNCHANGED <<platform, work, approval, cache, history, crashes>>

\* A failed lookup is neither a hit nor a miss.
LookupFails(t) ==
    /\ pc[t] = "lookup"
    /\ Goto(t, "llm")
    /\ UNCHANGED <<platform, work, approval, cache, history, counters, crashes>>

LlmFails(t) ==
    /\ pc[t] = "llm"
    /\ Fail(t)
    /\ UNCHANGED <<platform, work, approval, cache, history, crashes>>

LlmAnswers(t) ==
    /\ pc[t] = "llm"
    /\ \E r \in Reviews : /\ r.diff = DiffSeen(t)
                          /\ review' = [review EXCEPT ![t] = r]
    /\ Goto(t, IF config.cache /\ ~config.batching THEN "store" ELSE "post")
    /\ UNCHANGED <<platform, seen, sent, posted, approval, cache, history,
                   counters, crashes>>

\* Mutant of StoreInCache: the key is computed from the branch as it is now.
StoreUnderNewest(t) ==
    /\ pc[t] = "store"
    /\ cache' = [cache EXCEPT ![DiffOf[PrOf[t]][version[PrOf[t]]]] = review[t]]
    /\ Goto(t, "post")
    /\ UNCHANGED <<platform, work, approval, history, counters, crashes>>

\* INSERT OR REPLACE; an error is only logged.
StoreInCache(t) ==
    /\ pc[t] = "store"
    /\ cache' \in {[cache EXCEPT ![DiffSeen(t)] = review[t]], cache}
    /\ Goto(t, "post")
    /\ UNCHANGED <<platform, work, approval, history, counters, crashes>>

\* Mutants of PostPiece: the loop runs once too often; the note goes first.
PostOneTooMany(t) ==
    /\ pc[t] = "post"
    /\ sent' = [sent EXCEPT ![t] = sent[t] + 1]
    /\ posted' = [posted EXCEPT ![t] = posted[t] \cup {sent[t] + 1}]
    /\ Goto(t, IF sent[t] + 1 > Pieces(t) THEN "save" ELSE "post")
    /\ UNCHANGED <<platform, seen, review, approval, cache, history, counters,
                   crashes>>

PostNoteFirst(t) ==
    /\ pc[t] = "post"
    /\ sent' = [sent EXCEPT ![t] = sent[t] + 1]
    /\ posted' = [posted EXCEPT ![t] = posted[t] \cup {Pieces(t) - sent[t]}]
    /\ Goto(t, IF sent[t] + 1 = Pieces(t) THEN "save" ELSE "post")
    /\ UNCHANGED <<platform, seen, review, approval, cache, history, counters,
                   crashes>>

\* The next call of post_review succeeds.
PostPiece(t) ==
    /\ pc[t] = "post"
    /\ sent' = [sent EXCEPT ![t] = sent[t] + 1]
    /\ posted' = [posted EXCEPT ![t] = posted[t] \cup {sent[t] + 1}]
    /\ Goto(t, IF sent[t] + 1 = Pieces(t) THEN "save" ELSE "post")
    /\ UNCHANGED <<platform, seen, review, approval, cache, history, counters,
                   crashes>>

\* Mutant of PostFails: the error is logged and the loop goes on.
PostGoesOn(t) ==
    /\ pc[t] = "post"
    /\ sent' = [sent EXCEPT ![t] = sent[t] + 1]
    /\ posted' \in {posted, [posted EXCEPT ![t] = posted[t] \cup {sent[t] + 1}]}
    /\ Goto(t, IF sent[t] + 1 = Pieces(t) THEN "save" ELSE "post")
    /\ UNCHANGED <<platform, seen, review, approval, cache, history, counters,
                   crashes>>

\* It fails (on GitHub perhaps already in get_token): `?` gives up at once.
\* The platform may have shown the piece and only the answer got lost.
PostFails(t) ==
    /\ pc[t] = "post"
    /\ posted' \in {posted, [posted EXCEPT ![t] = posted[t] \cup {sent[t] + 1}]}
    /\ Fail(t)
    /\ UNCHANGED <<platform, seen, review, sent, approval, cache, history, crashes>>

\* save_review, whose result is dropped; post_review returns.
SaveReview(t) ==
    /\ pc[t] = "save"
    /\ history' \in {history \cup {t}, history}
    /\ Goto(t, "record")
    /\ UNCHANGED <<platform, work, approval, cache, counters, crashes>>

\* record_review, which does not depend on the row.
RecordReview(t) ==
    /\ pc[t] = "record"
    /\ Goto(t, "reviewed") /\ Count("reviewed")
    /\ UNCHANGED <<platform, work, approval, cache, history, crashes>>

Task(t) ==
    \/ BatchTimeout(t)
    \/ CloneFails(t) \/ CloneAndDiff(t)
    \/ Approve(t)
    \/ CacheHit(t) \/ CacheMiss(t) \/ LookupFails(t)
    \/ LlmFails(t) \/ LlmAnswers(t)
    \/ StoreInCache(t)
    \/ PostPiece(t) \/ PostFails(t)
    \/ SaveReview(t) \/ RecordReview(t)
-------------------------------------------------------------------------------
(* the clock and the host *)

\* ttl_hours have passed since the entry was written.
Expire(d) ==
    /\ cache[d] # NoReview
    /\ cache' = [cache EXCEPT ![d] = NoReview]
    /\ UNCHANGED <<platform, pc, work, approval, history, counters, crashes>>

\* The process dies and is started again: tasks are kept nowhere.
Crash ==
    /\ crashes < MaxCrashes
    /\ crashes' = crashes + 1
    /\ pc' = [t \in Tasks |-> CASE pc[t] \in Active -> "lost"
                                [] pc[t] \in Ends -> "past"
                                [] OTHER -> pc[t]]
    /\ counters' = Zero
    /\ UNCHANGED <<platform, work, approval, cache, history>>

Next ==
    \/ \E p \in Prs : Push(p)
    \/ \E t \in Tasks : Deliver(t) \/ Task(t)
    \/ \E d \in Diffs : Expire(d)
    \/ Crash

Spec == Init /\ [][Next]_vars

\* The runtime runs every task, and every remote call returns: with an answer
\* or an error (120 s at most for the LLM; git and the platform APIs have no
\* timeout, so that they answer is an assumption about them).
FairSpec == Spec /\ \A t \in Tasks : WF_vars(Task(t))
-------------------------------------------------------------------------------
(* Properties *)

TypeOK ==
    /\ config \in Configs
    /\ version \in [Prs -> 0 .. MaxVersion]
    /\ pc \in [Tasks -> {"idle", "lost", "past"} \cup Active \cup Ends]
    /\ head \in [Tasks -> 0 .. MaxVersion]
    /\ seen \in [Tasks -> 0 .. MaxVersion]
    /\ review \in [Tasks -> Reviews \cup {NoReview}]
    /\ \A t \in Tasks : pc[t] \in {"store", "post", "save", "record"} => review[t] # NoReview
    /\ sent \in [Tasks -> 0 .. MaxInline + 1]
    /\ posted \in [Tasks -> SUBSET (1 .. MaxInline + 1)]
    /\ attempt \in [Tasks -> 0 .. MaxRetries]
    /\ approvals \in [Tasks -> Nat]
    /\ cache \in [Diffs -> Reviews \cup {NoReview}]
    /\ history \subseteq Tasks
    /\ counters \in [Counters -> Nat]
    /\ crashes \in 0 .. MaxCrashes

\* The platform comes before the books: a review that is counted as done or
\* has a row in the reviews table is completely visible on the platform, even
\* if the process died in between.
PostedBeforeRecorded ==
    \A t \in Tasks : (pc[t] = "reviewed" \/ t \in history)
                        => posted[t] = 1 .. Pieces(t)

\* A partial failure never shows a summary without its details: when the last
\* piece (GitLab's note) is visible, so is every inline comment before it.
SummaryLast ==
    \A t \in Tasks : review[t] # NoReview /\ Pieces(t) \in posted[t]
                        => 1 .. Pieces(t) \subseteq posted[t]

\* A review belongs to the diff the task fetched, whether it came from the LLM
\* or from a cache that tasks of other requests and earlier lives have filled
\* while this branch moved on.
ReviewFitsDiff ==
    /\ \A t \in Tasks : review[t] # NoReview => review[t].diff = DiffSeen(t)
    /\ \A d \in Diffs : cache[d] # NoReview => cache[d].diff = d

\* Events may arrive late and out of order, and the branch may move while a
\* task waits: what a task looks at is never older than the push it was told
\* about, so nothing is shown for an outdated commit that the author had
\* replaced before the event was sent.
NotOlderThanEvent ==
    \A t \in Tasks : seen[t] # 0 => seen[t] >= head[t]

\* An approval is retried only after a failure and at most max_retries times.
ApprovalsBounded ==
    \A t \in Tasks :
        /\ approvals[t] <= IF OnGitLab(t) THEN 1 ELSE MaxRetries + 1
        /\ approvals[t] <= attempt[t] + (IF pc[t] = "approve" THEN 0 ELSE 1)

\* Every end of a task is counted exactly once, on every path and in every
\* interleaving, except an empty diff, which is counted nowhere; a lookup
\* counts at most once.
EveryEndCounted ==
    /\ \A c \in {"failed", "reviewed", "approved"} :
          counters[c] = Cardinality({t \in Tasks : pc[t] = c})
    /\ counters["hits"] + counters["misses"]
          <= Cardinality({t \in Tasks : pc[t] \in
                {"llm", "store", "post", "save", "record", "failed", "reviewed"}})

\* No path leaves a task stuck: it ends, or the process dies.
TaskEnds ==
    \A t \in Tasks : (pc[t] \in Active) ~> (pc[t] \in Ends \cup {"past", "lost"})

\* "Skip re-reviewing identical diffs": no two tasks that use the cache ask the
\* LLM about the same diff at the same time.
SkipsIdenticalDiffs ==
    \A t, u \in Tasks :
        (t # u /\ pc[t] = "llm" /\ pc[u] = "llm") => DiffSeen(t) # DiffSeen(u)
===============================================================================
