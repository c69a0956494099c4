------------------------------ MODULE ReviewQueue ------------------------------
(***************************************************************************)
(* The review queue of src/src/queue.rs with the job table it persists to  *)
(* and the shutdown flag of src/src/shutdown.rs.                           *)
(*                                                                         *)
(* Actors: callers of submit (one per job), the dispatcher task spawned by *)
(* ReviewQueue::new, one worker task per dispatched job, whoever raises    *)
(* the shutdown flag, and the host, which may kill the process and start   *)
(* it again on the same database.  An action ends where the code awaits.   *)
(*                                                                         *)
(* Left out: the job counters of Metrics (written, never read back by the  *)
(* queue) and the payload's texts (a payload is its job plus its id).      *)
(***************************************************************************)
EXTENDS JobTable, Functions

CONSTANTS Repos,            \* repositories
          RepoOf,           \* the repository of each job
          CallerIds,        \* the ids callers may put into JobPayload.id
          Limit,            \* concurrency_limit
          Capacity,         \* mpsc::channel::<JobPayload>(1000)
          NoJob,            \* the dispatcher holds no job
          MaxLives,         \* bound: how often the process is started
          OwnerLives        \* bound: the lives in which the owner submits or drops

ASSUME QueueAssumption ==
    /\ IsFiniteSet(Works)
    /\ RepoOf \in [Works -> Repos]
    /\ CallerIds \subseteq Nat
    /\ Limit \in Nat \ {0}      \* AppConfig::validate refuses 0
    /\ Capacity \in Nat \ {0}
    /\ NoJob \notin Works
    /\ MaxLives \in Nat \ {0} /\ OwnerLives \in Nat

VARIABLES
    rows,       \* the review_jobs table; survives a crash
    sub,        \* where the call submit(w) is
    pid,        \* JobPayload.id of the payload that carries w
    channel,    \* the mpsc channel
    closed,     \* the ReviewQueue, and with it the only Sender, was dropped
    shutdown,   \* ShutdownHandle.shutting_down
    pc,         \* where the dispatcher loop is; "down": there is no process
    hand,       \* the dispatcher's local `job`
    resumed,    \* the dispatcher's local resumed_queue
    worker,     \* where the worker task of w is
    counts,     \* active_counts; an absent key is 0
    ran,        \* history: the jobs some worker has completed
    lives       \* number of process starts so far

memory == <<pid, channel, closed, shutdown, pc, hand, resumed, worker, counts>>
vars == <<rows, sub, memory, ran, lives>>

\* "sending" is between enqueue_job and the end of tx.send; "dropped" is a call
\* whose future was dropped there; "past" is an "ok" of an earlier life of the
\* process.
SubStates == {"idle", "sending", "dropped", "ok", "err", "past"}
DispatcherStates == {"down", "top", "get", "recv", "check", "mark", "exited"}
WorkerStates == {"none", "spawned", "running", "finished", "done"}

\* The workers that hold a slot of their repository.
Live == {"spawned", "running", "finished"}
LiveOf(r) == {w \in Works : worker[w] \in Live /\ RepoOf[w] = r}

\* The jobs waiting in memory: in the channel, in the resumed queue or in the
\* dispatcher's hand.
Queued(w) == w \in Range(channel) \cup Range(resumed) \cup {hand}
Held(w) == Queued(w) \/ worker[w] # "none"

Alive == pc # "down"
-------------------------------------------------------------------------------
Init ==
    /\ rows = << >>
    /\ sub = [w \in Works |-> "idle"]
    /\ pid \in [Works -> CallerIds]
    /\ channel = << >>
    /\ closed = FALSE
    /\ shutdown = FALSE
    /\ pc = "top"
    /\ hand = NoJob
    /\ resumed = << >>
    /\ worker = [w \in Works |-> "none"]
    /\ counts = [r \in Repos |-> 0]
    /\ ran = {}
    /\ lives = 1
-------------------------------------------------------------------------------
(* submit *)

\* Mutant of Enqueue: the row is left to a later write.
EnqueueInMemory(w) ==
    /\ Alive /\ ~closed /\ lives <= OwnerLives
    /\ sub[w] = "idle"
    /\ sub' = [sub EXCEPT ![w] = "sending"]
    /\ UNCHANGED <<rows, memory, ran, lives>>

\* The row is inserted first.  The id the insert returns is dropped: the
\* payload keeps the id its caller made up.  submit does not look at shutdown.
Enqueue(w) ==
    /\ Alive /\ ~closed /\ lives <= OwnerLives
    /\ sub[w] = "idle"
    /\ rows' = EnqueueJob(rows, w)
    /\ sub' = [sub EXCEPT ![w] = "sending"]
    /\ UNCHANGED <<memory, ran, lives>>

\* enqueue_job fails: `?` returns before anything was sent.
EnqueueFails(w) ==
    /\ Alive /\ ~closed /\ lives <= OwnerLives
    /\ sub[w] = "idle"
    /\ sub' = [sub EXCEPT ![w] = "err"]
    /\ UNCHANGED <<rows, memory, ran, lives>>

\* Mutant of Send: an unbounded channel.
SendUnbounded(w) ==
    /\ pc \notin {"down", "exited"}
    /\ sub[w] = "sending"
    /\ channel' = Append(channel, w)
    /\ sub' = [sub EXCEPT ![w] = "ok"]
    /\ UNCHANGED <<rows, pid, closed, shutdown, pc, hand, resumed, worker,
                   counts, ran, lives>>

\* tx.send waits for room.
Send(w) ==
    /\ pc \notin {"down", "exited"}
    /\ sub[w] = "sending"
    /\ Len(channel) < Capacity
    /\ channel' = Append(channel, w)
    /\ sub' = [sub EXCEPT ![w] = "ok"]
    /\ UNCHANGED <<rows, pid, closed, shutdown, pc, hand, resumed, worker,
                   counts, ran, lives>>

\* Mutant of SendFails: the receiver outlives the loop.
SendHangs(w) == FALSE /\ UNCHANGED vars

\* The receiver is gone: submit fails and the pending row stays.
SendFails(w) ==
    /\ pc = "exited"
    /\ sub[w] = "sending"
    /\ sub' = [sub EXCEPT ![w] = "err"]
    /\ UNCHANGED <<rows, memory, ran, lives>>

\* The caller gives up while tx.send waits for room (a timeout around submit, a
\* task that is aborted): its future is dropped, nothing is sent, and the row
\* stays pending.
DropSubmit(w) ==
    /\ Alive
    /\ sub[w] = "sending"
    /\ sub' = [sub EXCEPT ![w] = "dropped"]
    /\ UNCHANGED <<rows, memory, ran, lives>>

\* The owner drops the ReviewQueue; no submit can be borrowing it then.
DropQueue ==
    /\ Alive /\ ~closed /\ lives <= OwnerLives
    /\ \A w \in Works : sub[w] # "sending"
    /\ closed' = TRUE
    /\ UNCHANGED <<rows, sub, pid, channel, shutdown, pc, hand, resumed,
                   worker, counts, ran, lives>>

\* ShutdownHandle::shutdown.
RequestShutdown ==
    /\ Alive /\ ~shutdown
    /\ shutdown' = TRUE
    /\ UNCHANGED <<rows, sub, pid, channel, closed, pc, hand, resumed, worker,
                   counts, ran, lives>>
-------------------------------------------------------------------------------
(* the dispatcher loop *)

dispatcherOnly == <<rows, sub, pid, closed, shutdown, ran, lives>>

\* counts.values().sum() == 0, a sum of naturals.
TotalActiveIsZero == \A r \in Repos : counts[r] = 0

\* Mutants of MayStop: the running jobs are forgotten; the resumed jobs are
\* forgotten; the loop wants the channel empty, which it no longer reads.
MayStopWithActive == shutdown /\ resumed = << >>
MayStopWithResumed == shutdown /\ TotalActiveIsZero
MayStopWhenDrained ==
    shutdown /\ resumed = << >> /\ TotalActiveIsZero /\ channel = << >>

MayStop == shutdown /\ resumed = << >> /\ TotalActiveIsZero

\* The break out of the loop ends the task and drops the receiver.
Break ==
    /\ pc' = "exited"
    /\ channel' = << >>
    /\ UNCHANGED <<dispatcherOnly, hand, resumed, worker, counts>>

StopLoop == pc = "top" /\ MayStop /\ Break

StayInLoop ==
    /\ pc = "top"
    /\ ~MayStop
    /\ pc' = "get"
    /\ UNCHANGED <<dispatcherOnly, channel, hand, resumed, worker, counts>>

\* Mutant of PopResumed: front() instead of pop_front().
PeekResumed ==
    /\ pc = "get"
    /\ resumed # << >>
    /\ hand' = Head(resumed)
    /\ pc' = "check"
    /\ UNCHANGED <<dispatcherOnly, resumed, channel, worker, counts>>

\* The resumed queue is served before the channel.
PopResumed ==
    /\ pc = "get"
    /\ resumed # << >>
    /\ hand' = Head(resumed)
    /\ resumed' = Tail(resumed)
    /\ pc' = "check"
    /\ UNCHANGED <<dispatcherOnly, channel, worker, counts>>

\* "Don't accept new jobs during shutdown": sleep 100 ms and go round again.
IdleInShutdown ==
    /\ pc = "get"
    /\ resumed = << >> /\ shutdown
    /\ pc' = "top"
    /\ UNCHANGED <<dispatcherOnly, channel, hand, resumed, worker, counts>>

\* Mutant of StartReceive: the channel is read next to the resumed queue.
StartReceiveAnyway ==
    /\ pc = "get"
    /\ ~shutdown
    /\ pc' = "recv"
    /\ UNCHANGED <<dispatcherOnly, channel, hand, resumed, worker, counts>>

StartReceive ==
    /\ pc = "get"
    /\ resumed = << >> /\ ~shutdown
    /\ pc' = "recv"
    /\ UNCHANGED <<dispatcherOnly, channel, hand, resumed, worker, counts>>

\* timeout(1 s, rx.recv()): a job, the end of the channel, or the timeout,
\* which fires only if recv has nothing to return.
Receive ==
    /\ pc = "recv"
    /\ channel # << >>
    /\ hand' = Head(channel)
    /\ channel' = Tail(channel)
    /\ pc' = "check"
    /\ UNCHANGED <<dispatcherOnly, resumed, worker, counts>>

ReceiveClosed == pc = "recv" /\ channel = << >> /\ closed /\ Break

ReceiveTimeout ==
    /\ pc = "recv"
    /\ channel = << >> /\ ~closed
    /\ pc' = "top"
    /\ UNCHANGED <<dispatcherOnly, channel, hand, resumed, worker, counts>>

\* Mutant of CanRun: off by one.
CanRunOneMore(w) == counts[RepoOf[w]] <= Limit

\* The limit is read under the read lock, which is released before the write
\* lock of MarkActive is taken.
CanRun(w) == counts[RepoOf[w]] < Limit

PassLimit ==
    /\ pc = "check"
    /\ CanRun(hand)
    /\ pc' = "mark"
    /\ UNCHANGED <<dispatcherOnly, channel, hand, resumed, worker, counts>>

\* Mutant of Requeue: the job is not pushed back.
RequeueDrops ==
    /\ pc = "check"
    /\ ~CanRun(hand)
    /\ hand' = NoJob
    /\ pc' = "top"
    /\ UNCHANGED <<dispatcherOnly, resumed, channel, worker, counts>>

\* At the limit the job goes to the back of the resumed queue.
Requeue ==
    /\ pc = "check"
    /\ ~CanRun(hand)
    /\ resumed' = Append(resumed, hand)
    /\ hand' = NoJob
    /\ pc' = "top"
    /\ UNCHANGED <<dispatcherOnly, channel, worker, counts>>

\* Take a slot and spawn the worker; nothing is awaited in between.
MarkActive ==
    /\ pc = "mark"
    /\ counts' = [counts EXCEPT ![RepoOf[hand]] = counts[RepoOf[hand]] + 1]
    /\ worker' = [worker EXCEPT ![hand] = "spawned"]
    /\ hand' = NoJob
    /\ pc' = "top"
    /\ UNCHANGED <<dispatcherOnly, channel, resumed>>

Dispatcher ==
    \/ StopLoop \/ StayInLoop
    \/ PopResumed \/ IdleInShutdown \/ StartReceive
    \/ Receive \/ ReceiveClosed \/ ReceiveTimeout
    \/ PassLimit \/ Requeue \/ MarkActive
-------------------------------------------------------------------------------
(* a worker *)

workerOnly == <<sub, pid, channel, closed, shutdown, pc, hand, resumed, lives>>

\* update_job_status(job.id, "running"); an error is ignored.
WorkerStart(w) ==
    /\ worker[w] = "spawned"
    /\ rows' \in {UpdateJobStatus(rows, pid[w], "running"), rows}
    /\ worker' = [worker EXCEPT ![w] = "running"]
    /\ UNCHANGED <<workerOnly, counts, ran>>

\* Mutant of WorkerFinish: the slot is given up here and once more at the end.
WorkerFinishReleases(w) ==
    /\ worker[w] = "running"
    /\ worker' = [worker EXCEPT ![w] = "finished"]
    /\ ran' = ran \cup {w}
    /\ counts' = [counts EXCEPT ![RepoOf[w]] = IF counts[RepoOf[w]] > 0
                                               THEN counts[RepoOf[w]] - 1 ELSE 0]
    /\ UNCHANGED <<workerOnly, rows>>

\* The placeholder review: one sleep, then the job counts as completed.  No
\* status is written.
WorkerFinish(w) ==
    /\ worker[w] = "running"
    /\ worker' = [worker EXCEPT ![w] = "finished"]
    /\ ran' = ran \cup {w}
    /\ UNCHANGED <<workerOnly, rows, counts>>

\* Mutant of WorkerRelease: the slot is never given up.
WorkerKeepsSlot(w) ==
    /\ worker[w] = "finished"
    /\ worker' = [worker EXCEPT ![w] = "done"]
    /\ UNCHANGED <<workerOnly, rows, counts, ran>>

\* saturating_sub, and the key is removed at 0.
WorkerRelease(w) ==
    /\ worker[w] = "finished"
    /\ worker' = [worker EXCEPT ![w] = "done"]
    /\ LET r == RepoOf[w]
       IN  counts' = [counts EXCEPT ![r] = IF counts[r] > 0 THEN counts[r] - 1
                                                            ELSE 0]
    /\ UNCHANGED <<workerOnly, rows, ran>>

Worker(w) == WorkerStart(w) \/ WorkerFinish(w) \/ WorkerRelease(w)
-------------------------------------------------------------------------------
(* the host *)

\* The process dies: only the table is left.
Crash ==
    /\ Alive
    /\ lives < MaxLives
    /\ pc' = "down"
    /\ sub' = [w \in Works |-> CASE sub[w] \in {"sending", "dropped"} -> "err"
                                 [] sub[w] = "ok" -> "past"
                                 [] OTHER -> sub[w]]
    /\ channel' = << >> /\ resumed' = << >> /\ hand' = NoJob
    /\ worker' = [w \in Works |-> "none"]
    /\ counts' = [r \in Repos |-> 0]
    /\ closed' = FALSE /\ shutdown' = FALSE
    /\ UNCHANGED <<rows, pid, ran, lives>>

\* ReviewQueue::new: the pending rows become payloads that carry their row id.
Start ==
    /\ pc = "down"
    /\ \E ids \in PendingJobs(rows) :
          /\ resumed' = [i \in 1 .. Len(ids) |-> rows[ids[i]].work]
          /\ pid' = [w \in Works |->
                        IF \E i \in 1 .. Len(ids) : rows[ids[i]].work = w
                        THEN CHOOSE id \in Range(ids) : rows[id].work = w
                        ELSE pid[w]]
    /\ pc' = "top"
    /\ lives' = lives + 1
    /\ UNCHANGED <<rows, sub, channel, closed, shutdown, hand, worker, counts, ran>>
-------------------------------------------------------------------------------
Next ==
    \/ \E w \in Works : \/ Enqueue(w) \/ EnqueueFails(w)
                        \/ Send(w) \/ SendFails(w) \/ DropSubmit(w)
                        \/ Worker(w)
    \/ Dispatcher
    \/ DropQueue \/ RequestShutdown \/ Crash \/ Start

Spec == Init /\ [][Next]_vars

\* The runtime polls every ready task, and the channel's semaphore grants
\* room in the order in which senders wait.
Fairness ==
    /\ WF_vars(Dispatcher)
    /\ \A w \in Works : /\ WF_vars(Send(w) \/ SendFails(w))
                        /\ WF_vars(Worker(w))

FairSpec == Spec /\ Fairness
-------------------------------------------------------------------------------
(* Properties *)

TypeOK ==
    /\ rows \in Seq(Row)
    /\ sub \in [Works -> SubStates]
    /\ pid \in [Works -> Nat]
    /\ channel \in Seq(Works) /\ Len(channel) <= Capacity
    /\ closed \in BOOLEAN /\ shutdown \in BOOLEAN
    /\ pc \in DispatcherStates
    /\ hand \in Works \cup {NoJob}
    /\ (hand # NoJob) <=> (pc \in {"check", "mark"})
    /\ resumed \in Seq(Works)
    /\ worker \in [Works -> WorkerStates]
    /\ counts \in [Repos -> Nat]
    /\ ran \subseteq Works
    /\ lives \in Nat

\* "per-repo concurrency limits": although the limit is read under one lock
\* and the slot is taken under another, active_counts always equals the
\* number of workers of each repository that have not released their slot,
\* and never exceeds concurrency_limit.
WithinConcurrencyLimit ==
    \A r \in Repos : /\ counts[r] = Cardinality(LiveOf(r))
                     /\ counts[r] <= Limit

\* A job is in at most one place of a process: once in the channel, or once
\* in the resumed queue, or in the dispatcher's hand, or with a worker; the
\* same job is never reviewed by two workers, not even when a restart has
\* found its row while callers go on submitting.
OnePlace ==
    /\ IsInjective(channel) /\ IsInjective(resumed)
    /\ Range(channel) \cap Range(resumed) = {}
    /\ hand \notin Range(channel) \cup Range(resumed)
    /\ \A w \in Works : worker[w] # "none" => ~Queued(w)

\* While the loop runs no job gets lost between submit, the channel, the
\* resumed queue and the workers: a job whose submit returned Ok in this life,
\* and a job whose row is pending, is held, unless its submit is under way or
\* was dropped in this life.  Such a row waits for the next start.
NoJobLost ==
    pc \notin {"down", "exited"} =>
        \A w \in Works :
            \/ sub[w] = "ok"
            \/ HasPendingRow(rows, w) /\ sub[w] \notin {"sending", "dropped"}
            => Held(w)

\* A job is in the table before it is in memory: whatever the process holds
\* would be found by somebody who reads the table.
StoredBeforeHeld == \A w \in Works : Held(w) => HasRow(rows, w)

\* Head of line: the resumed queue and the dispatcher's hand never hold more
\* than one job received from the channel, because the channel is read only
\* when the resumed queue is empty.  So re-queueing at the limit cannot grow
\* the memory past the channel's bound, and one job waiting for its repository
\* keeps the jobs of every other repository in the channel.
AtMostOneReceivedWaits ==
    Cardinality({w \in Works : /\ w \in Range(resumed) \cup {hand}
                               /\ sub[w] = "ok"}) <= 1

\* "Wait for active jobs to complete": a loop that stops because of the
\* shutdown flag leaves no worker behind and no job in the resumed queue; one
\* that stops because the channel was closed leaves no job at all.
DrainedExit ==
    [][(pc # "exited" /\ pc' = "exited") =>
          /\ resumed = << >> /\ hand = NoJob
          /\ \/ shutdown /\ \A w \in Works : worker[w] \notin Live
             \/ closed /\ channel = << >>]_vars

\* In one life a repository's running jobs keep their slots until they give
\* them up: only the release of a worker of r lowers active_counts[r], and no
\* worker ever starts after the loop has ended.
SlotsAreKept ==
    [][(Alive /\ pc' # "down") =>
          /\ \A r \in Repos : counts'[r] < counts[r] =>
                \E w \in LiveOf(r) : worker'[w] = "done"
          /\ \A w \in Works :
                (worker[w] = "none" /\ worker'[w] # "none") => pc' # "exited"]_vars

\* A job accepted by submit is eventually completed, unless shutdown or a
\* crash comes first; a job that waits at its repository's limit is not
\* starved by the others.
AcceptedRuns ==
    \A w \in Works : (sub[w] = "ok") ~> (w \in ran \/ shutdown \/ ~Alive)

\* Jobs already in the resumed queue are completed even during shutdown.
RequeuedRuns ==
    \A w \in Works : (w \in Range(resumed)) ~> (worker[w] = "done" \/ ~Alive)

\* A shutdown ends the loop: nobody waits for ever on the active jobs.
ShutdownEnds == shutdown ~> (pc = "exited" \/ ~Alive)

\* A submit blocked on the full channel always returns, also when the loop
\* stops reading.
SubmitReturns == \A w \in Works : (sub[w] = "sending") ~> (sub[w] # "sending")

\* The queue implements JobSlots.
Phase == [w \in Works |->
            CASE worker[w] \in Live -> "running"
              [] worker[w] = "done" -> "done"
              [] Queued(w) -> "waiting"
              [] worker[w] = "none" /\ ~Queued(w) /\ HasRow(rows, w) -> "stored"
              [] OTHER -> "new"]

Slots == INSTANCE JobSlots WITH phase <- Phase

\* Every step of the queue is a step of JobSlots or leaves the phases alone.
ImplementsSlots == Slots!SlotsSpec

\* "survives restarts": an accepted job that no worker has completed is held
\* by a live process or has a row that the next start reads.
AcceptedIsRecoverable ==
    \A w \in Works :
        (sub[w] \in {"ok", "past"} /\ w \notin ran)
            => \/ Alive /\ Held(w)
               \/ HasPendingRow(rows, w)
-------------------------------------------------------------------------------
(* The inductive strengthening of the invariants *)

\* Where a job can be follows from how far its submit has come; each job has
\* at most one row; a process that is down holds nothing; the channel is read
\* with the resumed queue empty.
Places ==
    /\ OnePlace
    /\ \A w \in Works : sub[w] \in {"idle", "sending"} => ~Held(w)
    /\ \A i, j \in 1 .. Len(rows) : rows[i].work = rows[j].work => i = j
    /\ \A i \in 1 .. Len(rows) : sub[rows[i].work] # "idle"
    /\ pc = "down" =>
          /\ channel = << >> /\ resumed = << >>
          /\ \A w \in Works : worker[w] = "none" /\ sub[w] # "sending"
    /\ pc = "recv" => resumed = << >>

\* A job is stored before it is sent.
Stored ==
    /\ StoredBeforeHeld
    /\ \A w \in Works : sub[w] = "sending" => HasRow(rows, w)

\* The room found by PassLimit is still there when MarkActive takes it.
Slotted ==
    /\ WithinConcurrencyLimit
    /\ pc = "mark" => counts[RepoOf[hand]] < Limit

IInv == TypeOK /\ Places /\ Stored /\ Slotted
===============================================================================
