------------------------------ MODULE BatchReview ------------------------------
(***************************************************************************)
(* Batching: the part of the GitHub task with batching on                  *)
(* (src/src/github.rs:332-361, 483-534) over the engine of                 *)
(* src/src/review.rs, up to the token its review is posted with.           *)
(*                                                                         *)
(* A task brings a commit range: the names of the base and head branches,  *)
(* the same for every event of a pull request, so that two entries of one  *)
(* list, or of two, may stand for the same commits and the same diff.      *)
(*                                                                         *)
(* The program makes an engine and a GitHubAuth for each task, so that a   *)
(* list of it never gets a second entry; tests share one engine.  Both are *)
(* covered: shared says which.                                             *)
(***************************************************************************)
EXTENDS GitHubAuth, Sequences, Functions

CONSTANTS KeyOf,        \* the batch key of each task: repository and number
          RangeOf,      \* its CommitRange: base and head branch
          BatchTimeout, \* batching.timeout_seconds
          Sharing,      \* whether tasks may share: a set of BOOLEANs
          OneForAll     \* the instance they then share

Tasks == Callers

ASSUME BatchAssumption ==
    /\ BatchTimeout \in Nat \ {0}
    /\ Sharing \subseteq BOOLEAN
    /\ Tasks \cup {OneForAll} \subseteq Instances

\* An entry of ReviewBatch::commits.  Only the range is data of the program;
\* by is history, who put it there.
Entry(t) == [range |-> RangeOf[t], by |-> t]
Entries == {Entry(t) : t \in Tasks}

VARIABLES
    pending,    \* per engine, pending_batches: key to the entries so far
    task,       \* where each task is
    due,        \* when it wakes up
    batch       \* the batch it took

batchVars == <<pending, task, due, batch>>
vars == <<clock, authVars, batchVars>>

TaskStates == {"idle", "left", "sleeping", "fetching", "reviewing", "posting",
               "posted", "ended"}
Keys == {KeyOf[t] : t \in Tasks}
EngineOf(t) == instance[t]
Batch(t) == pending[EngineOf(t)][KeyOf[t]]

TypeOK ==
    /\ AuthTypeOK
    /\ pending \in [Instances -> [Keys -> Seq(Entries)]]
    /\ task \in [Tasks -> TaskStates]
    /\ due \in [Tasks -> Nat]
    /\ batch \in [Tasks -> Seq(Entries)]

\* A key that is not in the map has no entries.
Init ==
    /\ AuthInit
    /\ \E shared \in Sharing :
           instance = [t \in Tasks |-> IF shared THEN OneForAll ELSE t]
    /\ pending = [e \in Instances |-> [k \in Keys |-> <<>>]]
    /\ task = [t \in Tasks |-> "idle"]
    /\ due = [t \in Tasks |-> 0]
    /\ batch = [t \in Tasks |-> <<>>]
-------------------------------------------------------------------------------
TaskGoes(t, from, to) == task[t] = from /\ task' = [task EXCEPT ![t] = to]

\* add_to_batch: the first entry of a key makes the batch, and its task waits
\* for more; the others add theirs and leave.  Equal ranges are not merged.
AddToBatch(t) ==
    /\ pending' = [pending EXCEPT ![EngineOf(t)][KeyOf[t]] = Append(@, Entry(t))]
    /\ IF Batch(t) = <<>>
       THEN TaskGoes(t, "idle", "sleeping") /\ due' = [due EXCEPT ![t] = clock + BatchTimeout]
       ELSE TaskGoes(t, "idle", "left") /\ UNCHANGED due
    /\ UNCHANGED <<clock, authVars, batch>>

\* Mutant of GetBatch: the batch is read and stays in the map.
GetBatchStays(t) ==
    /\ clock >= due[t]
    /\ batch' = [batch EXCEPT ![t] = Batch(t)]
    /\ TaskGoes(t, "sleeping", IF Batch(t) = <<>> THEN "ended" ELSE "fetching")
    /\ due' = [due EXCEPT ![t] = 0]
    /\ UNCHANGED <<clock, authVars, pending>>

\* The sleep is over: get_batch removes the batch.
GetBatch(t) ==
    /\ clock >= due[t]
    /\ batch' = [batch EXCEPT ![t] = Batch(t)]
    /\ pending' = [pending EXCEPT ![EngineOf(t)][KeyOf[t]] = <<>>]
    /\ TaskGoes(t, "sleeping", IF Batch(t) = <<>> THEN "ended" ELSE "fetching")
    /\ due' = [due EXCEPT ![t] = 0]
    /\ UNCHANGED <<clock, authVars>>

\* clone_and_diff_batch: every entry is fetched by itself, and the diffs are
\* put together, without those that failed or are empty.  Without any the task
\* ends: an empty diff is skipped, and the failure of the only entry an error.
CloneAndDiffBatch(t) ==
    /\ \E diffs \in SUBSET (DOMAIN batch[t]) :
           TaskGoes(t, "fetching", IF diffs = {} THEN "ended" ELSE "reviewing")
    /\ UNCHANGED <<clock, authVars, pending, due, batch>>

\* The LLM answers, and post_review asks for a token; or it fails.
ReviewBatch(t) ==
    /\ \/ TaskGoes(t, "reviewing", "posting") /\ Want(t)
       \/ TaskGoes(t, "reviewing", "ended") /\ UNCHANGED authVars
    /\ UNCHANGED <<clock, pending, due, batch>>

GetToken(t) == task[t] = "posting" /\ GetInstallationToken(t) /\ UNCHANGED batchVars

\* With a token the review is posted, or that fails; without one it fails.
Post(t) ==
    /\ \/ auth[t] = "got" /\ TaskGoes(t, "posting", "posted")
       \/ auth[t] \in {"got", "failed"} /\ TaskGoes(t, "posting", "ended")
    /\ Used(t)
    /\ UNCHANGED <<clock, pending, due, batch>>

ProcessBatchReview(t) ==
    CloneAndDiffBatch(t) \/ ReviewBatch(t) \/ GetToken(t) \/ Post(t)

Next ==
    \/ \E t \in Tasks : AddToBatch(t) \/ GetBatch(t) \/ ProcessBatchReview(t)
    \/ Tick /\ UNCHANGED batchVars

Spec == Init /\ [][Next]_vars
-------------------------------------------------------------------------------
\* However tasks of one pull request overlap, the entry of each that has been
\* added is in one list only, once: the pending one, for which exactly one task
\* of that request still sleeps, or one that such a task took (review.rs:162,
\* 190; github.rs:336-346).  This is about entries, not about commits: entries
\* of two tasks may have one range.  And a list holds entries of one key that
\* came through one engine.  With an engine for each task (github.rs:327) that
\* is one entry, so that events of a request that come while a task waits are
\* reviewed side by side, and "batch commits" (README.md:13, PLAN.md:20) does
\* not happen.
Has(s, t) == Entry(t) \in Range(s)
Once(s, t) == \E i \in DOMAIN s : \A j \in DOMAIN s : s[j] = Entry(t) <=> j = i
Added == {t \in Tasks : task[t] # "idle"}
Taken(t) == {u \in Tasks : Has(batch[u], t)}
Sleepers(e, k) ==
    {t \in Tasks : task[t] = "sleeping" /\ EngineOf(t) = e /\ KeyOf[t] = k}
EntryInOneBatch ==
    /\ \A t \in Added :
        \/ Once(Batch(t), t) /\ Taken(t) = {}
        \/ /\ ~Has(Batch(t), t)
           /\ \E u \in Tasks : Taken(t) = {u} /\ Once(batch[u], t)
    /\ \A e \in Instances, k \in Keys :
        Cardinality(Sleepers(e, k)) = (IF pending[e][k] = <<>> THEN 0 ELSE 1)
    /\ \A t, u \in Tasks :
        Has(batch[t], u) => EngineOf(u) = EngineOf(t) /\ KeyOf[u] = KeyOf[t]
===============================================================================
