------------------------------- MODULE JobTable -------------------------------
(***************************************************************************)
(* The review_jobs table of src/src/db.rs, as far as the queue uses it.    *)
(*                                                                         *)
(* A table is a sequence of rows; the AUTOINCREMENT id of a row is its     *)
(* index, and rows are never deleted.  A row keeps the job it stands for   *)
(* (repo, pr_number, provider and diff_hash together are one element of    *)
(* Works) and its status.  Every operation holds the one Mutex<Connection> *)
(* of Database from its first to its last statement, so each is one        *)
(* operator applied in one step.                                           *)
(***************************************************************************)
EXTENDS Naturals, Sequences, FiniteSets

CONSTANT Works      \* the review jobs callers may submit, each at most once

\* The statuses the table is given: enqueue_job writes 'pending', the queue's
\* worker writes 'running'.  'queued' is read by get_pending_jobs and written
\* by nobody; 'completed' and 'failed' are accepted and written by nobody.
Statuses == {"pending", "queued", "running", "completed", "failed"}

Row == [work : Works, status : Statuses]

\* enqueue_job: insert a pending row; its id is the new length.
EnqueueJob(rows, w) == Append(rows, [work |-> w, status |-> "pending"])

\* update_job_status: no transition is refused and an unknown id updates
\* nothing, without an error.
UpdateJobStatus(rows, id, status) ==
    IF id \in 1 .. Len(rows)
    THEN [rows EXCEPT ![id] = [work |-> rows[id].work, status |-> status]]
    ELSE rows

PendingIds(rows) ==
    {i \in 1 .. Len(rows) : rows[i].status \in {"pending", "queued"}}

\* get_pending_jobs: the ids of the pending rows ORDER BY created_at ASC.
\* created_at is read under the lock that inserts the row, so it grows with
\* the id (assuming a wall clock that is not set back).  The result set holds
\* exactly one listing.
PendingJobs(rows) ==
    LET P == PendingIds(rows)
    IN  {ids \in [1 .. Cardinality(P) -> P] :
            \A i, j \in 1 .. Cardinality(P) : i < j => ids[i] < ids[j]}

\* The row a job was stored in (a job is stored at most once).
HasRow(rows, w) == \E i \in 1 .. Len(rows) : rows[i].work = w
HasPendingRow(rows, w) == \E i \in PendingIds(rows) : rows[i].work = w
===============================================================================
