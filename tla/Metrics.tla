-------------------------------- MODULE Metrics --------------------------------
(***************************************************************************)
(* The counters of src/src/metrics.rs that the server's requests and       *)
(* reviews add to.  "latency" is review_latency_count; the milliseconds it *)
(* goes with, the counters of the outcomes (ReviewTask) and of the jobs    *)
(* (which only tests raise) are left out.  "repo" is the sum of the map    *)
(* per_repo_stats, the only counter behind a mutex; the others are atomics *)
(* with Relaxed ordering.  Additions and loads are in the order they are   *)
(* written in: what is stated of the numbers is stated of each of them, so *)
(* the other orders that Relaxed would allow add nothing.                  *)
(***************************************************************************)
EXTENDS Integers, FiniteSets

Verdicts == {"Approve", "RequestChanges", "Comment"}
ReviewCounters == {"total", "latency", "repo"} \cup Verdicts
Counters == ReviewCounters \cup {"received", "rejected", "limited"}

\* Metrics::new()
NoMetrics == [c \in Counters |-> 0]

\* record_webhook_received() and the other records of one counter.
Add(m, c) == [m EXCEPT ![c] = @ + 1]

\* Mutant of RecordStart: the count of a review without latency is left out.
RecordStartNoLatency(v) == <<"total", v, "repo">>

\* The counters record_review(v, ...) adds to, in this order.
RecordStart(v) == <<"total", v, "latency", "repo">>
===============================================================================
