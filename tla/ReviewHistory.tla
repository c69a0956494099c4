----------------------------- MODULE ReviewHistory -----------------------------
(***************************************************************************)
(* The table `reviews` of src/src/db.rs and the queries of the dashboard.  *)
(* A row has its verdict and its repository; created_at is read under the  *)
(* connection's mutex, so the rows of the sequence are in its order, and a *)
(* row is shown by its position.                                           *)
(***************************************************************************)
EXTENDS Integers, Sequences, FiniteSets, Enumeration

Row(repo, verdict) == [repo |-> repo, verdict |-> verdict]

\* INSERT INTO reviews
SaveReview(rows, repo, verdict) == Append(rows, Row(repo, verdict))

\* LIMIT: a negative one is no limit.
Limited(s, limit) ==
    IF limit < 0 \/ limit >= Len(s) THEN s ELSE SubSeq(s, 1, limit)

\* Mutant of NewestFirst: ORDER BY created_at, without DESC.
OldestFirst(n) == [i \in 1 .. n |-> i]

\* Positions 1 .. n, the newest first.
NewestFirst(n) == [i \in 1 .. n |-> n + 1 - i]

GetRecentReviews(rows, limit) == Limited(NewestFirst(Len(rows)), limit)

\* The numbers of get_stats that count rows.
GetStats(rows) ==
    [total |-> Len(rows),
     verdicts |-> [v \in {"Approve", "RequestChanges", "Comment"} |->
                      Cardinality({i \in DOMAIN rows : rows[i].verdict = v})]]

\* search_reviews: a filter names the repositories and the verdicts it lets
\* through (all of them when it is None) and a limit; a range of times would be
\* one more such condition.
Matches(row, filter) == row.repo \in filter.repos /\ row.verdict \in filter.verdicts
SearchReviews(rows, filter) ==
    LET found == Ascending({i \in DOMAIN rows : Matches(rows[i], filter)}, Len(rows))
        newest == NewestFirst(Len(found))
    IN  Limited([j \in DOMAIN newest |-> found[newest[j]]], filter.limit)
===============================================================================
