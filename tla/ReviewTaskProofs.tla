--------------------------- MODULE ReviewTaskProofs ---------------------------
(***************************************************************************)
(* Proofs that the invariants of ReviewTask hold for every set of tasks,   *)
(* requests and diffs, any number of inline comments, retries and crashes, *)
(* and every configuration.                                                *)
(***************************************************************************)
EXTENDS ReviewTask, TLAPS, FiniteSetTheorems

\* Where a task has no review and has seen no branch, where it surely has seen
\* it, and where it has not begun to post.
Fresh == {"idle", "batch", "clone"}
Cloned == {"approve", "lookup", "llm", "store", "post", "save", "record"}
Unposted == Fresh \cup {"approve", "lookup", "llm", "store"}

\* What ties a task's position to what it fetched, holds and has posted.
Fetched(t) ==
    /\ head[t] <= version[PrOf[t]]
    /\ pc[t] # "idle" => head[t] # 0
    /\ pc[t] \in Cloned => seen[t] # 0
    /\ pc[t] \in Fresh => seen[t] = 0 /\ review[t] = NoReview
    /\ seen[t] # 0 => seen[t] >= head[t]
    /\ review[t] # NoReview => review[t].diff = DiffSeen(t)

Shown(t) ==
    /\ pc[t] \in Unposted => sent[t] = 0 /\ posted[t] = {}
    /\ pc[t] = "post" => sent[t] < Pieces(t) /\ posted[t] = 1 .. sent[t]
    /\ pc[t] \in {"save", "record", "reviewed"} => posted[t] = 1 .. Pieces(t)
    /\ t \in history => /\ pc[t] \in {"record", "reviewed", "past", "lost"}
                        /\ posted[t] = 1 .. Pieces(t)
    /\ \E k \in Nat : posted[t] = 1 .. k

Approved(t) ==
    /\ OnGitLab(t) => attempt[t] = 0
    /\ pc[t] \in Fresh => approvals[t] = 0
    /\ approvals[t] <= attempt[t] + (IF pc[t] = "approve" THEN 0 ELSE 1)

CacheFits == \A d \in Diffs : cache[d] # NoReview => cache[d].diff = d

IInv ==
    /\ TypeOK
    /\ \A t \in Tasks : Fetched(t) /\ Shown(t) /\ Approved(t)
    /\ CacheFits

USE TaskAssumption
-------------------------------------------------------------------------------
\* How many calls a review takes: at least one, at most MaxInline + 1.
LEMMA PiecesRange ==
    ASSUME TypeOK, NEW t \in Tasks, review[t] # NoReview
    PROVE  /\ Pieces(t) \in 1 .. MaxInline + 1
           /\ review[t].inline \in 0 .. MaxInline
<1>1. review[t] \in Reviews
  BY DEF TypeOK
<1>2. review[t].inline \in 0 .. MaxInline
  BY <1>1 DEF Reviews
<1> QED BY <1>2 DEF Pieces

\* While a task posts, another piece is within the bounds, and what is visible
\* is what was acknowledged.
LEMMA NextPiece ==
    ASSUME IInv, NEW t \in Tasks, pc[t] = "post"
    PROVE  /\ sent[t] + 1 \in 1 .. MaxInline + 1
           /\ sent[t] \in Nat /\ Pieces(t) \in Nat /\ sent[t] < Pieces(t)
           /\ posted[t] = 1 .. sent[t] /\ t \notin history
<1>1. TypeOK /\ Shown(t)
  BY DEF IInv
<1>2. sent[t] < Pieces(t) /\ posted[t] = 1 .. sent[t] /\ t \notin history
  BY <1>1 DEF Shown
<1>3. review[t] # NoReview /\ sent[t] \in Nat
  BY <1>1 DEF TypeOK
<1>4. Pieces(t) \in 1 .. MaxInline + 1
  BY <1>1, <1>3, PiecesRange
<1> QED BY <1>2, <1>3, <1>4

\* The fetch of a task is an element of Diffs once it has seen the branch.
LEMMA DiffSeenType ==
    ASSUME TypeOK, NEW t \in Tasks, seen[t] # 0
    PROVE  DiffSeen(t) \in Diffs
<1>1. seen[t] \in Versions /\ PrOf[t] \in Prs
  BY DEF TypeOK, Versions
<1>2. DiffOf[PrOf[t]] \in [Versions -> Diffs]
  BY <1>1
<1> QED BY <1>1, <1>2 DEF DiffSeen

\* A step that leaves a task alone keeps its invariant.
LEMMA Frame ==
    ASSUME IInv, NEW u \in Tasks,
           pc'[u] = pc[u], head'[u] = head[u], seen'[u] = seen[u],
           review'[u] = review[u], sent'[u] = sent[u],
           posted'[u] = posted[u], attempt'[u] = attempt[u],
           approvals'[u] = approvals[u],
           version'[PrOf[u]] \in Nat, version'[PrOf[u]] >= version[PrOf[u]],
           u \in history' => u \in history
    PROVE  (Fetched(u) /\ Shown(u) /\ Approved(u))'
<1>1. head[u] \in Nat /\ version[PrOf[u]] \in Nat
  BY DEF IInv, TypeOK
<1>2. Pieces(u)' = Pieces(u) /\ DiffSeen(u)' = DiffSeen(u)
  BY DEF Pieces, DiffSeen, OnGitLab
<1>3. Fetched(u)'
  BY <1>1, <1>2 DEF IInv, Fetched
<1>4. Shown(u)'
  BY <1>2 DEF IInv, Shown
<1>5. Approved(u)'
  BY DEF IInv, Approved, OnGitLab
<1> QED BY <1>3, <1>4, <1>5
-------------------------------------------------------------------------------
(* Types *)

LEMMA InitTypes == Init => TypeOK
<1> SUFFICES ASSUME Init PROVE TypeOK
  OBVIOUS
<1>1. counters \in [Counters -> Nat]
  BY DEF Init, Zero
<1>2. \A t \in Tasks : pc[t] \notin {"store", "post", "save", "record"}
  BY DEF Init
<1> QED BY <1>1, <1>2 DEF Init, TypeOK

\* Counting and going somewhere keep the types.
LEMMA CountType ==
    ASSUME TypeOK, NEW c \in Counters, Count(c)
    PROVE  counters' \in [Counters -> Nat]
BY DEF TypeOK, Count

LEMMA NextTypes ==
    ASSUME IInv, [Next]_vars
    PROVE  TypeOK'
<1> USE DEF IInv
<1>0. CASE UNCHANGED vars
  BY <1>0 DEF vars, platform, work, approval, TypeOK
<1>1. ASSUME NEW p \in Prs, Push(p) PROVE TypeOK'
  BY <1>1 DEF Push, TypeOK, work, approval
<1>2. ASSUME NEW t \in Tasks, Deliver(t) PROVE TypeOK'
  BY <1>2 DEF Deliver, TypeOK, Goto, work, approval, Active
<1>3. ASSUME NEW t \in Tasks, BatchTimeout(t) PROVE TypeOK'
  BY <1>3 DEF BatchTimeout, TypeOK, Goto, platform, work, approval, Active
<1>4. ASSUME NEW t \in Tasks, CloneFails(t) PROVE TypeOK'
  <2>1. counters' \in [Counters -> Nat]
    BY <1>4, CountType DEF CloneFails, Fail, Counters
  <2> QED BY <1>4, <2>1 DEF CloneFails, TypeOK, Fail, Goto, platform, work, approval, Ends
<1>5. ASSUME NEW t \in Tasks, CloneAndDiff(t) PROVE TypeOK'
  <2>1. \A d : AfterDiff(d) \in {"skipped", "llm", "approve", "lookup"}
    BY DEF AfterDiff
  <2> QED BY <1>5, <2>1 DEF CloneAndDiff, TypeOK, Goto, platform, approval, Active, Ends
<1>6. ASSUME NEW t \in Tasks, Approve(t) PROVE TypeOK'
  <2>1. PICK shown, ok, transient \in BOOLEAN : ApproveAttempt(t, shown, ok, transient)
    BY <1>6 DEF Approve
  <2>2. counters' \in [Counters -> Nat]
    BY <2>1, CountType DEF ApproveAttempt, Counters, TypeOK
  <2>3. attempt' \in [Tasks -> 0 .. MaxRetries]
    <3>1. \/ attempt' = attempt
          \/ /\ ~ LastAttempt(t)
             /\ attempt' = [attempt EXCEPT ![t] = attempt[t] + 1]
      BY <2>1 DEF ApproveAttempt
    <3>2. ~ LastAttempt(t) => attempt[t] + 1 \in 0 .. MaxRetries
      <4>1. attempt[t] \in 0 .. MaxRetries
        BY DEF TypeOK
      <4>2. ~ LastAttempt(t) => attempt[t] # MaxRetries
        BY DEF LastAttempt
      <4> QED BY <4>1, <4>2
    <3> QED BY <3>1, <3>2 DEF TypeOK
  <2>4. approvals' \in [Tasks -> Nat]
    BY <2>1 DEF ApproveAttempt, TypeOK
  <2> QED BY <2>1, <2>2, <2>3, <2>4 DEF ApproveAttempt, TypeOK, Goto, platform, work, Ends
<1>7. ASSUME NEW t \in Tasks, CacheHit(t) PROVE TypeOK'
  <2>1. counters' \in [Counters -> Nat]
    BY <1>7, CountType DEF CacheHit, Counters
  <2>2. cache[DiffSeen(t)] \in Reviews
    BY <1>7, DiffSeenType DEF CacheHit, TypeOK, Fetched, Cloned
  <2> QED BY <1>7, <2>1, <2>2 DEF CacheHit, TypeOK, Goto, platform, approval, Active
<1>8. ASSUME NEW t \in Tasks, CacheMiss(t) PROVE TypeOK'
  <2>1. counters' \in [Counters -> Nat]
    BY <1>8, CountType DEF CacheMiss, Counters
  <2> QED BY <1>8, <2>1 DEF CacheMiss, TypeOK, Goto, platform, work, approval, Active
<1>9. ASSUME NEW t \in Tasks, LookupFails(t) PROVE TypeOK'
  BY <1>9 DEF LookupFails, TypeOK, Goto, platform, work, approval, Active
<1>10. ASSUME NEW t \in Tasks, LlmFails(t) PROVE TypeOK'
  <2>1. counters' \in [Counters -> Nat]
    BY <1>10, CountType DEF LlmFails, Fail, Counters
  <2> QED BY <1>10, <2>1 DEF LlmFails, TypeOK, Fail, Goto, platform, work, approval, Ends
<1>11. ASSUME NEW t \in Tasks, LlmAnswers(t) PROVE TypeOK'
  BY <1>11 DEF LlmAnswers, TypeOK, Goto, platform, approval, Active
<1>12. ASSUME NEW t \in Tasks, StoreInCache(t) PROVE TypeOK'
  BY <1>12 DEF StoreInCache, TypeOK, Goto, platform, work, approval, Active
<1>13. ASSUME NEW t \in Tasks, PostPiece(t) PROVE TypeOK'
  <2>1. sent[t] + 1 \in 1 .. MaxInline + 1
    BY <1>13, NextPiece DEF PostPiece
  <2>2. sent' \in [Tasks -> 0 .. MaxInline + 1]
    BY <1>13, <2>1 DEF PostPiece, TypeOK
  <2>3. posted' \in [Tasks -> SUBSET (1 .. MaxInline + 1)]
    BY <1>13, <2>1 DEF PostPiece, TypeOK
  <2> QED BY <1>13, <2>2, <2>3 DEF PostPiece, TypeOK, Goto, platform, approval, Active
<1>14. ASSUME NEW t \in Tasks, PostFails(t) PROVE TypeOK'
  <2>1. sent[t] + 1 \in 1 .. MaxInline + 1
    BY <1>14, PiecesRange DEF PostFails, Shown, TypeOK
  <2>2. counters' \in [Counters -> Nat]
    BY <1>14, CountType DEF PostFails, Fail, Counters
  <2>3. posted' \in [Tasks -> SUBSET (1 .. MaxInline + 1)]
    <3>1. posted[t] \cup {sent[t] + 1} \in SUBSET (1 .. MaxInline + 1)
      BY <2>1 DEF TypeOK
    <3>2. \/ posted' = posted
          \/ posted' = [posted EXCEPT ![t] = posted[t] \cup {sent[t] + 1}]
      BY <1>14 DEF PostFails
    <3> QED BY <3>1, <3>2 DEF TypeOK
  <2> QED BY <1>14, <2>2, <2>3 DEF PostFails, TypeOK, Fail, Goto, platform, approval, Ends
<1>15. ASSUME NEW t \in Tasks, SaveReview(t) PROVE TypeOK'
  BY <1>15 DEF SaveReview, TypeOK, Goto, platform, work, approval, Active
<1>18. ASSUME NEW t \in Tasks, RecordReview(t) PROVE TypeOK'
  <2>1. counters' \in [Counters -> Nat]
    BY <1>18, CountType DEF RecordReview, Counters
  <2> QED BY <1>18, <2>1 DEF RecordReview, TypeOK, Goto, platform, work, approval, Ends
<1>16. ASSUME NEW d \in Diffs, Expire(d) PROVE TypeOK'
  BY <1>16 DEF Expire, TypeOK, platform, work, approval
<1>17. CASE Crash
  <2>1. counters' \in [Counters -> Nat]
    BY <1>17 DEF Crash, Zero
  <2>2. \A t \in Tasks : pc'[t] \in {"idle", "lost", "past"}
    BY <1>17 DEF Crash, TypeOK
  <2>3. pc' \in [Tasks -> {"idle", "lost", "past"}]
    BY <1>17, <2>2 DEF Crash
  <2> QED BY <1>17, <2>1, <2>3 DEF Crash, TypeOK, platform, work, approval
<1> QED
  BY <1>0, <1>1, <1>2, <1>3, <1>4, <1>5, <1>6, <1>7, <1>8, <1>9, <1>10, <1>11,
     <1>12, <1>13, <1>14, <1>15, <1>16, <1>17, <1>18 DEF Next, Task

-------------------------------------------------------------------------------
(* The inductive invariant *)

LEMMA InitInv == Init => IInv
<1> SUFFICES ASSUME Init PROVE IInv
  OBVIOUS
<1>1. TypeOK
  BY InitTypes
<1>2. ASSUME NEW t \in Tasks PROVE Fetched(t) /\ Shown(t) /\ Approved(t)
  <2>1. 1 .. 0 = {}
    OBVIOUS
  <2>2. Fetched(t)
    BY DEF Init, Fetched, Cloned
  <2>3. Shown(t)
    BY <2>1 DEF Init, Shown
  <2>4. Approved(t)
    BY DEF Init, Approved
  <2> QED BY <2>2, <2>3, <2>4
<1>3. CacheFits
  BY DEF Init, CacheFits
<1> QED BY <1>1, <1>2, <1>3 DEF IInv

\* A step of one task that only goes on (batch, failed call, stored review).
LEMMA Move ==
    ASSUME IInv, NEW t \in Tasks, NEW e,
           <<pc[t], e>> \in {<<"batch", "clone">>, <<"clone", "failed">>,
                            <<"lookup", "llm">>, <<"llm", "failed">>,
                            <<"store", "post">>},
           Goto(t, e),
           UNCHANGED <<version, head, seen, review, sent, posted, attempt,
                       approvals, history>>
    PROVE  \A u \in Tasks : (Fetched(u) /\ Shown(u) /\ Approved(u))'
<1> USE DEF IInv
<1>1. \A v \in Tasks : version[PrOf[v]] \in Nat
  BY DEF TypeOK
<1>2. ASSUME NEW u \in Tasks, u # t
      PROVE  (Fetched(u) /\ Shown(u) /\ Approved(u))'
  BY <1>1, <1>2, Frame DEF Goto, TypeOK
<1>3. pc'[t] = e
  BY DEF Goto, TypeOK
<1>4. Fetched(t)'
  BY <1>3 DEF Fetched, Fresh, Cloned, DiffSeen
<1>5. Shown(t)'
  <2>1. t \notin history /\ pc[t] # "post"
    BY DEF Shown
  <2>2. pc[t] \in Unposted => sent[t] = 0 /\ posted[t] = {} /\ posted[t] = 1 .. 0
    BY DEF Shown
  <2>3. pc[t] = "store" => 0 < Pieces(t) /\ Pieces(t)' = Pieces(t)
    BY PiecesRange DEF TypeOK, Pieces, OnGitLab
  <2>4. e \in {"clone", "failed", "llm", "post"}
    OBVIOUS
  <2>5. CASE e = "post"
    BY <1>3, <2>1, <2>2, <2>3, <2>5 DEF Shown, Unposted, Fresh
  <2>6. CASE e # "post"
    BY <1>3, <2>1, <2>2, <2>4, <2>6 DEF Shown, Unposted, Fresh
  <2> QED BY <2>5, <2>6
<1>6. Approved(t)'
  BY <1>3 DEF Approved, Fresh, OnGitLab
<1> QED BY <1>2, <1>4, <1>5, <1>6

\* A task that takes a review of its diff, from the cache or from the LLM.
LEMMA Take ==
    ASSUME IInv, NEW t \in Tasks, NEW r \in Reviews, NEW e \in {"store", "post"},
           pc[t] \in {"lookup", "llm"}, r.diff = DiffSeen(t),
           Goto(t, e), review' = [review EXCEPT ![t] = r],
           UNCHANGED <<version, head, seen, sent, posted, attempt, approvals,
                       history>>
    PROVE  \A u \in Tasks : (Fetched(u) /\ Shown(u) /\ Approved(u))'
<1> USE DEF IInv
<1>1. \A v \in Tasks : version[PrOf[v]] \in Nat
  BY DEF TypeOK
<1>2. ASSUME NEW u \in Tasks, u # t
      PROVE  (Fetched(u) /\ Shown(u) /\ Approved(u))'
  BY <1>1, <1>2, Frame DEF Goto, TypeOK
<1>3. pc'[t] = e /\ review'[t] = r
  BY DEF Goto, TypeOK
<1>4. Fetched(t)'
  BY <1>3 DEF Fetched, Fresh, Cloned, DiffSeen
<1>5. Shown(t)'
  <2>1. /\ t \notin history
        /\ sent[t] = 0 /\ posted[t] = {} /\ posted[t] = 1 .. 0
    <3>1. Shown(t) /\ pc[t] \in {"lookup", "llm"}  OBVIOUS
    <3>2. t \notin history  BY <3>1 DEF Shown
    <3>3. sent[t] = 0 /\ posted[t] = {}  BY <3>1 DEF Shown, Unposted
    <3>4. 1 .. 0 = {}  OBVIOUS
    <3> QED  BY <3>2, <3>3, <3>4
  <2>2. 0 < Pieces(t)'
    BY <1>3 DEF Reviews, Pieces
  <2> QED BY <1>3, <2>1, <2>2 DEF Shown, Unposted, Fresh
<1>6. Approved(t)'
  BY <1>3 DEF Approved, Fresh, OnGitLab
<1> QED BY <1>2, <1>4, <1>5, <1>6

LEMMA NextInv ==
    ASSUME IInv, [Next]_vars
    PROVE  IInv'
<1> USE DEF IInv
<1> DEFINE Holds(u) == Fetched(u) /\ Shown(u) /\ Approved(u)
<1>t. TypeOK'
  BY NextTypes
<1>v. \A p \in Prs : version[p] \in Nat /\ (version[p])' \in Nat
  BY <1>t DEF TypeOK
<1>p. \A u \in Tasks : PrOf[u] \in Prs
  OBVIOUS
<1>0. CASE UNCHANGED vars
  <2>1. ASSUME NEW u \in Tasks PROVE Holds(u)'
    BY <1>0, <1>v, <1>p, Frame DEF vars, platform, work, approval
  <2> QED BY <1>0, <1>t, <2>1 DEF vars, CacheFits
<1>1. ASSUME NEW p \in Prs, Push(p) PROVE IInv'
  <2>1. ASSUME NEW u \in Tasks PROVE Holds(u)'
    <3>1. version'[PrOf[u]] >= version[PrOf[u]]
      BY <1>1, <1>v, <1>p DEF Push, TypeOK
    <3> QED BY <1>1, <1>v, <1>p, <3>1, Frame DEF Push, work, approval
  <2> QED BY <1>1, <1>t, <2>1 DEF Push, CacheFits
<1>2. ASSUME NEW t \in Tasks, Deliver(t) PROVE IInv'
  <2>1. ASSUME NEW u \in Tasks, u # t PROVE Holds(u)'
    BY <1>2, <1>v, <1>p, <2>1, Frame DEF Deliver, Goto, work, approval, TypeOK
  <2>2. /\ pc[t] = "idle" /\ pc'[t] \in {"batch", "clone"}
        /\ head'[t] \in 1 .. version[PrOf[t]]
        /\ UNCHANGED <<version, seen, review, sent, posted, attempt, approvals,
                       cache, history>>
    BY <1>2 DEF Deliver, Goto, work, approval, TypeOK
  <2>3. Fetched(t)'
    BY <2>2, <1>v, <1>p DEF Fetched, Fresh, Cloned, DiffSeen
  <2>4. Shown(t)'
    BY <2>2 DEF Shown, Unposted, Fresh
  <2>5. Approved(t)'
    BY <2>2 DEF Approved, Fresh, OnGitLab
  <2> QED BY <2>1, <2>2, <2>3, <2>4, <2>5, <1>t DEF CacheFits
<1>3. ASSUME NEW t \in Tasks, BatchTimeout(t) PROVE IInv'
  <2>1. \A u \in Tasks : Holds(u)'
    BY <1>3, Move DEF BatchTimeout, platform, work, approval
  <2> QED BY <1>3, <1>t, <2>1 DEF BatchTimeout, CacheFits
<1>4. ASSUME NEW t \in Tasks, CloneFails(t) PROVE IInv'
  <2>1. \A u \in Tasks : Holds(u)'
    BY <1>4, Move DEF CloneFails, Fail, platform, work, approval
  <2> QED BY <1>4, <1>t, <2>1 DEF CloneFails, CacheFits
<1>5. ASSUME NEW t \in Tasks, CloneAndDiff(t) PROVE IInv'
  <2>1. ASSUME NEW u \in Tasks, u # t PROVE Holds(u)'
    BY <1>5, <1>v, <1>p, <2>1, Frame DEF CloneAndDiff, Goto, platform, approval, TypeOK
  <2>2. \A d : AfterDiff(d) \in {"skipped", "llm", "approve", "lookup"}
    BY DEF AfterDiff
  <2>3. /\ pc[t] = "clone" /\ pc'[t] \in {"skipped", "llm", "approve", "lookup"}
        /\ seen'[t] = version[PrOf[t]]
        /\ UNCHANGED <<version, head, review, sent, posted, attempt, approvals,
                       cache, history>>
    BY <1>5, <2>2 DEF CloneAndDiff, Goto, platform, approval, TypeOK
  <2>4. Fetched(t)'
    <3>1. head[t] \in Nat /\ head[t] # 0 /\ head[t] <= version[PrOf[t]]
      BY <2>3 DEF Fetched, TypeOK
    <3>2. review[t] = NoReview
      BY <2>3 DEF Fetched, Fresh
    <3> QED BY <2>3, <3>1, <3>2, <1>v, <1>p DEF Fetched, Fresh
  <2>5. Shown(t)'
    BY <2>3 DEF Shown, Unposted, Fresh
  <2>6. Approved(t)'
    <3>1. approvals[t] = 0 /\ attempt[t] \in Nat
      BY <2>3 DEF Approved, Fresh, TypeOK
    <3> QED BY <2>3, <3>1 DEF Approved, Fresh, OnGitLab
  <2> QED BY <2>1, <2>3, <2>4, <2>5, <2>6, <1>t DEF CacheFits
<1>6. ASSUME NEW t \in Tasks, Approve(t) PROVE IInv'
  <2>1. PICK shown, ok, transient \in BOOLEAN : ApproveAttempt(t, shown, ok, transient)
    BY <1>6 DEF Approve
  <2>2. ASSUME NEW u \in Tasks, u # t PROVE Holds(u)'
    BY <2>1, <1>v, <1>p, <2>2, Frame DEF ApproveAttempt, Goto, platform, work, TypeOK
  <2>3. UNCHANGED <<version, head, seen, review, sent, posted, cache, history>>
    BY <2>1 DEF ApproveAttempt, platform, work
  <2>4. pc[t] = "approve" /\ pc'[t] \in {"approve", "approved"}
    BY <2>1 DEF ApproveAttempt, Goto, TypeOK
  <2>5. Fetched(t)'
    BY <2>3, <2>4 DEF Fetched, Fresh, Cloned, DiffSeen
  <2>6. Shown(t)'
    BY <2>3, <2>4 DEF Shown, Unposted, Fresh
  <2>7. Approved(t)'
    <3>1. attempt[t] \in Nat /\ approvals[t] \in Nat /\ approvals[t] <= attempt[t]
      BY <2>4 DEF Approved, TypeOK
    <3>2. approvals'[t] \in {approvals[t], approvals[t] + 1}
      BY <2>1 DEF ApproveAttempt, TypeOK
    <3>3. \/ pc'[t] = "approved" /\ attempt' = attempt
          \/ /\ pc'[t] = "approve" /\ ~ OnGitLab(t)
             /\ attempt'[t] = attempt[t] + 1
      BY <2>1 DEF ApproveAttempt, Goto, LastAttempt, TypeOK
    <3> QED BY <3>1, <3>2, <3>3 DEF Approved, Fresh, OnGitLab
  <2> QED BY <2>2, <2>3, <2>5, <2>6, <2>7, <1>t DEF CacheFits
<1>7. ASSUME NEW t \in Tasks, CacheHit(t) PROVE IInv'
  <2>1. seen[t] # 0
    BY <1>7 DEF CacheHit, Fetched, Cloned
  <2>2. DiffSeen(t) \in Diffs
    BY <2>1, DiffSeenType
  <2>3. cache[DiffSeen(t)] \in Reviews /\ cache[DiffSeen(t)].diff = DiffSeen(t)
    BY <1>7, <2>2 DEF CacheHit, TypeOK, CacheFits
  <2>4. \A u \in Tasks : Holds(u)'
    BY <1>7, <2>3, Take DEF CacheHit, platform, approval
  <2> QED BY <1>7, <1>t, <2>4 DEF CacheHit, CacheFits
<1>8. ASSUME NEW t \in Tasks, CacheMiss(t) PROVE IInv'
  <2>1. \A u \in Tasks : Holds(u)'
    BY <1>8, Move DEF CacheMiss, platform, work, approval
  <2> QED BY <1>8, <1>t, <2>1 DEF CacheMiss, CacheFits
<1>9. ASSUME NEW t \in Tasks, LookupFails(t) PROVE IInv'
  <2>1. \A u \in Tasks : Holds(u)'
    BY <1>9, Move DEF LookupFails, platform, work, approval
  <2> QED BY <1>9, <1>t, <2>1 DEF LookupFails, CacheFits
<1>10. ASSUME NEW t \in Tasks, LlmFails(t) PROVE IInv'
  <2>1. \A u \in Tasks : Holds(u)'
    BY <1>10, Move DEF LlmFails, Fail, platform, work, approval
  <2> QED BY <1>10, <1>t, <2>1 DEF LlmFails, CacheFits
<1>11. ASSUME NEW t \in Tasks, LlmAnswers(t) PROVE IInv'
  <2>1. PICK r \in Reviews : /\ r.diff = DiffSeen(t)
                             /\ review' = [review EXCEPT ![t] = r]
    BY <1>11 DEF LlmAnswers
  <2>2. PICK e \in {"store", "post"} : Goto(t, e)
    BY <1>11 DEF LlmAnswers
  <2>3. \A u \in Tasks : Holds(u)'
    BY <1>11, <2>1, <2>2, Take DEF LlmAnswers, platform, approval
  <2> QED BY <1>11, <1>t, <2>3 DEF LlmAnswers, CacheFits
<1>12. ASSUME NEW t \in Tasks, StoreInCache(t) PROVE IInv'
  <2>1. \A u \in Tasks : Holds(u)'
    BY <1>12, Move DEF StoreInCache, platform, work, approval
  <2>2. review[t].diff = DiffSeen(t)
    BY <1>12 DEF StoreInCache, Fetched, TypeOK
  <2>3. CacheFits'
    BY <1>12, <2>2 DEF StoreInCache, CacheFits, TypeOK
  <2> QED BY <1>t, <2>1, <2>3
<1>13. ASSUME NEW t \in Tasks, PostPiece(t) PROVE IInv'
  <2>1. ASSUME NEW u \in Tasks, u # t PROVE Holds(u)'
    BY <1>13, <1>v, <1>p, <2>1, Frame DEF PostPiece, Goto, platform, approval, TypeOK
  <2>2. /\ pc[t] = "post"
        /\ pc'[t] = IF sent[t] + 1 = Pieces(t) THEN "save" ELSE "post"
        /\ sent'[t] = sent[t] + 1
        /\ posted'[t] = posted[t] \cup {sent[t] + 1}
        /\ UNCHANGED <<version, head, seen, review, attempt, approvals, cache,
                       history>>
    BY <1>13 DEF PostPiece, Goto, platform, approval, TypeOK
  <2>3. Fetched(t)'
    BY <2>2 DEF Fetched, Fresh, Cloned, DiffSeen
  <2>4. Shown(t)'
    <3>1. /\ t \notin history /\ posted[t] = 1 .. sent[t]
          /\ sent[t] < Pieces(t) /\ sent[t] \in Nat /\ Pieces(t) \in Nat
      BY <2>2, NextPiece
    <3>2. posted'[t] = 1 .. sent[t] + 1 /\ sent[t] + 1 \in Nat
      BY <2>2, <3>1
    <3>3. Pieces(t)' = Pieces(t)
      BY <2>2 DEF Pieces, OnGitLab
    <3> QED BY <2>2, <3>1, <3>2, <3>3 DEF Shown, Unposted, Fresh
  <2>5. Approved(t)'
    BY <2>2 DEF Approved, Fresh, OnGitLab
  <2> QED BY <2>1, <2>2, <2>3, <2>4, <2>5, <1>t DEF CacheFits
<1>14. ASSUME NEW t \in Tasks, PostFails(t) PROVE IInv'
  <2>1. \/ posted' = posted
        \/ posted' = [posted EXCEPT ![t] = posted[t] \cup {sent[t] + 1}]
    BY <1>14 DEF PostFails
  <2>2. ASSUME NEW u \in Tasks, u # t PROVE Holds(u)'
    <3>1. posted'[u] = posted[u]
      BY <2>1, <2>2 DEF TypeOK
    <3> QED BY <1>14, <1>v, <1>p, <2>2, <3>1, Frame
            DEF PostFails, Fail, Goto, platform, approval, TypeOK
  <2>3. /\ pc[t] = "post" /\ pc'[t] = "failed"
        /\ UNCHANGED <<version, head, seen, review, sent, attempt, approvals,
                       cache, history>>
    BY <1>14 DEF PostFails, Fail, Goto, platform, approval, TypeOK
  <2>4. Fetched(t)'
    BY <2>3 DEF Fetched, Fresh, Cloned, DiffSeen
  <2>5. Shown(t)'
    <3>1. t \notin history /\ posted[t] = 1 .. sent[t]
      BY <2>3 DEF Shown
    <3>2. sent[t] \in Nat /\ posted \in [Tasks -> SUBSET (1 .. MaxInline + 1)]
      BY DEF TypeOK
    <3>3. posted'[t] \in {posted[t], posted[t] \cup {sent[t] + 1}}
      BY <2>1, <3>2
    <3>4. posted[t] \cup {sent[t] + 1} = 1 .. sent[t] + 1
      BY <3>1, <3>2
    <3>5. \E k \in Nat : posted'[t] = 1 .. k
      <4>1. sent[t] + 1 \in Nat
        BY <3>2
      <4> QED BY <3>1, <3>2, <3>3, <3>4, <4>1
    <3> QED BY <2>3, <3>1, <3>5 DEF Shown, Unposted, Fresh
  <2>6. Approved(t)'
    BY <2>3 DEF Approved, Fresh, OnGitLab
  <2> QED BY <2>2, <2>3, <2>4, <2>5, <2>6, <1>t DEF CacheFits
<1>15. ASSUME NEW t \in Tasks, SaveReview(t) PROVE IInv'
  <2>1. ASSUME NEW u \in Tasks, u # t PROVE Holds(u)'
    <3>1. u \in history' => u \in history
      BY <1>15, <2>1 DEF SaveReview
    <3>2. pc'[u] = pc[u]
      BY <1>15, <2>1 DEF SaveReview, Goto, TypeOK
    <3> QED BY <1>15, <1>v, <1>p, <3>1, <3>2, Frame
            DEF SaveReview, platform, work, approval
  <2>2. /\ pc[t] = "save" /\ pc'[t] = "record"
        /\ UNCHANGED <<version, head, seen, review, sent, posted, attempt,
                       approvals, cache>>
    BY <1>15 DEF SaveReview, Goto, platform, work, approval, TypeOK
  <2>3. Fetched(t)'
    BY <2>2 DEF Fetched, Fresh, Cloned, DiffSeen
  <2>4. Shown(t)'
    <3>1. Pieces(t)' = Pieces(t) /\ posted[t] = 1 .. Pieces(t)
      BY <2>2 DEF Pieces, OnGitLab, Shown
    <3> QED BY <2>2, <3>1 DEF Shown, Unposted, Fresh
  <2>5. Approved(t)'
    BY <2>2 DEF Approved, Fresh, OnGitLab
  <2> QED BY <2>1, <2>2, <2>3, <2>4, <2>5, <1>t DEF CacheFits
<1>18. ASSUME NEW t \in Tasks, RecordReview(t) PROVE IInv'
  <2>1. ASSUME NEW u \in Tasks, u # t PROVE Holds(u)'
    BY <1>18, <1>v, <1>p, <2>1, Frame
       DEF RecordReview, Goto, TypeOK, platform, work, approval
  <2>2. /\ pc[t] = "record" /\ pc'[t] = "reviewed"
        /\ UNCHANGED <<version, head, seen, review, sent, posted, attempt,
                       approvals, cache, history>>
    BY <1>18 DEF RecordReview, Goto, platform, work, approval, TypeOK
  <2>3. Fetched(t)'
    BY <2>2 DEF Fetched, Fresh, Cloned, DiffSeen
  <2>4. Shown(t)'
    <3>1. Pieces(t)' = Pieces(t) /\ posted[t] = 1 .. Pieces(t)
      BY <2>2 DEF Pieces, OnGitLab, Shown
    <3> QED BY <2>2, <3>1 DEF Shown, Unposted, Fresh
  <2>5. Approved(t)'
    BY <2>2 DEF Approved, Fresh, OnGitLab
  <2> QED BY <2>1, <2>2, <2>3, <2>4, <2>5, <1>t DEF CacheFits
<1>16. ASSUME NEW d \in Diffs, Expire(d) PROVE IInv'
  <2>1. ASSUME NEW u \in Tasks PROVE Holds(u)'
    BY <1>16, <1>v, <1>p, Frame DEF Expire, platform, work, approval
  <2>2. CacheFits'
    BY <1>16 DEF Expire, CacheFits, TypeOK
  <2> QED BY <1>t, <2>1, <2>2
<1>17. CASE Crash
  <2>1. UNCHANGED <<version, head, seen, review, sent, posted, attempt, approvals,
                    cache, history>>
    BY <1>17 DEF Crash, platform, work, approval
  <2>2. ASSUME NEW u \in Tasks PROVE Holds(u)'
    <3>1. \/ pc[u] = "idle" /\ pc'[u] = "idle"
          \/ pc[u] \in Ends \cup {"past"} /\ pc'[u] = "past"
          \/ pc[u] \in Active \cup {"lost"} /\ pc'[u] = "lost"
      BY <1>17 DEF Crash, TypeOK, Ends, Active
    <3>2. Fetched(u)'
      BY <2>1, <3>1 DEF Fetched, Fresh, Cloned, DiffSeen, Ends, Active
    <3>3. Pieces(u)' = Pieces(u)
      BY <2>1 DEF Pieces, OnGitLab
    <3>4. Shown(u)'
      BY <2>1, <3>1, <3>3 DEF Shown, Unposted, Fresh, Ends, Active
    <3>5. Approved(u)'
      BY <2>1, <3>1 DEF Approved, Fresh, OnGitLab, Ends, Active, TypeOK
    <3> QED BY <3>2, <3>4, <3>5
  <2> QED BY <1>t, <2>1, <2>2 DEF CacheFits
<1> QED
  BY <1>0, <1>1, <1>2, <1>3, <1>4, <1>5, <1>6, <1>7, <1>8, <1>9, <1>10, <1>11,
     <1>12, <1>13, <1>14, <1>15, <1>16, <1>17, <1>18 DEF Next, Task

LEMMA Invariant == Spec => []IInv
<1> QED BY InitInv, NextInv, PTL DEF Spec
-------------------------------------------------------------------------------
(* Theorems *)

\* Every variable keeps its type; a task that stores, posts or saves holds a
\* review.
THEOREM TaskTypes == Spec => []TypeOK
<1>1. IInv => TypeOK
  BY DEF IInv
<1> QED BY <1>1, Invariant, PTL

\* What is counted or recorded as reviewed is completely visible on the
\* platform, for any number of inline comments, lost answers and crashes.
THEOREM TaskPostedBeforeRecorded == Spec => []PostedBeforeRecorded
<1>1. IInv => PostedBeforeRecorded
  BY DEF IInv, Shown, PostedBeforeRecorded
<1> QED BY <1>1, Invariant, PTL

\* A summary is never visible without every inline comment before it: what is
\* visible is always a first part of the review.
THEOREM TaskSummaryLast == Spec => []SummaryLast
<1>1. ASSUME IInv PROVE SummaryLast
  <2> SUFFICES ASSUME NEW t \in Tasks, review[t] # NoReview, Pieces(t) \in posted[t]
               PROVE  1 .. Pieces(t) \subseteq posted[t]
    BY DEF SummaryLast
  <2>1. PICK k \in Nat : posted[t] = 1 .. k
    BY <1>1 DEF IInv, Shown
  <2>2. Pieces(t) \in 1 .. MaxInline + 1
    BY <1>1, PiecesRange DEF IInv
  <2> QED BY <2>1, <2>2
<1> QED BY <1>1, Invariant, PTL

\* A review in a task's hands, or in the cache, is of the diff it is used for.
THEOREM TaskReviewFitsDiff == Spec => []ReviewFitsDiff
<1>1. IInv => ReviewFitsDiff
  BY DEF IInv, Fetched, CacheFits, ReviewFitsDiff
<1> QED BY <1>1, Invariant, PTL

\* What a task fetched is never older than the push its event told about.
THEOREM TaskNotOlderThanEvent == Spec => []NotOlderThanEvent
<1>1. IInv => NotOlderThanEvent
  BY DEF IInv, Fetched, NotOlderThanEvent
<1> QED BY <1>1, Invariant, PTL

\* No more approval comments than attempts, and none beyond max_retries retries.
THEOREM TaskApprovalsBounded == Spec => []ApprovalsBounded
<1>1. ASSUME IInv PROVE ApprovalsBounded
  <2> SUFFICES ASSUME NEW t \in Tasks
               PROVE  /\ approvals[t] <= IF OnGitLab(t) THEN 1 ELSE MaxRetries + 1
                      /\ approvals[t] <= attempt[t] + (IF pc[t] = "approve" THEN 0 ELSE 1)
    BY DEF ApprovalsBounded
  <2>1. attempt[t] \in 0 .. MaxRetries /\ approvals[t] \in Nat
    BY <1>1 DEF IInv, TypeOK
  <2>2. OnGitLab(t) => attempt[t] = 0
    BY <1>1 DEF IInv, Approved
  <2>3. approvals[t] <= attempt[t] + (IF pc[t] = "approve" THEN 0 ELSE 1)
    BY <1>1 DEF IInv, Approved
  <2>4. approvals[t] <= IF OnGitLab(t) THEN 1 ELSE MaxRetries + 1
    <3>1. CASE OnGitLab(t) BY <2>1, <2>2, <2>3, <3>1
    <3>2. CASE ~ OnGitLab(t) BY <2>1, <2>3, <3>2
    <3> QED BY <3>1, <3>2
  <2> QED BY <2>3, <2>4
<1> QED BY <1>1, Invariant, PTL
-------------------------------------------------------------------------------
(* Counting *)

Recorded == {"failed", "reviewed", "approved"}
PastLookup == {"llm", "store", "post", "save", "record", "failed", "reviewed"}
At(S) == {t \in Tasks : pc[t] \in S}

\* When one task moves, the number of tasks in S grows by one if it enters S
\* and does not fall if it does not leave S.
LEMMA MoveCounts ==
    ASSUME TypeOK, NEW t \in Tasks, NEW e, NEW S, Goto(t, e), pc[t] \in S => e \in S
    PROVE  /\ Cardinality(At(S)) \in Nat
           /\ Cardinality(At(S))' = Cardinality(At(S)) +
                 (IF e \in S /\ pc[t] \notin S THEN 1 ELSE 0)
<1>1. pc' = [pc EXCEPT ![t] = e] /\ pc \in [Tasks -> {"idle", "lost", "past"} \cup Active \cup Ends]
  BY DEF Goto, TypeOK
<1>2. IsFiniteSet(At(S))
  BY FS_Subset DEF At
<1>3. Cardinality(At(S)) \in Nat
  BY <1>2, FS_CardinalityType
<1>4. CASE e \in S /\ pc[t] \notin S
  <2>1. At(S)' = At(S) \cup {t} /\ t \notin At(S)
    BY <1>1, <1>4 DEF At
  <2> QED BY <1>2, <1>3, <1>4, <2>1, FS_AddElement
<1>5. CASE ~ (e \in S /\ pc[t] \notin S)
  <2>1. At(S)' = At(S)
    BY <1>1, <1>5 DEF At
  <2> QED BY <1>3, <1>5, <2>1
<1> QED BY <1>3, <1>4, <1>5

\* What a step of a task does to its position and to the counters.
LEMMA TaskCounts ==
    ASSUME IInv, NEW t \in Tasks, Task(t)
    PROVE  \E e : /\ Goto(t, e)
                  /\ pc[t] \notin Recorded
                  /\ pc[t] \in PastLookup => e \in PastLookup
                  /\ \/ e \in Recorded /\ Count(e)
                     \/ e \notin Recorded /\ counters' = counters
                     \/ /\ pc[t] = "lookup" /\ e \in {"llm", "post"}
                        /\ \E c \in {"hits", "misses"} : Count(c)
<1> DEFINE Goal(e) == /\ Goto(t, e)
                      /\ pc[t] \notin Recorded
                      /\ pc[t] \in PastLookup => e \in PastLookup
                      /\ \/ e \in Recorded /\ Count(e)
                         \/ e \notin Recorded /\ counters' = counters
                         \/ /\ pc[t] = "lookup" /\ e \in {"llm", "post"}
                            /\ \E c \in {"hits", "misses"} : Count(c)
<1> SUFFICES \E e : Goal(e)
  OBVIOUS
<1>1. CASE BatchTimeout(t)
  <2>1. Goal("clone")
    BY <1>1 DEF BatchTimeout, Recorded, PastLookup
  <2> QED BY <2>1
<1>2. CASE CloneFails(t) \/ LlmFails(t) \/ PostFails(t)
  <2>1. Goal("failed")
    BY <1>2 DEF CloneFails, LlmFails, PostFails, Fail, Recorded, PastLookup
  <2> QED BY <2>1
<1>3. CASE CloneAndDiff(t)
  <2>1. \A d : AfterDiff(d) \in {"skipped", "llm", "approve", "lookup"}
    BY DEF AfterDiff
  <2>2. Goal(AfterDiff(DiffOf[PrOf[t]][version[PrOf[t]]]))
    BY <1>3, <2>1 DEF CloneAndDiff, Recorded, PastLookup
  <2> QED BY <2>2
<1>4. CASE Approve(t)
  <2>1. PICK shown, ok, transient \in BOOLEAN : ApproveAttempt(t, shown, ok, transient)
    BY <1>4 DEF Approve
  <2>2. \/ Goto(t, "approved") /\ Count("approved")
        \/ UNCHANGED <<pc, counters>>
    BY <2>1 DEF ApproveAttempt
  <2>3. pc[t] = "approve"
    BY <2>1 DEF ApproveAttempt
  <2>4. UNCHANGED pc => Goto(t, "approve")
    BY <2>3 DEF Goto, IInv, TypeOK
  <2>5. Goal("approved") \/ Goal("approve")
    BY <2>2, <2>3, <2>4 DEF Recorded, PastLookup
  <2> QED BY <2>5
<1>5. CASE CacheHit(t)
  <2>1. Goal("post")
    BY <1>5 DEF CacheHit, Recorded, PastLookup
  <2> QED BY <2>1
<1>6. CASE CacheMiss(t) \/ LookupFails(t)
  <2>1. Goal("llm")
    BY <1>6 DEF CacheMiss, LookupFails, Recorded, PastLookup
  <2> QED BY <2>1
<1>7. CASE LlmAnswers(t) \/ StoreInCache(t) \/ PostPiece(t) \/ SaveReview(t)
  <2>1. PICK e \in {"store", "post", "save", "record"} : Goto(t, e)
    BY <1>7 DEF LlmAnswers, StoreInCache, PostPiece, SaveReview
  <2>2. Goal(e)
    BY <1>7, <2>1 DEF LlmAnswers, StoreInCache, PostPiece, SaveReview, Recorded, PastLookup
  <2> QED BY <2>2
<1>8. CASE RecordReview(t)
  <2>1. Goal("reviewed")
    BY <1>8 DEF RecordReview, Recorded, PastLookup
  <2> QED BY <2>1
<1> QED BY <1>1, <1>2, <1>3, <1>4, <1>5, <1>6, <1>7, <1>8 DEF Task

Counted ==
    /\ \A c \in Recorded : counters[c] = Cardinality(At({c}))
    /\ counters["hits"] + counters["misses"] <= Cardinality(At(PastLookup))

LEMMA CountedIsEveryEndCounted == Counted <=> EveryEndCounted
<1>1. \A c : At({c}) = {t \in Tasks : pc[t] = c}
  BY DEF At
<1> QED BY <1>1 DEF Counted, EveryEndCounted, Recorded, PastLookup, At

LEMMA InitCounted == Init => Counted
<1> SUFFICES ASSUME Init PROVE Counted
  OBVIOUS
<1>1. \A c \in Counters : counters[c] = 0
  BY DEF Init, Zero
<1>2. \A c \in Recorded : At({c}) = {}
  BY DEF Init, At, Recorded
<1>3. At(PastLookup) = {}
  BY DEF Init, At, PastLookup
<1>4. \A c \in Recorded : Cardinality(At({c})) = 0
  BY <1>2, FS_EmptySet
<1>5. Cardinality(At(PastLookup)) = 0
  BY <1>3, FS_EmptySet
<1>6. Recorded \cup {"hits", "misses"} \subseteq Counters
  BY DEF Recorded, Counters
<1> QED BY <1>1, <1>4, <1>5, <1>6 DEF Counted

LEMMA NextCounted ==
    ASSUME IInv, Counted, [Next]_vars
    PROVE  Counted'
<1>t. TypeOK /\ counters \in [Counters -> Nat]
  BY DEF IInv, TypeOK
<1>1. ASSUME UNCHANGED <<pc, counters>>
      PROVE  Counted'
  BY <1>1 DEF Counted, At
<1>2. ASSUME NEW t \in Tasks, NEW e, Goto(t, e),
             pc[t] \notin Recorded,
             pc[t] \in PastLookup => e \in PastLookup,
             \/ e \in Recorded /\ Count(e)
             \/ e \notin Recorded /\ counters' = counters
             \/ /\ pc[t] = "lookup" /\ e \in {"llm", "post"}
                /\ \E c \in {"hits", "misses"} : Count(c)
      PROVE  Counted'
  <2>1. ASSUME NEW c \in Recorded
        PROVE  /\ Cardinality(At({c})) \in Nat
               /\ Cardinality(At({c}))' = Cardinality(At({c})) + (IF e = c THEN 1 ELSE 0)
    <3>1. pc[t] \in {c} => e \in {c}
      BY <1>2
    <3>2. e \in {c} /\ pc[t] \notin {c} <=> e = c
      BY <1>2
    <3> QED BY <1>t, <1>2, <3>1, <3>2, MoveCounts
  <2>2. ASSUME NEW c \in Recorded
        PROVE  counters'[c] = Cardinality(At({c}))'
    <3>1. c \in Counters /\ c \notin {"hits", "misses"} /\ counters[c] \in Nat
      BY <1>t DEF Recorded, Counters
    <3>2. counters'[c] = counters[c] + (IF e = c THEN 1 ELSE 0)
      BY <1>t, <1>2, <3>1 DEF Count, Recorded
    <3> QED BY <2>1, <3>2 DEF Counted
  <2>3. /\ Cardinality(At(PastLookup)) \in Nat
        /\ Cardinality(At(PastLookup))' = Cardinality(At(PastLookup)) +
              (IF e \in PastLookup /\ pc[t] \notin PastLookup THEN 1 ELSE 0)
    BY <1>t, <1>2, MoveCounts
  <2>4. counters'["hits"] + counters'["misses"] <= Cardinality(At(PastLookup))'
    <3>1. /\ "hits" \in Counters /\ "misses" \in Counters
          /\ counters["hits"] \in Nat /\ counters["misses"] \in Nat
      BY <1>t DEF Counters
    <3>2. CASE /\ counters'["hits"] = counters["hits"]
               /\ counters'["misses"] = counters["misses"]
      BY <2>3, <3>1, <3>2 DEF Counted
    <3>3. CASE /\ pc[t] = "lookup" /\ e \in {"llm", "post"}
               /\ counters'["hits"] + counters'["misses"]
                     = counters["hits"] + counters["misses"] + 1
      BY <2>3, <3>1, <3>3 DEF Counted, PastLookup
    <3>4. CASE e \in Recorded /\ Count(e)
      BY <1>t, <3>1, <3>2, <3>4 DEF Count, Recorded
    <3>5. CASE /\ pc[t] = "lookup" /\ e \in {"llm", "post"}
               /\ \E c \in {"hits", "misses"} : Count(c)
      BY <1>t, <3>1, <3>3, <3>5 DEF Count
    <3> QED BY <1>2, <3>2, <3>4, <3>5
  <2> QED BY <2>2, <2>4 DEF Counted
<1>3. CASE UNCHANGED vars
  BY <1>1, <1>3 DEF vars
<1>4. ASSUME NEW p \in Prs, Push(p) PROVE Counted'
  BY <1>1, <1>4 DEF Push
<1>5. ASSUME NEW t \in Tasks, Deliver(t) PROVE Counted'
  <2>1. PICK e \in {"batch", "clone"} : Goto(t, e)
    BY <1>5 DEF Deliver
  <2>2. pc[t] = "idle" /\ counters' = counters
    BY <1>5 DEF Deliver
  <2>3. /\ e \notin Recorded /\ pc[t] \notin Recorded
        /\ pc[t] \notin PastLookup
    BY <2>2 DEF Recorded, PastLookup
  <2> QED BY <1>2, <2>1, <2>2, <2>3
<1>6. ASSUME NEW t \in Tasks, Task(t) PROVE Counted'
  BY <1>2, <1>6, TaskCounts
<1>7. ASSUME NEW d \in Diffs, Expire(d) PROVE Counted'
  BY <1>1, <1>7 DEF Expire
<1>8. CASE Crash
  <2>1. \A c \in Counters : counters'[c] = 0
    BY <1>8 DEF Crash, Zero
  <2>2. \A t \in Tasks : pc'[t] \in {"idle", "lost", "past"}
    BY <1>8, <1>t DEF Crash, TypeOK
  <2>3. \A c \in Recorded : At({c})' = {}
    BY <2>2 DEF At, Recorded
  <2>4. At(PastLookup)' = {}
    BY <2>2 DEF At, PastLookup
  <2>5. \A c \in Recorded : Cardinality(At({c}))' = 0
    BY <2>3, FS_EmptySet
  <2>6. Cardinality(At(PastLookup))' = 0
    BY <2>4, FS_EmptySet
  <2>7. Recorded \cup {"hits", "misses"} \subseteq Counters
    BY DEF Recorded, Counters
  <2> QED BY <2>1, <2>5, <2>6, <2>7 DEF Counted
<1> QED BY <1>3, <1>4, <1>5, <1>6, <1>7, <1>8 DEF Next

\* failed, reviewed and approved are exactly the numbers of tasks that ended
\* so in this life of the process; a lookup counts at most once.
THEOREM TaskEveryEndCounted == Spec => []EveryEndCounted
<1>1. IInv /\ Counted /\ [Next]_vars => (IInv /\ Counted)'
  BY NextInv, NextCounted
<1>2. Init => IInv /\ Counted
  BY InitInv, InitCounted
<1> QED BY <1>1, <1>2, CountedIsEveryEndCounted, PTL DEF Spec
===============================================================================
