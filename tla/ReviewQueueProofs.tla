--------------------------- MODULE ReviewQueueProofs ---------------------------
(***************************************************************************)
(* Proofs that the invariants of ReviewQueue hold for every set of jobs    *)
(* and repositories, every limit, capacity and choice of caller ids, and   *)
(* any number of crashes.                                                  *)
(***************************************************************************)
EXTENDS ReviewQueue, TLAPS, FiniteSetTheorems, SequenceTheorems

\* What Append, Head and Tail do to the elements of a sequence.
LEMMA RangeAppend ==
    ASSUME NEW S, NEW s \in Seq(S), NEW e \in S
    PROVE  /\ Append(s, e) \in Seq(S)
           /\ Len(Append(s, e)) = Len(s) + 1
           /\ Range(Append(s, e)) = Range(s) \cup {e}
           /\ IsInjective(s) /\ e \notin Range(s) => IsInjective(Append(s, e))
<1>1. /\ Append(s, e) \in Seq(S)
      /\ Len(Append(s, e)) = Len(s) + 1
      /\ DOMAIN Append(s, e) = 1 .. Len(s) + 1
      /\ \A i \in 1 .. Len(s) : Append(s, e)[i] = s[i]
      /\ Append(s, e)[Len(s) + 1] = e
      /\ Len(s) \in Nat
  OBVIOUS
<1>2. DOMAIN s = 1 .. Len(s)
  OBVIOUS
<1>3. Range(Append(s, e)) = Range(s) \cup {e}
  BY <1>1, <1>2 DEF Range
<1>4. ASSUME IsInjective(s), e \notin Range(s)
      PROVE  IsInjective(Append(s, e))
  BY <1>1, <1>2, <1>4 DEF IsInjective, Range
<1> QED BY <1>1, <1>3, <1>4

LEMMA RangeHeadTail ==
    ASSUME NEW S, NEW s \in Seq(S), s # << >>
    PROVE  /\ Head(s) \in S
           /\ Tail(s) \in Seq(S)
           /\ Len(Tail(s)) = Len(s) - 1
           /\ Len(s) \in Nat \ {0}
           /\ Head(s) \in Range(s)
           /\ Range(s) = {Head(s)} \cup Range(Tail(s))
           /\ IsInjective(s) => /\ IsInjective(Tail(s))
                                /\ Head(s) \notin Range(Tail(s))
<1>1. /\ Head(s) \in S /\ Head(s) = s[1]
      /\ Tail(s) \in Seq(S)
      /\ Len(s) \in Nat \ {0}
      /\ Len(Tail(s)) = Len(s) - 1
      /\ DOMAIN Tail(s) = 1 .. Len(s) - 1
      /\ DOMAIN s = 1 .. Len(s)
      /\ \A i \in 1 .. Len(s) - 1 : Tail(s)[i] = s[i + 1]
  OBVIOUS
<1>2. Range(s) = {Head(s)} \cup Range(Tail(s))
  <2>1. ASSUME NEW i \in 1 .. Len(s)
        PROVE  s[i] \in {Head(s)} \cup Range(Tail(s))
    <3>1. CASE i = 1 BY <1>1, <3>1
    <3>2. CASE i # 1
      <4>1. i - 1 \in 1 .. Len(s) - 1 /\ Tail(s)[i - 1] = s[i] BY <1>1, <3>2
      <4> QED BY <4>1, <1>1 DEF Range
    <3> QED BY <3>1, <3>2
  <2>2. Range(Tail(s)) \subseteq Range(s)
    <3>1. ASSUME NEW i \in 1 .. Len(s) - 1
          PROVE  Tail(s)[i] \in Range(s)
      BY <1>1 DEF Range
    <3> QED BY <3>1, <1>1 DEF Range
  <2> QED BY <1>1, <2>1, <2>2 DEF Range
<1>3. ASSUME IsInjective(s)
      PROVE  IsInjective(Tail(s)) /\ Head(s) \notin Range(Tail(s))
  BY <1>1, <1>3 DEF IsInjective, Range
<1> QED BY <1>1, <1>2, <1>3 DEF Range

LEMMA RangeEmpty ==
    /\ Range(<< >>) = {}
    /\ IsInjective(<< >>)
    /\ Len(<< >>) = 0
    /\ \A S : << >> \in Seq(S)
BY DEF Range, IsInjective

LEMMA RangeSeq ==
    ASSUME NEW S, NEW s \in Seq(S)
    PROVE  Range(s) \subseteq S
BY DEF Range

USE QueueAssumption
-------------------------------------------------------------------------------
(* The table *)

\* Inserting appends one row for the job and leaves the others alone.
LEMMA EnqueueAppends ==
    ASSUME NEW t \in Seq(Row), NEW w \in Works
    PROVE  /\ EnqueueJob(t, w) \in Seq(Row)
           /\ Len(EnqueueJob(t, w)) = Len(t) + 1
           /\ \A i \in 1 .. Len(t) : EnqueueJob(t, w)[i] = t[i]
           /\ EnqueueJob(t, w)[Len(t) + 1].work = w
<1> DEFINE new == [work |-> w, status |-> "pending"]
<1>1. new \in Row /\ new.work = w
  BY DEF Row, Statuses
<1> HIDE DEF new
<1>2. /\ Append(t, new) \in Seq(Row)
      /\ Len(Append(t, new)) = Len(t) + 1
      /\ \A i \in 1 .. Len(t) : Append(t, new)[i] = t[i]
      /\ Append(t, new)[Len(t) + 1] = new
  BY <1>1
<1>3. EnqueueJob(t, w) = Append(t, new)
  BY DEF EnqueueJob, new
<1> QED BY <1>1, <1>2, <1>3

\* Updating a status, of a row or of no row, keeps every row's job.
LEMMA UpdateKeepsWork ==
    ASSUME NEW t \in Seq(Row), NEW id \in Nat
    PROVE  LET u == UpdateJobStatus(t, id, "running")
           IN  /\ u \in Seq(Row)
               /\ Len(u) = Len(t)
               /\ \A i \in 1 .. Len(t) : u[i].work = t[i].work
<1>1. CASE id \in 1 .. Len(t)
  <2> DEFINE r == [work |-> t[id].work, status |-> "running"]
             u == [t EXCEPT ![id] = r]
  <2>1. t[id] \in Row BY <1>1
  <2>2. r \in Row BY <2>1 DEF Row, Statuses
  <2>3. UpdateJobStatus(t, id, "running") = u BY <1>1 DEF UpdateJobStatus
  <2>4. /\ u \in Seq(Row) /\ Len(u) = Len(t)
        /\ \A i \in 1 .. Len(t) : u[i] = IF i = id THEN r ELSE t[i]
    <3> HIDE DEF r
    <3> QED BY <1>1, <2>2, ExceptSeq
  <2>5. r.work = t[id].work
    OBVIOUS
  <2> HIDE DEF r, u
  <2> QED BY <2>3, <2>4, <2>5
<1>2. CASE id \notin 1 .. Len(t)
  BY <1>2 DEF UpdateJobStatus
<1> QED BY <1>1, <1>2

\* A listing of the pending rows: ids of rows, each once.
LEMMA PendingListing ==
    ASSUME NEW t \in Seq(Row), NEW ids \in PendingJobs(t)
    PROVE  /\ ids \in Seq(1 .. Len(t))
           /\ Len(ids) \in Nat
           /\ \A i \in 1 .. Len(ids) : ids[i] \in 1 .. Len(t)
           /\ \A i, j \in 1 .. Len(ids) : ids[i] = ids[j] => i = j
<1> DEFINE n == Cardinality(PendingIds(t))
<1>1. IsFiniteSet(1 .. Len(t)) /\ PendingIds(t) \subseteq 1 .. Len(t)
  BY FS_Interval DEF PendingIds
<1>2. n \in Nat
  BY <1>1, FS_Subset, FS_CardinalityType
<1>3. /\ ids \in [1 .. n -> PendingIds(t)]
      /\ \A i, j \in 1 .. n : i < j => ids[i] < ids[j]
  BY DEF PendingJobs
<1> HIDE DEF n
<1>4. ids \in Seq(1 .. Len(t)) /\ Len(ids) = n
  BY <1>1, <1>2, <1>3
<1>5. \A i \in 1 .. n : ids[i] \in 1 .. Len(t)
  BY <1>1, <1>3
<1>6. ASSUME NEW i \in 1 .. n, NEW j \in 1 .. n, ids[i] = ids[j]
      PROVE  i = j
  <2>1. ids[i] \in Nat BY <1>5
  <2>2. ~(i < j) BY <2>1, <1>3, <1>6
  <2>3. ~(j < i) BY <2>1, <1>3, <1>6
  <2> QED BY <1>2, <2>2, <2>3
<1> QED BY <1>2, <1>4, <1>5, <1>6
-------------------------------------------------------------------------------
(* Types *)

\* The empty queue.
LEMMA NoChannelType ==
    /\ << >> \in Seq(Row)
    /\ << >> \in Seq(Works)
    /\ Len(<< >>) <= Capacity
BY RangeEmpty

LEMMA TypeInit == Init => TypeOK
<1> SUFFICES ASSUME Init PROVE TypeOK
  OBVIOUS
<1>1. << >> \in Seq(Row) 
  BY NoChannelType
<1>2. pid \in [Works -> Nat]
  BY DEF Init
<1> QED
  BY <1>1, <1>2, NoChannelType
  DEF Init, TypeOK, SubStates, DispatcherStates, WorkerStates

LEMMA TypeStep == TypeOK /\ [Next]_vars => TypeOK'
<1> SUFFICES ASSUME TypeOK, [Next]_vars PROVE TypeOK'
  OBVIOUS
<1> USE DEF TypeOK, memory
<1>1. ASSUME NEW w \in Works, Enqueue(w) PROVE TypeOK'
  BY <1>1, EnqueueAppends DEF Enqueue, SubStates
<1>2. ASSUME NEW w \in Works, EnqueueFails(w) PROVE TypeOK'
  BY <1>2 DEF EnqueueFails, SubStates
<1>3. ASSUME NEW w \in Works, Send(w) PROVE TypeOK'
  BY <1>3, RangeAppend DEF Send, SubStates
<1>4. ASSUME NEW w \in Works, SendFails(w) \/ DropSubmit(w) PROVE TypeOK'
  BY <1>4 DEF SendFails, DropSubmit, SubStates
<1>5. ASSUME DropQueue \/ RequestShutdown PROVE TypeOK'
  BY <1>5 DEF DropQueue, RequestShutdown
<1>6. ASSUME Dispatcher PROVE TypeOK'
  <2> USE DEF dispatcherOnly, DispatcherStates
  <2>1. CASE StopLoop \/ ReceiveClosed
    BY <2>1, NoChannelType DEF StopLoop, ReceiveClosed, Break
  <2>2. CASE StayInLoop \/ IdleInShutdown \/ StartReceive \/ ReceiveTimeout
    BY <2>2 DEF StayInLoop, IdleInShutdown, StartReceive, ReceiveTimeout
  <2>3. CASE PopResumed
    BY <2>3, RangeHeadTail DEF PopResumed
  <2>4. CASE Receive
    BY <2>4, RangeHeadTail DEF Receive
  <2>5. CASE PassLimit
    BY <2>5 DEF PassLimit
  <2>6. CASE Requeue
    BY <2>6, RangeAppend DEF Requeue
  <2>7. CASE MarkActive
    BY <2>7 DEF MarkActive, WorkerStates
  <2> QED BY <1>6, <2>1, <2>2, <2>3, <2>4, <2>5, <2>6, <2>7 DEF Dispatcher
<1>7. ASSUME NEW w \in Works, Worker(w) PROVE TypeOK'
  <2> USE DEF workerOnly, WorkerStates
  <2>1. CASE WorkerStart(w) BY <2>1, UpdateKeepsWork DEF WorkerStart
  <2>2. CASE WorkerFinish(w) BY <2>2 DEF WorkerFinish
  <2>3. CASE WorkerRelease(w) BY <2>3 DEF WorkerRelease
  <2> QED BY <1>7, <2>1, <2>2, <2>3 DEF Worker
<1>8. ASSUME Crash PROVE TypeOK'
  <2>1. \A w \in Works : sub'[w] \in SubStates
    BY <1>8, Zenon DEF Crash, SubStates
  <2>2. sub' \in [Works -> SubStates]
    BY <1>8, <2>1, Zenon DEF Crash
  <2>3. /\ pc' = "down" /\ channel' = << >> /\ resumed' = << >> /\ hand' = NoJob
        /\ worker' = [w \in Works |-> "none"] /\ counts' = [r \in Repos |-> 0]
        /\ closed' = FALSE /\ shutdown' = FALSE
        /\ UNCHANGED <<rows, pid, ran, lives>>
    BY <1>8 DEF Crash
  <2> QED BY <2>2, <2>3, NoChannelType DEF DispatcherStates, WorkerStates
<1>9. ASSUME Start PROVE TypeOK'
  <2>1. PICK ids \in PendingJobs(rows) :
          /\ resumed' = [i \in 1 .. Len(ids) |-> rows[ids[i]].work]
          /\ pid' = [w \in Works |->
                        IF \E i \in 1 .. Len(ids) : rows[ids[i]].work = w
                        THEN CHOOSE id \in Range(ids) : rows[id].work = w
                        ELSE pid[w]]
    BY <1>9 DEF Start
  <2>2. /\ ids \in Seq(1 .. Len(rows)) /\ Len(ids) \in Nat
        /\ \A i \in 1 .. Len(ids) : ids[i] \in 1 .. Len(rows)
    BY PendingListing
  <2>3. \A i \in 1 .. Len(ids) : rows[ids[i]].work \in Works
    <3>1. \A k \in 1 .. Len(rows) : rows[k] \in Row
      OBVIOUS
    <3>2. \A r \in Row : r.work \in Works
      BY DEF Row
    <3> QED BY <2>2, <3>1, <3>2
  <2>4. resumed' \in Seq(Works)
    BY <2>1, <2>2, <2>3
  <2>5. Range(ids) \subseteq Nat /\ \A i \in 1 .. Len(ids) : ids[i] \in Range(ids)
    BY <2>2 DEF Range
  <2>6. pid' \in [Works -> Nat]
    <3>1. ASSUME NEW w \in Works,
                 \E i \in 1 .. Len(ids) : rows[ids[i]].work = w
          PROVE  (CHOOSE id \in Range(ids) : rows[id].work = w) \in Nat
      <4>1. \E id \in Range(ids) : rows[id].work = w
        BY <2>5, <3>1
      <4> QED BY <2>5, <4>1
    <3>2. ASSUME NEW w \in Works
          PROVE  (IF \E i \in 1 .. Len(ids) : rows[ids[i]].work = w
                  THEN CHOOSE id \in Range(ids) : rows[id].work = w
                  ELSE pid[w]) \in Nat
      BY <3>1
    <3> QED BY <2>1, <3>2
  <2>7. /\ pc = "down" /\ pc' = "top" /\ lives' = lives + 1
        /\ UNCHANGED <<rows, sub, channel, closed, shutdown, hand, worker,
                       counts, ran>>
    BY <1>9 DEF Start
  <2> QED BY <2>4, <2>6, <2>7 DEF DispatcherStates
<1>10. ASSUME UNCHANGED vars PROVE TypeOK'
  BY <1>10 DEF vars
<1> QED
  BY <1>1, <1>2, <1>3, <1>4, <1>5, <1>6, <1>7, <1>8, <1>9, <1>10 DEF Next

\* Every variable of the queue keeps its type; the channel never exceeds its
\* capacity and the dispatcher holds a job exactly between taking it and
\* running or re-queueing it.
THEOREM QueueTypes == Spec => []TypeOK
<1> QED BY TypeInit, TypeStep, PTL DEF Spec
-------------------------------------------------------------------------------
(* Every job in one place *)

LEMMA PlacesInit == Init => Places
<1> SUFFICES ASSUME Init PROVE Places
  OBVIOUS
<1>1. Range(<< >>) = {} /\ IsInjective(<< >>) /\ 1 .. Len(<< >>) = {}
  BY RangeEmpty
<1> QED BY <1>1 DEF Init, Places, OnePlace, Held, Queued

LEMMA PlacesStep == TypeOK /\ Places /\ [Next]_vars => Places'
<1> SUFFICES ASSUME TypeOK, Places, [Next]_vars PROVE Places'
  OBVIOUS
<1>t. /\ rows \in Seq(Row) /\ sub \in [Works -> SubStates]
      /\ channel \in Seq(Works) /\ resumed \in Seq(Works)
      /\ hand \in Works \cup {NoJob} /\ worker \in [Works -> WorkerStates]
      /\ (hand # NoJob) <=> (pc \in {"check", "mark"})
  BY DEF TypeOK
<1>r. \A i \in 1 .. Len(rows) : rows[i].work \in Works
  <2>1. \A i \in 1 .. Len(rows) : rows[i] \in Row
    BY <1>t
  <2>2. \A q \in Row : q.work \in Works
    BY DEF Row
  <2> QED BY <2>1, <2>2
<1>s. Range(channel) \subseteq Works /\ Range(resumed) \subseteq Works
  BY <1>t, RangeSeq
<1>e. Range(<< >>) = {} /\ IsInjective(<< >>)
  BY RangeEmpty
<1> USE DEF Places, OnePlace, Held, Queued, memory
<1>1. ASSUME NEW w \in Works, Enqueue(w) PROVE Places'
  <2>1. /\ Len(rows') = Len(rows) + 1
        /\ \A i \in 1 .. Len(rows) : rows'[i] = rows[i]
        /\ rows'[Len(rows) + 1].work = w
        /\ Len(rows) \in Nat
    <3>1. /\ Len(EnqueueJob(rows, w)) = Len(rows) + 1
          /\ \A i \in 1 .. Len(rows) : EnqueueJob(rows, w)[i] = rows[i]
          /\ EnqueueJob(rows, w)[Len(rows) + 1].work = w
      BY <1>t, EnqueueAppends
    <3>2. rows' = EnqueueJob(rows, w)
      BY <1>1 DEF Enqueue
    <3>3. Len(rows) \in Nat
      BY <1>t
    <3> QED BY <3>1, <3>2, <3>3
  <2>2. \A i \in 1 .. Len(rows) : rows[i].work # w
    BY <1>1, <1>r DEF Enqueue
  <2>3. \A i \in 1 .. Len(rows') : \/ i \in 1 .. Len(rows) /\ rows'[i].work = rows[i].work
                                   \/ i = Len(rows) + 1 /\ rows'[i].work = w
    BY <2>1
  <2>4. \A i, j \in 1 .. Len(rows') : rows'[i].work = rows'[j].work => i = j
    BY <2>2, <2>3
  <2>5. \A i \in 1 .. Len(rows') : sub'[rows'[i].work] # "idle"
    BY <1>1, <1>t, <1>r, <2>3 DEF Enqueue
  <2>6. /\ UNCHANGED memory /\ Alive
        /\ \A v \in Works : sub'[v] = "sending" => sub[v] \in {"idle", "sending"}
        /\ \A v \in Works : sub'[v] = "idle" => sub[v] = "idle"
    BY <1>1, <1>t DEF Enqueue
  <2> QED BY <2>4, <2>5, <2>6 DEF Alive
<1>2. ASSUME NEW w \in Works, EnqueueFails(w) \/ SendFails(w) \/ DropSubmit(w)
      PROVE  Places'
  <2>1. /\ UNCHANGED memory /\ UNCHANGED rows /\ Alive
        /\ \A v \in Works : sub'[v] \in {sub[v], "err", "dropped"}
    BY <1>2, <1>t DEF EnqueueFails, SendFails, DropSubmit, Alive
  <2>2. \A i \in 1 .. Len(rows) : sub'[rows[i].work] # "idle"
    BY <1>r, <2>1
  <2> QED BY <2>1, <2>2 DEF Alive
<1>3. ASSUME NEW w \in Works, Send(w) PROVE Places'
  <2>1. ~Held(w) /\ w # NoJob
    BY <1>3 DEF Send
  <2>2. Range(channel') = Range(channel) \cup {w} /\ IsInjective(channel')
    BY <1>3, <1>t, <2>1, RangeAppend DEF Send
  <2>3. /\ UNCHANGED <<rows, resumed, hand, worker, pc>> /\ pc # "down"
        /\ sub'[w] = "ok"
        /\ \A v \in Works : v # w => sub'[v] = sub[v]
    BY <1>3, <1>t DEF Send
  <2>4. \A i \in 1 .. Len(rows) : sub'[rows[i].work] # "idle"
    BY <1>r, <2>3
  <2> QED BY <2>1, <2>2, <2>3, <2>4
<1>4. ASSUME DropQueue \/ RequestShutdown PROVE Places'
  BY <1>4 DEF DropQueue, RequestShutdown
<1>5. ASSUME Dispatcher PROVE Places'
  <2>0. UNCHANGED <<rows, sub>>
    BY <1>5 DEF Dispatcher, dispatcherOnly, StopLoop, StayInLoop, PopResumed,
       IdleInShutdown, StartReceive, Receive, ReceiveClosed, ReceiveTimeout,
       PassLimit, Requeue, MarkActive, Break
  <2> USE DEF dispatcherOnly
  <2>1. CASE StopLoop \/ ReceiveClosed
    BY <2>1, <1>e DEF StopLoop, ReceiveClosed, Break
  <2>2. CASE StayInLoop \/ IdleInShutdown \/ StartReceive \/ ReceiveTimeout \/ PassLimit
    BY <2>2 DEF StayInLoop, IdleInShutdown, StartReceive, ReceiveTimeout, PassLimit
  <2>3. CASE PopResumed
    <3>1. /\ Range(resumed) = {hand'} \cup Range(resumed')
          /\ hand' \in Range(resumed)
          /\ IsInjective(resumed') /\ hand' \notin Range(resumed')
      BY <2>3, <1>t, RangeHeadTail DEF PopResumed
    <3>2. UNCHANGED <<channel, worker>> /\ pc' = "check"
      BY <2>3 DEF PopResumed
    <3> QED BY <2>0, <3>1, <3>2, <1>s
  <2>4. CASE Receive
    <3>1. /\ Range(channel) = {hand'} \cup Range(channel')
          /\ hand' \in Range(channel)
          /\ IsInjective(channel') /\ hand' \notin Range(channel')
      BY <2>4, <1>t, RangeHeadTail DEF Receive
    <3>2. UNCHANGED <<resumed, worker>> /\ pc' = "check"
      BY <2>4 DEF Receive
    <3> QED BY <2>0, <3>1, <3>2, <1>s
  <2>5. CASE Requeue
    <3>1. hand \in Works /\ hand \notin Range(resumed)
      BY <2>5, <1>t DEF Requeue
    <3>2. Range(resumed') = Range(resumed) \cup {hand} /\ IsInjective(resumed')
      BY <2>5, <1>t, <3>1, RangeAppend DEF Requeue
    <3>3. UNCHANGED <<channel, worker>> /\ pc' = "top" /\ hand' = NoJob
      BY <2>5 DEF Requeue
    <3> QED BY <2>0, <3>1, <3>2, <3>3, <1>s
  <2>6. CASE MarkActive
    <3>1. hand \in Works
      BY <2>6, <1>t DEF MarkActive
    <3>2. /\ UNCHANGED <<channel, resumed>> /\ pc' = "top" /\ hand' = NoJob
          /\ worker'[hand] = "spawned"
          /\ \A v \in Works : v # hand => worker'[v] = worker[v]
      BY <2>6, <1>t, <3>1 DEF MarkActive
    <3> QED BY <2>0, <3>1, <3>2, <1>s
  <2> QED BY <1>5, <2>1, <2>2, <2>3, <2>4, <2>5, <2>6 DEF Dispatcher
<1>6. ASSUME NEW w \in Works, Worker(w) PROVE Places'
  <2>1. /\ UNCHANGED <<sub, channel, resumed, hand, pc>>
        /\ worker[w] # "none"
        /\ worker'[w] # "none"
        /\ \A v \in Works : v # w => worker'[v] = worker[v]
    BY <1>6, <1>t DEF Worker, WorkerStart, WorkerFinish, WorkerRelease, workerOnly
  <2>2. /\ Len(rows') = Len(rows)
        /\ \A i \in 1 .. Len(rows) : rows'[i].work = rows[i].work
    <3>1. pid[w] \in Nat
      BY DEF TypeOK
    <3> QED
      BY <1>6, <1>t, <3>1, UpdateKeepsWork
      DEF Worker, WorkerStart, WorkerFinish, WorkerRelease
  <2> QED BY <2>1, <2>2
<1>7. ASSUME Crash PROVE Places'
  <2>1. /\ channel' = << >> /\ resumed' = << >> /\ hand' = NoJob /\ UNCHANGED rows
        /\ worker' = [w \in Works |-> "none"]
    BY <1>7 DEF Crash
  <2>2. \A w \in Works : /\ sub'[w] # "sending"
                         /\ sub'[w] = "idle" => sub[w] = "idle"
    BY <1>7, Zenon DEF Crash
  <2>3. \A i \in 1 .. Len(rows) : sub'[rows[i].work] # "idle"
    BY <2>2, <1>r
  <2> QED BY <2>1, <2>2, <2>3, <1>e
<1>8. ASSUME Start PROVE Places'
  <2>1. PICK ids \in PendingJobs(rows) :
          resumed' = [i \in 1 .. Len(ids) |-> rows[ids[i]].work]
    BY <1>8 DEF Start
  <2>2. /\ Len(ids) \in Nat
        /\ \A i \in 1 .. Len(ids) : ids[i] \in 1 .. Len(rows)
        /\ \A i, j \in 1 .. Len(ids) : ids[i] = ids[j] => i = j
    BY <1>t, PendingListing
  <2>3. IsInjective(resumed')
    BY <2>1, <2>2 DEF IsInjective
  <2>4. \A w \in Range(resumed') : \E k \in 1 .. Len(rows) : rows[k].work = w
    BY <2>1, <2>2 DEF Range
  <2>5. \A w \in Range(resumed') : sub[w] \notin {"idle", "sending"}
    BY <1>8, <2>4, <1>r DEF Start
  <2>6. /\ UNCHANGED <<rows, sub, channel, hand, worker>>
        /\ pc = "down" /\ pc' = "top" /\ channel = << >> /\ hand = NoJob
        /\ \A w \in Works : worker[w] = "none"
    BY <1>8, <1>t DEF Start
  <2>7. NoJob \notin Range(resumed')
    BY <2>4, <1>r
  <2> QED BY <2>3, <2>5, <2>6, <2>7, <1>e
<1>9. ASSUME UNCHANGED vars PROVE Places'
  BY <1>9 DEF vars
<1> QED
  BY <1>1, <1>2, <1>3, <1>4, <1>5, <1>6, <1>7, <1>8, <1>9 DEF Next

\* No job is ever in two places of a process, so none is reviewed twice in one
\* life of the process, whatever ids callers put into their payloads.
THEOREM QueueOnePlace == Spec => []OnePlace
<1>1. Init => TypeOK /\ Places
  BY TypeInit, PlacesInit
<1>2. TypeOK /\ Places /\ [Next]_vars => (TypeOK /\ Places)'
  BY TypeStep, PlacesStep
<1>3. Places => OnePlace
  BY DEF Places
<1> QED BY <1>1, <1>2, <1>3, PTL DEF Spec
-------------------------------------------------------------------------------
(* The concurrency limit *)

\* A finite set without one of its elements has one element less.
LEMMA CardinalityOfRest ==
    ASSUME NEW S, NEW x \in S, IsFiniteSet(S)
    PROVE  Cardinality(S \ {x}) = Cardinality(S) - 1
  BY FS_RemoveElement

LEMMA LiveFinite == \A r \in Repos : IsFiniteSet(LiveOf(r))
BY FS_Subset DEF LiveOf

LEMMA SlottedInit == Init => Slotted
<1> SUFFICES ASSUME Init PROVE Slotted
  OBVIOUS
<1>1. \A r \in Repos : LiveOf(r) = {}
  BY DEF Init, LiveOf, Live
<1>2. \A r \in Repos : Cardinality(LiveOf(r)) = 0
  BY <1>1, FS_EmptySet
<1>3. pc = "top" /\ counts = [r \in Repos |-> 0]
  BY DEF Init
<1> QED BY <1>2, <1>3 DEF Slotted, WithinConcurrencyLimit

LEMMA SlottedStep == TypeOK /\ Places /\ Slotted /\ [Next]_vars => Slotted'
<1> SUFFICES ASSUME TypeOK, Places, Slotted, [Next]_vars PROVE Slotted'
  OBVIOUS
<1>t. /\ worker \in [Works -> WorkerStates] /\ counts \in [Repos -> Nat]
      /\ hand \in Works \cup {NoJob}
      /\ (hand # NoJob) <=> (pc \in {"check", "mark"})
  BY DEF TypeOK
<1>l. \A r \in Repos : counts[r] = Cardinality(LiveOf(r)) /\ counts[r] <= Limit
  BY DEF Slotted, WithinConcurrencyLimit
<1>u. ASSUME UNCHANGED <<worker, counts>>,
             pc' = "mark" => /\ UNCHANGED hand
                             /\ counts[RepoOf[hand]] < Limit
      PROVE  Slotted'
  <2>1. \A r \in Repos : LiveOf(r)' = LiveOf(r)
    BY <1>u DEF LiveOf
  <2> QED BY <1>u, <1>l, <2>1 DEF Slotted, WithinConcurrencyLimit
<1>1. ASSUME NEW w \in Works,
             Enqueue(w) \/ EnqueueFails(w) \/ Send(w) \/ SendFails(w) \/ DropSubmit(w)
      PROVE  Slotted'
  BY <1>1, <1>u DEF Enqueue, EnqueueFails, Send, SendFails, DropSubmit, memory, Slotted
<1>2. ASSUME DropQueue \/ RequestShutdown PROVE Slotted'
  BY <1>2, <1>u DEF DropQueue, RequestShutdown, Slotted
<1>3. ASSUME Dispatcher PROVE Slotted'
  <2>1. CASE PassLimit
    BY <2>1, <1>u DEF PassLimit, CanRun
  <2>2. CASE MarkActive
    <3>0. hand \in Works /\ RepoOf[hand] \in Repos
      BY <2>2, <1>t DEF MarkActive
    <3>r. PICK r \in Repos : r = RepoOf[hand]
      BY <3>0
    <3>1. hand \in Works /\ counts[r] < Limit
      BY <2>2, <3>0, <3>r DEF MarkActive, Slotted
    <3>2. worker[hand] = "none"
      BY <3>1 DEF Places, OnePlace, Queued
    <3>3. /\ pc' = "top"
          /\ counts' = [counts EXCEPT ![r] = counts[r] + 1]
          /\ worker' = [worker EXCEPT ![hand] = "spawned"]
      BY <2>2, <3>r DEF MarkActive
    <3>4. LiveOf(r)' = LiveOf(r) \cup {hand} /\ hand \notin LiveOf(r)
      <4>1. \A v \in Works : worker'[v] = IF v = hand THEN "spawned" ELSE worker[v]
        BY <1>t, <3>1, <3>3
      <4> QED BY <3>1, <3>2, <3>r, <4>1 DEF LiveOf, Live
    <3>5. Cardinality(LiveOf(r)') = Cardinality(LiveOf(r)) + 1
      <4>1. IsFiniteSet(LiveOf(r))
        BY <3>1, LiveFinite
      <4> QED BY <3>4, <4>1, FS_AddElement
    <3>6. \A q \in Repos : q # r => LiveOf(q)' = LiveOf(q)
      BY <1>t, <3>1, <3>3, <3>r DEF LiveOf
    <3>7. ASSUME NEW q \in Repos
          PROVE  counts'[q] = Cardinality(LiveOf(q)') /\ counts'[q] <= Limit
      <4>1. CASE q = r
        <5>1. counts'[r] = counts[r] + 1
          BY <1>t, <3>1, <3>3
        <5>2. counts'[r] = Cardinality(LiveOf(r)')
          BY <1>l, <3>1, <3>5, <5>1
        <5>3. counts[r] + 1 <= Limit
          BY <1>t, <3>1
        <5> QED BY <4>1, <5>1, <5>2, <5>3
      <4>2. CASE q # r
        BY <1>t, <1>l, <3>3, <3>6, <4>2
      <4> QED BY <4>1, <4>2
    <3> QED BY <3>3, <3>7 DEF Slotted, WithinConcurrencyLimit
  <2>3. CASE ~PassLimit /\ ~MarkActive
    BY <1>3, <2>3, <1>u
    DEF Dispatcher, StopLoop, StayInLoop, PopResumed, IdleInShutdown,
        StartReceive, Receive, ReceiveClosed, ReceiveTimeout, Requeue, Break
  <2> QED BY <2>1, <2>2, <2>3
<1>4. ASSUME NEW w \in Works, Worker(w) PROVE Slotted'
  <2> DEFINE r == RepoOf[w]
  <2>1. r \in Repos /\ UNCHANGED <<hand, pc>>
    BY <1>4 DEF Worker, WorkerStart, WorkerFinish, WorkerRelease, workerOnly
  <2>2. CASE WorkerStart(w) \/ WorkerFinish(w)
    <3>1. \A q \in Repos : LiveOf(q)' = LiveOf(q)
      BY <2>2, <1>t DEF WorkerStart, WorkerFinish, LiveOf, Live
    <3>2. UNCHANGED counts
      BY <2>2 DEF WorkerStart, WorkerFinish
    <3> QED BY <1>l, <2>1, <3>1, <3>2 DEF Slotted, WithinConcurrencyLimit
  <2>3. CASE WorkerRelease(w)
    <3>1. /\ worker[w] = "finished"
          /\ worker' = [worker EXCEPT ![w] = "done"]
          /\ counts' = [counts EXCEPT ![r] = IF counts[r] > 0 THEN counts[r] - 1
                                                            ELSE 0]
      BY <2>3 DEF WorkerRelease
    <3>2. LiveOf(r)' = LiveOf(r) \ {w} /\ w \in LiveOf(r)
      BY <1>t, <3>1 DEF LiveOf, Live
    <3>3. /\ Cardinality(LiveOf(r)') = Cardinality(LiveOf(r)) - 1
          /\ Cardinality(LiveOf(r)) > 0
      <4>0. IsFiniteSet(LiveOf(r))
        BY <2>1, LiveFinite
      <4>1. IsFiniteSet(LiveOf(r)')
        BY <3>2, <4>0, FS_RemoveElement
      <4>2. Cardinality(LiveOf(r)') = Cardinality(LiveOf(r)) - 1
        BY <3>2, <4>0, CardinalityOfRest
      <4>3. Cardinality(LiveOf(r)) \in Nat /\ Cardinality(LiveOf(r)') \in Nat
        BY <2>1, <4>1, LiveFinite, FS_CardinalityType
      <4> QED BY <4>2, <4>3
    <3>4. \A q \in Repos : q # r => LiveOf(q)' = LiveOf(q)
      BY <1>t, <3>1 DEF LiveOf
    <3> HIDE DEF r
    <3>5. ASSUME NEW q \in Repos
          PROVE  counts'[q] = Cardinality(LiveOf(q)') /\ counts'[q] <= counts[q]
      <4>1. CASE q = r
        BY <1>t, <1>l, <2>1, <3>1, <3>3, <4>1
      <4>2. CASE q # r
        BY <1>t, <1>l, <3>1, <3>4, <4>2
      <4> QED BY <4>1, <4>2
    <3>6. pc' = "mark" => counts'[RepoOf[hand']] < Limit
      <4> SUFFICES ASSUME pc' = "mark" PROVE counts'[RepoOf[hand']] < Limit
        OBVIOUS
      <4>1. /\ hand \in Works /\ hand' = hand /\ RepoOf[hand] \in Repos
            /\ counts[RepoOf[hand]] < Limit
        BY <1>t, <2>1 DEF Slotted
      <4>2. counts'[RepoOf[hand]] <= counts[RepoOf[hand]] /\ counts' \in [Repos -> Nat]
        BY <1>t, <2>1, <3>1, <3>5, <4>1
      <4> QED BY <1>t, <4>1, <4>2
    <3>7. \A q \in Repos : counts'[q] <= Limit
      <4>1. counts' \in [Repos -> Nat]
        BY <1>t, <2>1, <3>1
      <4> QED BY <1>t, <1>l, <3>5, <4>1
    <3> QED BY <3>5, <3>6, <3>7 DEF Slotted, WithinConcurrencyLimit
  <2> QED BY <1>4, <2>2, <2>3 DEF Worker
<1>5. ASSUME Crash PROVE Slotted'
  <2>1. /\ worker' = [w \in Works |-> "none"] /\ counts' = [r \in Repos |-> 0]
        /\ pc' = "down"
    BY <1>5 DEF Crash
  <2>2. \A r \in Repos : LiveOf(r)' = {}
    BY <2>1 DEF LiveOf, Live
  <2>3. Cardinality({}) = 0
    BY FS_EmptySet
  <2> QED BY <2>1, <2>2, <2>3 DEF Slotted, WithinConcurrencyLimit
<1>6. ASSUME Start PROVE Slotted'
  <2>1. UNCHANGED <<worker, counts>> /\ pc' = "top"
    BY <1>6 DEF Start
  <2> QED BY <2>1, <1>u
<1>7. ASSUME UNCHANGED vars PROVE Slotted'
  BY <1>7, <1>u DEF vars, memory, Slotted
<1> QED BY <1>1, <1>2, <1>3, <1>4, <1>5, <1>6, <1>7 DEF Next

\* active_counts always equals the number of workers that hold a slot and
\* never exceeds concurrency_limit, for any number of repositories, jobs and
\* restarts.
THEOREM QueueWithinConcurrencyLimit == Spec => []WithinConcurrencyLimit
<1> DEFINE I == TypeOK /\ Places /\ Slotted
<1>1. Init => I
  BY TypeInit, PlacesInit, SlottedInit
<1>2. I /\ [Next]_vars => I'
  BY TypeStep, PlacesStep, SlottedStep
<1>3. I => WithinConcurrencyLimit
  BY DEF Slotted
<1> HIDE DEF I
<1> QED BY <1>1, <1>2, <1>3, PTL DEF Spec
-------------------------------------------------------------------------------
(* Leaving the loop *)

\* The loop leaves because of the shutdown flag only when no worker holds a
\* slot and nothing is in the resumed queue, and because of a closed channel
\* only when nothing is left in it.
THEOREM QueueDrainedExit == Spec => DrainedExit
<1> DEFINE I == TypeOK /\ Places /\ Slotted
           A == (pc # "exited" /\ pc' = "exited") =>
                  /\ resumed = << >> /\ hand = NoJob
                  /\ \/ shutdown /\ \A w \in Works : worker[w] \notin Live
                     \/ closed /\ channel = << >>
<1>1. I /\ [Next]_vars => [A]_vars
  <2> SUFFICES ASSUME I, Next, pc # "exited", pc' = "exited"
               PROVE  A
    BY DEF vars, memory
  <2>t. /\ hand \in Works \cup {NoJob} /\ worker \in [Works -> WorkerStates]
        /\ (hand # NoJob) <=> (pc \in {"check", "mark"})
    BY DEF TypeOK
  <2>1. StopLoop \/ ReceiveClosed
    BY DEF Next, Enqueue, EnqueueFails, Send, SendFails, DropSubmit, DropQueue,
       RequestShutdown, Dispatcher, StayInLoop, PopResumed, IdleInShutdown,
       StartReceive, Receive, ReceiveTimeout, PassLimit, Requeue, MarkActive,
       Worker, WorkerStart, WorkerFinish, WorkerRelease, workerOnly, Crash,
       Start, memory, dispatcherOnly
  <2>2. CASE StopLoop
    <3>1. /\ pc = "top" /\ shutdown /\ resumed = << >>
          /\ \A r \in Repos : counts[r] = 0
      BY <2>2 DEF StopLoop, MayStop, TotalActiveIsZero
    <3>2. ASSUME NEW w \in Works PROVE worker[w] \notin Live
      <4>1. RepoOf[w] \in Repos
        OBVIOUS
      <4>2. Cardinality(LiveOf(RepoOf[w])) = 0
        BY <3>1, <4>1 DEF Slotted, WithinConcurrencyLimit
      <4>3. LiveOf(RepoOf[w]) = {}
        BY <4>1, <4>2, LiveFinite, FS_EmptySet
      <4> QED BY <4>3 DEF LiveOf
    <3> QED BY <2>t, <3>1, <3>2
  <2>3. CASE ReceiveClosed
    <3>1. resumed = << >>
      BY <2>3 DEF ReceiveClosed, Places
    <3> QED BY <2>3, <2>t, <3>1 DEF ReceiveClosed
  <2> QED BY <2>1, <2>2, <2>3
<1>2. Init => I
  BY TypeInit, PlacesInit, SlottedInit
<1>3. I /\ [Next]_vars => I'
  BY TypeStep, PlacesStep, SlottedStep
<1> HIDE DEF I, A
<1>4. Spec => [][A]_vars
  BY <1>1, <1>2, <1>3, PTL DEF Spec
<1> QED BY <1>4 DEF DrainedExit, A
-------------------------------------------------------------------------------
(* The table knows every job *)

\* A step never takes a job out of the table.
LEMMA RowsStay ==
    ASSUME TypeOK, [Next]_vars, NEW w \in Works, HasRow(rows, w)
    PROVE  HasRow(rows, w)'
<1>t. rows \in Seq(Row) /\ Len(rows) \in Nat /\ pid \in [Works -> Nat]
  BY DEF TypeOK
<1>1. CASE UNCHANGED rows
  BY <1>1 DEF HasRow
<1>2. ASSUME NEW v \in Works, rows' = EnqueueJob(rows, v)
      PROVE  HasRow(rows, w)'
  <2>1. /\ Len(rows') = Len(rows) + 1
        /\ \A i \in 1 .. Len(rows) : rows'[i] = rows[i]
    BY <1>t, <1>2, EnqueueAppends
  <2> QED BY <1>t, <2>1 DEF HasRow
<1>3. ASSUME NEW v \in Works, rows' = UpdateJobStatus(rows, pid[v], "running")
      PROVE  HasRow(rows, w)'
  <2>1. pid[v] \in Nat
    BY <1>t
  <2>2. /\ Len(rows') = Len(rows)
        /\ \A i \in 1 .. Len(rows) : rows'[i].work = rows[i].work
    BY <1>t, <1>3, <2>1, UpdateKeepsWork
  <2> QED BY <2>2 DEF HasRow
<1>4. \/ UNCHANGED rows
      \/ \E v \in Works : \/ rows' = EnqueueJob(rows, v)
                          \/ rows' = UpdateJobStatus(rows, pid[v], "running")
  BY DEF vars, Next, Enqueue, EnqueueFails, Send, SendFails, DropSubmit, DropQueue,
     RequestShutdown, Dispatcher, StopLoop, StayInLoop, PopResumed,
     IdleInShutdown, StartReceive, Receive, ReceiveClosed, ReceiveTimeout,
     PassLimit, Requeue, MarkActive, Break, dispatcherOnly, Worker, WorkerStart,
     WorkerFinish, WorkerRelease, Crash, Start
<1> QED BY <1>1, <1>2, <1>3, <1>4

\* A job a step brings into memory comes from a submit that had stored it or
\* from the table itself.
LEMMA NewlyHeld ==
    ASSUME TypeOK, [Next]_vars, NEW w \in Works, Held(w)'
    PROVE  Held(w) \/ sub[w] = "sending" \/ HasRow(rows, w)
<1>t. /\ channel \in Seq(Works) /\ resumed \in Seq(Works)
      /\ hand \in Works \cup {NoJob} /\ worker \in [Works -> WorkerStates]
      /\ (hand # NoJob) <=> (pc \in {"check", "mark"})
      /\ rows \in Seq(Row)
  BY DEF TypeOK
<1>e. Range(<< >>) = {}
  BY RangeEmpty
<1> USE DEF Held, Queued
<1>1. CASE UNCHANGED <<channel, resumed, hand, worker>>
  BY <1>1
<1>2. ASSUME NEW v \in Works, Send(v) PROVE Held(w) \/ sub[w] = "sending"
  <2>1. Range(channel') = Range(channel) \cup {v} /\ sub[v] = "sending"
    BY <1>2, <1>t, RangeAppend DEF Send
  <2>2. UNCHANGED <<resumed, hand, worker>>
    BY <1>2 DEF Send
  <2> QED BY <2>1, <2>2
<1>3. CASE StopLoop \/ ReceiveClosed
  BY <1>3, <1>e DEF StopLoop, ReceiveClosed, Break
<1>4. CASE PopResumed
  <2>1. Range(resumed) = {hand'} \cup Range(resumed')
    BY <1>4, <1>t, RangeHeadTail DEF PopResumed
  <2> QED BY <1>4, <2>1 DEF PopResumed
<1>5. CASE Receive
  <2>1. Range(channel) = {hand'} \cup Range(channel')
    BY <1>5, <1>t, RangeHeadTail DEF Receive
  <2> QED BY <1>5, <2>1 DEF Receive
<1>6. CASE Requeue
  <2>1. hand \in Works
    BY <1>6, <1>t DEF Requeue
  <2>2. Range(resumed') = Range(resumed) \cup {hand}
    BY <1>6, <1>t, <2>1, RangeAppend DEF Requeue
  <2>3. UNCHANGED <<channel, worker>> /\ hand' = NoJob
    BY <1>6 DEF Requeue
  <2> QED BY <2>2, <2>3
<1>7. CASE MarkActive
  <2>1. UNCHANGED <<channel, resumed>> /\ hand' = NoJob
    BY <1>7 DEF MarkActive
  <2>2. hand \in Works /\ worker' = [worker EXCEPT ![hand] = "spawned"]
    BY <1>7, <1>t DEF MarkActive
  <2>3. worker'[w] # "none" => worker[w] # "none" \/ w = hand
    BY <2>2, <1>t
  <2> QED BY <2>1, <2>3
<1>8. ASSUME NEW v \in Works, Worker(v) PROVE Held(w)
  <2>1. /\ UNCHANGED <<channel, resumed, hand>>
        /\ worker[v] # "none"
        /\ \A u \in Works : u # v => worker'[u] = worker[u]
    BY <1>8, <1>t DEF Worker, WorkerStart, WorkerFinish, WorkerRelease, workerOnly
  <2> QED BY <2>1
<1>9. CASE Crash
  <2>1. /\ channel' = << >> /\ resumed' = << >> /\ hand' = NoJob
        /\ worker' = [v \in Works |-> "none"]
    BY <1>9 DEF Crash
  <2> QED BY <2>1, <1>e
<1>10. CASE Start
  <2>1. PICK ids \in PendingJobs(rows) :
          resumed' = [i \in 1 .. Len(ids) |-> rows[ids[i]].work]
    BY <1>10 DEF Start
  <2>2. /\ Len(ids) \in Nat
        /\ \A i \in 1 .. Len(ids) : ids[i] \in 1 .. Len(rows)
    BY <1>t, PendingListing
  <2>3. w \in Range(resumed') => HasRow(rows, w)
    BY <2>1, <2>2 DEF Range, HasRow
  <2>4. UNCHANGED <<channel, hand, worker>>
    BY <1>10 DEF Start
  <2> QED BY <2>3, <2>4
<1>11. \/ UNCHANGED <<channel, resumed, hand, worker>>
       \/ \E v \in Works : Send(v) \/ Worker(v)
       \/ Dispatcher \/ Crash \/ Start
  BY DEF vars, memory, Next, Enqueue, EnqueueFails, SendFails, DropSubmit, DropQueue,
     RequestShutdown
<1>12. ASSUME Dispatcher
       PROVE  \/ UNCHANGED <<channel, resumed, hand, worker>>
              \/ StopLoop \/ ReceiveClosed \/ PopResumed \/ Receive \/ Requeue
              \/ MarkActive
  BY <1>12 DEF Dispatcher, StayInLoop, IdleInShutdown, StartReceive,
     ReceiveTimeout, PassLimit
<1> QED
  BY <1>1, <1>2, <1>3, <1>4, <1>5, <1>6, <1>7, <1>8, <1>9, <1>10, <1>11, <1>12

LEMMA StoredInit == Init => Stored
<1> SUFFICES ASSUME Init PROVE Stored
  OBVIOUS
<1>1. Range(<< >>) = {}
  BY RangeEmpty
<1> QED BY <1>1 DEF Init, Stored, StoredBeforeHeld, Held, Queued

LEMMA StoredStep == TypeOK /\ Stored /\ [Next]_vars => Stored'
<1> SUFFICES ASSUME TypeOK, Stored, [Next]_vars PROVE Stored'
  OBVIOUS
<1>1. ASSUME NEW w \in Works, Held(w)' PROVE HasRow(rows, w)'
  <2>1. Held(w) \/ sub[w] = "sending" \/ HasRow(rows, w)
    BY <1>1, NewlyHeld
  <2>2. HasRow(rows, w)
    BY <2>1 DEF Stored, StoredBeforeHeld
  <2> QED BY <2>2, RowsStay
<1>2. ASSUME NEW w \in Works, sub'[w] = "sending" PROVE HasRow(rows, w)'
  <2>1. CASE sub[w] = "sending"
    <3>1. HasRow(rows, w)
      BY <2>1 DEF Stored
    <3> QED BY <3>1, RowsStay
  <2>2. CASE sub[w] # "sending"
    <3>1. sub \in [Works -> SubStates] /\ rows \in Seq(Row) /\ Len(rows) \in Nat
      BY DEF TypeOK
    <3>2. \A v \in Works : Crash => sub'[v] # "sending"
      BY Zenon DEF Crash
    <3>3. Enqueue(w)
      BY <1>2, <2>2, <3>1, <3>2
      DEF vars, Next, Enqueue, EnqueueFails, Send, SendFails, DropSubmit, DropQueue,
          RequestShutdown, Dispatcher, StopLoop, StayInLoop, PopResumed,
          IdleInShutdown, StartReceive, Receive, ReceiveClosed, ReceiveTimeout,
          PassLimit, Requeue, MarkActive, Break, dispatcherOnly, Worker,
          WorkerStart, WorkerFinish, WorkerRelease, workerOnly, Start
    <3>4. /\ Len(rows') = Len(rows) + 1
          /\ rows'[Len(rows) + 1].work = w
      BY <3>1, <3>3, EnqueueAppends DEF Enqueue
    <3> QED BY <3>1, <3>4 DEF HasRow
  <2> QED BY <2>1, <2>2
<1> QED BY <1>1, <1>2 DEF Stored, StoredBeforeHeld

\* Whatever the process holds in memory is in the table, through any number of
\* crashes and failed status updates.
THEOREM QueueStoredBeforeHeld == Spec => []StoredBeforeHeld
<1>1. Init => TypeOK /\ Stored
  BY TypeInit, StoredInit
<1>2. TypeOK /\ Stored /\ [Next]_vars => (TypeOK /\ Stored)'
  BY TypeStep, StoredStep
<1>3. Stored => StoredBeforeHeld
  BY DEF Stored
<1> QED BY <1>1, <1>2, <1>3, PTL DEF Spec
-------------------------------------------------------------------------------
(* Head of line *)

\* The accepted jobs among those that are resumed or in the hand.
ReceivedWaiting ==
    {w \in Works : w \in Range(resumed) \cup {hand} /\ sub[w] = "ok"}

\* The strengthening: at most one such job, and none accepted in a life that
\* has not begun.
HeadOfLine ==
    /\ \A v, w \in ReceivedWaiting : v = w
    /\ pc = "down" => \A w \in Works : sub[w] # "ok"

\* A submit returns Ok only by its own send.
LEMMA AcceptedBySend ==
    ASSUME TypeOK, [Next]_vars, NEW w \in Works, sub'[w] = "ok", sub[w] # "ok"
    PROVE  Send(w)
<1>1. sub \in [Works -> SubStates]
  BY DEF TypeOK
<1>2. Crash => sub'[w] # "ok"
  <2> SUFFICES ASSUME Crash PROVE sub'[w] # "ok"
    OBVIOUS
  <2>1. sub'[w] = CASE sub[w] \in {"sending", "dropped"} -> "err"
                    [] sub[w] = "ok" -> "past"
                    [] OTHER -> sub[w]
    BY DEF Crash
  <2> QED BY <2>1
<1> QED
  BY <1>1, <1>2
  DEF vars, Next, Enqueue, EnqueueFails, Send, SendFails, DropSubmit, DropQueue,
      RequestShutdown, Dispatcher, StopLoop, StayInLoop, PopResumed,
      IdleInShutdown, StartReceive, Receive, ReceiveClosed, ReceiveTimeout,
      PassLimit, Requeue, MarkActive, Break, dispatcherOnly, Worker,
      WorkerStart, WorkerFinish, WorkerRelease, workerOnly, Start

LEMMA HeadOfLineInit == Init => HeadOfLine
<1> SUFFICES ASSUME Init PROVE HeadOfLine
  OBVIOUS
<1> QED BY DEF Init, HeadOfLine, ReceivedWaiting

LEMMA HeadOfLineStep ==
    TypeOK /\ Places /\ HeadOfLine /\ [Next]_vars => HeadOfLine'
<1> SUFFICES ASSUME TypeOK, Places, HeadOfLine, [Next]_vars PROVE HeadOfLine'
  OBVIOUS
<1>t. /\ channel \in Seq(Works) /\ resumed \in Seq(Works)
      /\ hand \in Works \cup {NoJob} /\ sub \in [Works -> SubStates]
      /\ (hand # NoJob) <=> (pc \in {"check", "mark"})
  BY DEF TypeOK
<1>e. Range(<< >>) = {}
  BY RangeEmpty
<1>0. ASSUME NEW w \in Works, pc' = "down", sub'[w] = "ok" PROVE FALSE
  <2>1. ASSUME sub[w] # "ok" PROVE FALSE
    BY <1>0, <2>1, AcceptedBySend DEF Send
  <2>2. ASSUME Crash PROVE FALSE
    <3>1. sub'[w] = CASE sub[w] \in {"sending", "dropped"} -> "err"
                      [] sub[w] = "ok" -> "past"
                      [] OTHER -> sub[w]
      BY <2>2 DEF Crash
    <3> QED BY <1>0, <3>1
  <2>3. pc = "down" \/ Crash
    BY <1>0 DEF vars, memory, Next, Enqueue, EnqueueFails, Send, SendFails, DropSubmit,
       DropQueue, RequestShutdown, Dispatcher, StopLoop, StayInLoop, PopResumed,
       IdleInShutdown, StartReceive, Receive, ReceiveClosed, ReceiveTimeout,
       PassLimit, Requeue, MarkActive, Break, dispatcherOnly, Worker,
       WorkerStart, WorkerFinish, WorkerRelease, workerOnly, Start
  <2> QED BY <2>1, <2>2, <2>3 DEF HeadOfLine
<1>s. ASSUME Range(resumed') \cup {hand'} \subseteq Range(resumed) \cup {hand, NoJob}
      PROVE  HeadOfLine'
  <2>1. ASSUME NEW w \in ReceivedWaiting' PROVE w \in ReceivedWaiting
    <3>1. w \in Works /\ w \in Range(resumed) \cup {hand} /\ sub'[w] = "ok"
      BY <1>s, <2>1 DEF ReceivedWaiting
    <3>2. sub[w] = "ok"
      <4> SUFFICES ASSUME sub[w] # "ok" PROVE FALSE
        OBVIOUS
      <4>1. sub[w] = "sending"
        BY <3>1, AcceptedBySend DEF Send
      <4> QED BY <3>1, <4>1 DEF Places, Held, Queued
    <3> QED BY <3>1, <3>2 DEF ReceivedWaiting
  <2> QED BY <1>0, <2>1 DEF HeadOfLine
<1>1. CASE UNCHANGED <<resumed, hand>>
  BY <1>1, <1>s
<1>2. CASE PopResumed
  <2>1. Range(resumed) = {hand'} \cup Range(resumed')
    BY <1>2, <1>t, RangeHeadTail DEF PopResumed
  <2> QED BY <2>1, <1>s
<1>3. CASE Requeue
  <2>1. hand \in Works
    BY <1>3, <1>t DEF Requeue
  <2>2. Range(resumed') = Range(resumed) \cup {hand}
    BY <1>3, <1>t, <2>1, RangeAppend DEF Requeue
  <2>3. hand' = NoJob
    BY <1>3 DEF Requeue
  <2> QED BY <2>2, <2>3, <1>s
<1>4. CASE MarkActive \/ Crash
  BY <1>4, <1>e, <1>s DEF MarkActive, Crash
<1>5. CASE Receive
  <2>1. resumed' = << >>
    BY <1>5 DEF Receive, Places
  <2> QED BY <2>1, <1>e, <1>0 DEF HeadOfLine, ReceivedWaiting
<1>6. CASE Start
  <2>1. UNCHANGED sub /\ pc = "down"
    BY <1>6 DEF Start
  <2> QED BY <2>1, <1>0 DEF HeadOfLine, ReceivedWaiting
<1>7. \/ UNCHANGED <<resumed, hand>> \/ PopResumed \/ Requeue
      \/ MarkActive \/ Crash \/ Receive \/ Start
  BY DEF vars, memory, Next, Enqueue, EnqueueFails, Send, SendFails, DropSubmit,
     DropQueue, RequestShutdown, Dispatcher, StopLoop, StayInLoop, IdleInShutdown,
     StartReceive, ReceiveClosed, ReceiveTimeout, PassLimit, Break, Worker,
     WorkerStart, WorkerFinish, WorkerRelease, workerOnly
<1> QED BY <1>1, <1>2, <1>3, <1>4, <1>5, <1>6, <1>7

\* Re-queueing never holds more than one received job outside the channel, so
\* the resumed queue does not grow past what the restart has found plus one.
THEOREM QueueAtMostOneReceivedWaits == Spec => []AtMostOneReceivedWaits
<1>1. Init => TypeOK /\ Places /\ HeadOfLine
  BY TypeInit, PlacesInit, HeadOfLineInit
<1>2. TypeOK /\ Places /\ HeadOfLine /\ [Next]_vars
        => (TypeOK /\ Places /\ HeadOfLine)'
  BY TypeStep, PlacesStep, HeadOfLineStep
<1>3. HeadOfLine => AtMostOneReceivedWaits
  <2> SUFFICES ASSUME HeadOfLine PROVE Cardinality(ReceivedWaiting) <= 1
    BY DEF AtMostOneReceivedWaits, ReceivedWaiting
  <2>1. CASE ReceivedWaiting = {}
    BY <2>1, FS_EmptySet
  <2>2. ASSUME NEW w \in ReceivedWaiting PROVE Cardinality(ReceivedWaiting) <= 1
    <3>1. ReceivedWaiting = {w}
      BY <2>2 DEF HeadOfLine
    <3> QED BY <3>1, FS_Singleton
  <2> QED BY <2>1, <2>2
<1> QED BY <1>1, <1>2, <1>3, PTL DEF Spec
-------------------------------------------------------------------------------
(* No job is lost *)

\* The listing the restart reads leaves out no pending row.
LEMMA ListingIsComplete ==
    ASSUME NEW t \in Seq(Row), NEW ids \in PendingJobs(t), NEW i \in PendingIds(t)
    PROVE  \E k \in 1 .. Len(ids) : ids[k] = i
<1> DEFINE P == PendingIds(t)
           n == Cardinality(P)
<1>1. IsFiniteSet(P)
  BY FS_Interval, FS_Subset DEF PendingIds
<1>2. n \in Nat
  BY <1>1, FS_CardinalityType
<1>3. /\ ids \in [1 .. n -> P]
      /\ \A j, k \in 1 .. n : j < k => ids[j] < ids[k]
  BY DEF PendingJobs
<1>4. Len(ids) = n
  BY <1>2, <1>3
<1>5. SUFFICES ASSUME \A k \in 1 .. n : ids[k] # i PROVE FALSE
  BY <1>4
<1>6. IsFiniteSet(P \ {i}) /\ Cardinality(P \ {i}) = n - 1
  BY <1>1, FS_RemoveElement
<1>7. IsFiniteSet(1 .. n) /\ Cardinality(1 .. n) = n
  <2>1. n \in Int /\ 1 \in Int
    BY <1>2
  <2>2. IsFiniteSet(1 .. n) /\ Cardinality(1 .. n) = IF 1 > n THEN 0 ELSE n - 1 + 1
    BY <2>1, FS_Interval
  <2> QED BY <1>2, <2>2
<1>8. ids \in [1 .. n -> P \ {i}]
  BY <1>3, <1>5
<1>9. PICK j, k \in 1 .. n : j # k /\ ids[j] = ids[k]
  <2>1. Cardinality(P \ {i}) < Cardinality(1 .. n)
    BY <1>2, <1>6, <1>7
  <2> HIDE DEF P, n
  <2> QED BY <1>6, <1>7, <1>8, <2>1, FS_PigeonHole
<1>10. ids[j] \in Nat /\ ids[k] \in Nat
  BY <1>3 DEF PendingIds
<1>11. j < k \/ k < j
  BY <1>2, <1>9
<1> QED BY <1>3, <1>9, <1>10, <1>11

\* Only Enqueue makes a pending row, and only for its own job.
LEMMA PendingBefore ==
    ASSUME TypeOK, [Next]_vars, NEW w \in Works, HasPendingRow(rows, w)'
    PROVE  HasPendingRow(rows, w) \/ Enqueue(w)
<1>t. /\ rows \in Seq(Row) /\ Len(rows) \in Nat /\ pid \in [Works -> Nat]
      /\ \A i \in 1 .. Len(rows) : rows[i] \in Row
  BY DEF TypeOK
<1>1. CASE UNCHANGED rows
  BY <1>1 DEF HasPendingRow
<1>2. ASSUME NEW v \in Works, Enqueue(v) PROVE HasPendingRow(rows, w) \/ v = w
  <2>1. /\ Len(rows') = Len(rows) + 1
        /\ \A i \in 1 .. Len(rows) : rows'[i] = rows[i]
        /\ rows'[Len(rows) + 1].work = v
    BY <1>t, <1>2, EnqueueAppends DEF Enqueue
  <2> QED BY <1>t, <2>1 DEF HasPendingRow, PendingIds
<1>3. ASSUME NEW v \in Works, rows' = UpdateJobStatus(rows, pid[v], "running")
      PROVE  HasPendingRow(rows, w)
  <2>1. CASE pid[v] \in 1 .. Len(rows)
    <3> DEFINE r == [work |-> rows[pid[v]].work, status |-> "running"]
    <3>1. r \in Row /\ r.status = "running"
      BY <1>t, <2>1 DEF Row, Statuses
    <3>2. rows' = [rows EXCEPT ![pid[v]] = r]
      BY <1>3, <2>1 DEF UpdateJobStatus
    <3> HIDE DEF r
    <3>3. /\ Len(rows') = Len(rows)
          /\ \A i \in 1 .. Len(rows) : rows'[i] = IF i = pid[v] THEN r ELSE rows[i]
      BY <1>t, <2>1, <3>1, <3>2, ExceptSeq
    <3>4. ASSUME NEW i \in 1 .. Len(rows'), rows'[i].status \in {"pending", "queued"}
          PROVE  i \in 1 .. Len(rows) /\ rows'[i] = rows[i]
      BY <3>1, <3>3, <3>4
    <3> QED BY <3>4 DEF HasPendingRow, PendingIds
  <2>2. CASE pid[v] \notin 1 .. Len(rows)
    BY <1>3, <2>2 DEF UpdateJobStatus, HasPendingRow
  <2> QED BY <2>1, <2>2
<1>4. \/ UNCHANGED rows
      \/ \E v \in Works : \/ Enqueue(v)
                          \/ rows' = UpdateJobStatus(rows, pid[v], "running")
  BY DEF vars, Next, EnqueueFails, Send, SendFails, DropSubmit, DropQueue,
     RequestShutdown, Dispatcher, StopLoop, StayInLoop, PopResumed,
     IdleInShutdown, StartReceive, Receive, ReceiveClosed, ReceiveTimeout,
     PassLimit, Requeue, MarkActive, Break, dispatcherOnly, Worker, WorkerStart,
     WorkerFinish, WorkerRelease, Crash, Start
<1> QED BY <1>1, <1>2, <1>3, <1>4

\* While the loop goes on it lets go of no job.
LEMMA HeldStays ==
    ASSUME TypeOK, [Next]_vars, NEW w \in Works, Held(w),
           pc # "down", pc' \notin {"down", "exited"}
    PROVE  Held(w)'
<1>t. /\ channel \in Seq(Works) /\ resumed \in Seq(Works)
      /\ hand \in Works \cup {NoJob} /\ worker \in [Works -> WorkerStates]
      /\ (hand # NoJob) <=> (pc \in {"check", "mark"})
  BY DEF TypeOK
<1> USE DEF Held, Queued
<1>1. CASE UNCHANGED <<channel, resumed, hand, worker>>
  BY <1>1
<1>2. ASSUME NEW v \in Works, Send(v) PROVE Held(w)'
  <2>1. Range(channel') = Range(channel) \cup {v}
    BY <1>2, <1>t, RangeAppend DEF Send
  <2> QED BY <1>2, <2>1 DEF Send
<1>4. CASE PopResumed
  <2>1. Range(resumed) = {hand'} \cup Range(resumed') /\ w # hand
    BY <1>4, <1>t, RangeHeadTail DEF PopResumed
  <2> QED BY <1>4, <2>1 DEF PopResumed
<1>5. CASE Receive
  <2>1. Range(channel) = {hand'} \cup Range(channel') /\ w # hand
    BY <1>5, <1>t, RangeHeadTail DEF Receive
  <2> QED BY <1>5, <2>1 DEF Receive
<1>6. CASE Requeue
  <2>1. hand \in Works
    BY <1>6, <1>t DEF Requeue
  <2>2. Range(resumed') = Range(resumed) \cup {hand}
    BY <1>6, <1>t, <2>1, RangeAppend DEF Requeue
  <2> QED BY <1>6, <2>2 DEF Requeue
<1>7. CASE MarkActive
  <2>1. hand \in Works /\ worker' = [worker EXCEPT ![hand] = "spawned"]
    BY <1>7, <1>t DEF MarkActive
  <2>2. worker'[hand] = "spawned" /\ \A v \in Works : v # hand => worker'[v] = worker[v]
    BY <2>1, <1>t
  <2> QED BY <1>7, <2>2 DEF MarkActive
<1>8. ASSUME NEW v \in Works, Worker(v) PROVE Held(w)'
  <2>1. /\ UNCHANGED <<channel, resumed, hand>>
        /\ worker'[v] # "none"
        /\ \A u \in Works : u # v => worker'[u] = worker[u]
    BY <1>8, <1>t DEF Worker, WorkerStart, WorkerFinish, WorkerRelease, workerOnly
  <2> QED BY <2>1
<1>11. \/ UNCHANGED <<channel, resumed, hand, worker>>
       \/ \E v \in Works : Send(v) \/ Worker(v)
       \/ Dispatcher
  BY DEF vars, memory, Next, Enqueue, EnqueueFails, SendFails, DropSubmit, DropQueue,
     RequestShutdown, Crash, Start
<1>12. ASSUME Dispatcher
       PROVE  \/ UNCHANGED <<channel, resumed, hand, worker>>
              \/ PopResumed \/ Receive \/ Requeue \/ MarkActive
  BY <1>12 DEF Dispatcher, StopLoop, ReceiveClosed, Break, StayInLoop,
     IdleInShutdown, StartReceive, ReceiveTimeout, PassLimit
<1> QED BY <1>1, <1>2, <1>4, <1>5, <1>6, <1>7, <1>8, <1>11, <1>12

LEMMA NoJobLostInit == Init => NoJobLost
<1> SUFFICES ASSUME Init PROVE NoJobLost
  OBVIOUS
<1>1. PendingIds(rows) = {}
  BY RangeEmpty DEF Init, PendingIds
<1> QED BY <1>1 DEF Init, NoJobLost, HasPendingRow

LEMMA NoJobLostStep ==
    TypeOK /\ Places /\ HeadOfLine /\ NoJobLost /\ [Next]_vars => NoJobLost'
<1> SUFFICES ASSUME TypeOK, Places, HeadOfLine, NoJobLost, [Next]_vars,
                    pc' \notin {"down", "exited"}, NEW w \in Works,
                    \/ sub'[w] = "ok"
                    \/ HasPendingRow(rows, w)' /\ sub'[w] \notin {"sending", "dropped"}
             PROVE  Held(w)'
  BY DEF NoJobLost
<1>t. /\ rows \in Seq(Row) /\ sub \in [Works -> SubStates] /\ channel \in Seq(Works)
      /\ \A i \in 1 .. Len(rows) : rows[i] \in Row
  BY DEF TypeOK
<1>1. CASE Start
  <2>1. PICK ids \in PendingJobs(rows) :
          resumed' = [i \in 1 .. Len(ids) |-> rows[ids[i]].work]
    BY <1>1 DEF Start
  <2>2. UNCHANGED <<sub, rows>> /\ pc = "down"
    BY <1>1 DEF Start
  <2>3. HasPendingRow(rows, w)
    BY <2>2 DEF HeadOfLine
  <2>4. PICK i \in PendingIds(rows) : rows[i].work = w
    BY <2>3 DEF HasPendingRow
  <2>5. PICK k \in 1 .. Len(ids) : ids[k] = i
    BY <1>t, ListingIsComplete
  <2>6. w \in Range(resumed')
    BY <2>1, <2>4, <2>5 DEF Range
  <2> QED BY <2>6 DEF Held, Queued
<1>2. CASE Send(w)
  <2>1. w \in Range(channel')
    BY <1>2, <1>t, RangeAppend DEF Send
  <2> QED BY <2>1 DEF Held, Queued
<1>3. CASE ~Start /\ ~Send(w)
  <2>1. pc \notin {"down", "exited"}
    BY <1>3 DEF vars, memory, Next, Enqueue, EnqueueFails, Send, SendFails, DropSubmit,
       DropQueue, RequestShutdown, Dispatcher, StopLoop, StayInLoop, PopResumed,
       IdleInShutdown, StartReceive, Receive, ReceiveClosed, ReceiveTimeout,
       PassLimit, Requeue, MarkActive, Break, dispatcherOnly, Worker,
       WorkerStart, WorkerFinish, WorkerRelease, workerOnly, Crash
  <2>2. CASE sub[w] = "ok"
    <3>1. Held(w)
      BY <2>1, <2>2 DEF NoJobLost
    <3> QED BY <2>1, <3>1, HeldStays
  <2>3. CASE sub[w] # "ok"
    <3>1. sub'[w] # "ok"
      BY <1>3, <2>3, AcceptedBySend
    <3>2. ~Enqueue(w)
      BY <1>t, <3>1 DEF Enqueue
    <3>3. HasPendingRow(rows, w) /\ sub'[w] \notin {"sending", "dropped"}
      BY <3>1, <3>2, PendingBefore
    <3>4. sub[w] \notin {"sending", "dropped"}
      <4> SUFFICES ASSUME sub[w] \in {"sending", "dropped"} PROVE FALSE
        OBVIOUS
      <4> QED
        BY <1>3, <1>t, <2>1, <3>1, <3>3
        DEF vars, Next, Enqueue, EnqueueFails, Send, SendFails, DropSubmit, DropQueue,
            RequestShutdown, Dispatcher, StopLoop, StayInLoop, PopResumed,
            IdleInShutdown, StartReceive, Receive, ReceiveClosed, ReceiveTimeout,
            PassLimit, Requeue, MarkActive, Break, dispatcherOnly, Worker,
            WorkerStart, WorkerFinish, WorkerRelease, workerOnly, Crash
    <3>5. Held(w)
      BY <2>1, <3>3, <3>4 DEF NoJobLost
    <3> QED BY <2>1, <3>5, HeldStays
  <2> QED BY <2>2, <2>3
<1> QED BY <1>1, <1>2, <1>3

\* As long as the loop runs, every accepted job and every job of a pending row
\* is in memory, through restarts, re-queueing and failed status updates.
THEOREM QueueNoJobLost == Spec => []NoJobLost
<1> DEFINE I == TypeOK /\ Places /\ HeadOfLine /\ NoJobLost
<1>1. Init => I
  BY TypeInit, PlacesInit, HeadOfLineInit, NoJobLostInit
<1>2. I /\ [Next]_vars => I'
  BY TypeStep, PlacesStep, HeadOfLineStep, NoJobLostStep
<1>3. I => NoJobLost
  OBVIOUS
<1> HIDE DEF I
<1> QED BY <1>1, <1>2, <1>3, PTL DEF Spec
-------------------------------------------------------------------------------
(* Slots *)

\* Only the release of a worker of a repository lowers its count, and no
\* worker starts once the loop has ended.
THEOREM QueueSlotsAreKept == Spec => SlotsAreKept
<1> DEFINE A == (Alive /\ pc' # "down") =>
                  /\ \A r \in Repos : counts'[r] < counts[r] =>
                        \E w \in LiveOf(r) : worker'[w] = "done"
                  /\ \A w \in Works :
                        (worker[w] = "none" /\ worker'[w] # "none") => pc' # "exited"
<1>1. TypeOK /\ [Next]_vars => [A]_vars
  <2> SUFFICES ASSUME TypeOK, Next, Alive, pc' # "down" PROVE A
    BY DEF vars, memory
  <2>t. /\ worker \in [Works -> WorkerStates] /\ counts \in [Repos -> Nat]
        /\ hand \in Works \cup {NoJob}
        /\ (hand # NoJob) <=> (pc \in {"check", "mark"})
    BY DEF TypeOK
  <2>1. ASSUME UNCHANGED <<counts, worker>> PROVE A
    BY <2>1, <2>t
  <2>2. CASE MarkActive
    <3>1. /\ hand \in Works /\ RepoOf[hand] \in Repos /\ pc' = "top"
          /\ counts' = [counts EXCEPT ![RepoOf[hand]] = counts[RepoOf[hand]] + 1]
      BY <2>2, <2>t DEF MarkActive
    <3>2. \A r \in Repos : ~(counts'[r] < counts[r])
      BY <2>t, <3>1
    <3> QED BY <3>1, <3>2
  <2>3. ASSUME NEW w \in Works, Worker(w) PROVE A
    <3>1. worker[w] # "none" /\ \A v \in Works : v # w => worker'[v] = worker[v]
      BY <2>3, <2>t DEF Worker, WorkerStart, WorkerFinish, WorkerRelease
    <3>2. CASE WorkerStart(w) \/ WorkerFinish(w)
      BY <2>t, <3>1, <3>2 DEF WorkerStart, WorkerFinish
    <3>3. CASE WorkerRelease(w)
      <4>1. w \in LiveOf(RepoOf[w]) /\ worker'[w] = "done"
        BY <2>t, <3>3 DEF WorkerRelease, LiveOf, Live
      <4>2. \A r \in Repos : r # RepoOf[w] => counts'[r] = counts[r]
        BY <2>t, <3>3 DEF WorkerRelease
      <4>3. ASSUME NEW r \in Repos, counts'[r] < counts[r]
            PROVE  \E v \in LiveOf(r) : worker'[v] = "done"
        <5>1. r = RepoOf[w]
          BY <2>t, <4>2, <4>3
        <5> QED BY <4>1, <5>1
      <4> QED BY <3>1, <4>3
    <3> QED BY <2>3, <3>2, <3>3 DEF Worker
  <2>4. \/ UNCHANGED <<counts, worker>> \/ MarkActive
        \/ \E w \in Works : Worker(w)
    BY DEF Next, Enqueue, EnqueueFails, Send, SendFails, DropSubmit, DropQueue, memory,
       RequestShutdown, Dispatcher, StopLoop, StayInLoop, PopResumed,
       IdleInShutdown, StartReceive, Receive, ReceiveClosed, ReceiveTimeout,
       PassLimit, Requeue, Break, Crash, Start, Alive
  <2> HIDE DEF A
  <2> QED BY <2>1, <2>2, <2>3, <2>4
<1> HIDE DEF A
<1>2. Spec => [][A]_vars
  BY <1>1, TypeInit, TypeStep, PTL DEF Spec
<1> QED BY <1>2 DEF SlotsAreKept, A
-------------------------------------------------------------------------------
(* The queue implements JobSlots *)

\* The phase of each job, one line per phase.
PhaseTable(w) ==
    /\ worker[w] \in Live => Phase[w] = "running"
    /\ worker[w] = "done" => Phase[w] = "done"
    /\ Queued(w) => Phase[w] = "waiting"
    /\ worker[w] = "none" /\ ~Queued(w) /\ HasRow(rows, w) => Phase[w] = "stored"
    /\ worker[w] = "none" /\ ~Queued(w) /\ ~HasRow(rows, w) => Phase[w] = "new"

LEMMA PhaseNow == OnePlace => \A w \in Works : PhaseTable(w)
<1> SUFFICES ASSUME OnePlace, NEW w \in Works PROVE PhaseTable(w)
  OBVIOUS
<1>1. Phase[w] = CASE worker[w] \in Live -> "running"
                   [] worker[w] = "done" -> "done"
                   [] Queued(w) -> "waiting"
                   [] worker[w] = "none" /\ ~Queued(w) /\ HasRow(rows, w) -> "stored"
                   [] OTHER -> "new"
  BY Zenon DEF Phase
<1>2. worker[w] # "none" => ~Queued(w)
  BY DEF OnePlace
<1> HIDE DEF Queued, HasRow
<1> QED BY <1>1, <1>2 DEF Live, PhaseTable

LEMMA PhaseNext == (OnePlace => \A w \in Works : PhaseTable(w))'
BY PhaseNow, PTL

\* A job whose worker, place and row do not change keeps its phase.
LEMMA PhaseStays ==
    ASSUME OnePlace, OnePlace', NEW w \in Works,
           worker[w] \in WorkerStates, worker'[w] \in WorkerStates,
           worker[w] \in Live <=> worker'[w] \in Live,
           worker[w] = "done" <=> worker'[w] = "done",
           Queued(w) <=> Queued(w)',
           HasRow(rows, w) <=> HasRow(rows, w)'
    PROVE  Phase'[w] = Phase[w]
<1>1. worker[w] \in Live \/ worker[w] = "done" \/ worker[w] = "none"
  BY DEF Live, WorkerStates
<1>2. worker[w] = "none" <=> worker'[w] = "none"
  BY DEF Live, WorkerStates
<1>3. PhaseTable(w) /\ PhaseTable(w)'
  BY PhaseNow, PhaseNext
<1> HIDE DEF Queued, HasRow
<1> QED BY <1>1, <1>2, <1>3 DEF PhaseTable

\* Only Enqueue puts a job into the table, and only its own.
LEMMA RowsBefore ==
    ASSUME TypeOK, [Next]_vars, NEW w \in Works, HasRow(rows, w)'
    PROVE  HasRow(rows, w) \/ Enqueue(w)
<1>t. rows \in Seq(Row) /\ Len(rows) \in Nat /\ pid \in [Works -> Nat]
  BY DEF TypeOK
<1>1. CASE UNCHANGED rows
  BY <1>1 DEF HasRow
<1>2. ASSUME NEW v \in Works, Enqueue(v) PROVE HasRow(rows, w) \/ v = w
  <2>1. /\ Len(rows') = Len(rows) + 1
        /\ \A i \in 1 .. Len(rows) : rows'[i] = rows[i]
        /\ rows'[Len(rows) + 1].work = v
    BY <1>t, <1>2, EnqueueAppends DEF Enqueue
  <2> QED BY <1>t, <2>1 DEF HasRow
<1>3. ASSUME NEW v \in Works, rows' = UpdateJobStatus(rows, pid[v], "running")
      PROVE  HasRow(rows, w)
  <2>1. pid[v] \in Nat
    BY <1>t
  <2>2. /\ Len(rows') = Len(rows)
        /\ \A i \in 1 .. Len(rows) : rows'[i].work = rows[i].work
    BY <1>t, <1>3, <2>1, UpdateKeepsWork
  <2> QED BY <2>2 DEF HasRow
<1>4. \/ UNCHANGED rows
      \/ \E v \in Works : \/ Enqueue(v)
                          \/ rows' = UpdateJobStatus(rows, pid[v], "running")
  BY DEF vars, Next, EnqueueFails, Send, SendFails, DropSubmit, DropQueue,
     RequestShutdown, Dispatcher, StopLoop, StayInLoop, PopResumed,
     IdleInShutdown, StartReceive, Receive, ReceiveClosed, ReceiveTimeout,
     PassLimit, Requeue, MarkActive, Break, dispatcherOnly, Worker, WorkerStart,
     WorkerFinish, WorkerRelease, Crash, Start
<1> QED BY <1>1, <1>2, <1>3, <1>4

\* A phase function is known by its values.
LEMMA PhaseIsFunction ==
    /\ Phase = [w \in Works |-> Phase[w]]
    /\ Phase' = [w \in Works |-> Phase'[w]]
<1> DEFINE e(w) == CASE worker[w] \in Live -> "running"
                     [] worker[w] = "done" -> "done"
                     [] Queued(w) -> "waiting"
                     [] worker[w] = "none" /\ ~Queued(w) /\ HasRow(rows, w) -> "stored"
                     [] OTHER -> "new"
<1>1. Phase = [w \in Works |-> e(w)] /\ Phase' = [w \in Works |-> e(w)']
  BY Zenon DEF Phase
<1> HIDE DEF e
<1> QED BY <1>1

\* JobSlots counts with the same Cardinality.
LEMMA SameCardinality == \A S : Slots!Cardinality(S) = Cardinality(S)
BY DEF Cardinality, Slots!Cardinality

\* The invariants the refinement needs.
SlotsInv == TypeOK /\ Places /\ Slotted /\ Stored

\* The jobs JobSlots counts as running are the workers that hold a slot.
LEMMA RunningIsLive ==
    ASSUME TypeOK, OnePlace, NEW r \in Repos
    PROVE  Slots!Running(r) = LiveOf(r)
<1>1. ASSUME NEW w \in Works PROVE Phase[w] = "running" <=> worker[w] \in Live
  <2>1. PhaseTable(w)
    BY PhaseNow
  <2>2. worker[w] \in Live \/ worker[w] = "done" \/ worker[w] = "none"
    BY DEF TypeOK, WorkerStates, Live
  <2> HIDE DEF Queued, HasRow
  <2> QED BY <2>1, <2>2 DEF PhaseTable
<1> QED BY <1>1 DEF Slots!Running, LiveOf

\* Every step of the queue is a step of JobSlots or leaves the phases alone.
LEMMA SlotsStep ==
    SlotsInv /\ SlotsInv' /\ [Next]_vars => [Slots!SlotsNext]_Phase
<1> SUFFICES ASSUME SlotsInv, SlotsInv', [Next]_vars
             PROVE  Slots!SlotsNext \/ Phase' = Phase
  OBVIOUS
<1>t. /\ channel \in Seq(Works) /\ resumed \in Seq(Works) /\ rows \in Seq(Row)
      /\ hand \in Works \cup {NoJob} /\ sub \in [Works -> SubStates]
      /\ worker \in [Works -> WorkerStates] /\ worker' \in [Works -> WorkerStates]
      /\ counts \in [Repos -> Nat]
      /\ (hand # NoJob) <=> (pc \in {"check", "mark"})
  BY DEF SlotsInv, TypeOK
<1>o. TypeOK /\ OnePlace /\ OnePlace' /\ \A w \in Works : PhaseTable(w) /\ PhaseTable(w)'
  BY PhaseNow, PhaseNext DEF SlotsInv, Places
<1>e. Range(<< >>) = {}
  BY RangeEmpty
<1>h. \A w \in Works : Held(w) => HasRow(rows, w)
  BY DEF SlotsInv, Stored, StoredBeforeHeld
<1>r. \A w \in Works : ~Enqueue(w) => (HasRow(rows, w)' <=> HasRow(rows, w))
  BY <1>o, RowsBefore, RowsStay
<1>k. ASSUME NEW w \in Works, ~Enqueue(w), worker'[w] = worker[w], Queued(w)' <=> Queued(w)
      PROVE  Phase'[w] = Phase[w]
  BY <1>k, <1>t, <1>o, <1>r, PhaseStays
<1>1. ASSUME NEW w \in Works, Enqueue(w) PROVE Slots!SlotsNext
  <2>1. UNCHANGED <<channel, resumed, hand, worker>> /\ sub[w] = "idle"
        /\ ~Held(w)
    BY <1>1 DEF Enqueue, memory, SlotsInv, Places
  <2>2. ~HasRow(rows, w)
    BY <2>1 DEF SlotsInv, Places, HasRow
  <2>3. HasRow(rows, w)'
    <3>1. /\ Len(rows') = Len(rows) + 1 /\ Len(rows) \in Nat
          /\ rows'[Len(rows) + 1].work = w
      BY <1>t, <1>1, EnqueueAppends DEF Enqueue
    <3> QED BY <3>1 DEF HasRow
  <2>4. Phase[w] = "new" /\ Phase'[w] = "stored"
    BY <2>1, <2>2, <2>3, <1>o DEF PhaseTable, Held, Queued
  <2>5. ASSUME NEW v \in Works, v # w PROVE Phase'[v] = Phase[v]
    <3>1. ~Enqueue(v)
      BY <1>1, <2>5, <1>t DEF Enqueue
    <3> QED BY <2>1, <3>1, <1>k DEF Queued
  <2>6. Phase' = [Phase EXCEPT ![w] = "stored"]
    BY <2>4, <2>5, PhaseIsFunction
  <2> QED BY <2>4, <2>6 DEF Slots!SlotsNext, Slots!Store
<1>2. ASSUME NEW w \in Works, Send(w) PROVE Slots!SlotsNext
  <2>1. UNCHANGED <<rows, resumed, hand, worker>> /\ sub[w] = "sending"
    BY <1>2 DEF Send
  <2>2. ~Held(w) /\ HasRow(rows, w)
    BY <2>1 DEF SlotsInv, Places, Stored
  <2>3. Range(channel') = Range(channel) \cup {w}
    BY <1>2, <1>t, RangeAppend DEF Send
  <2>4. Phase[w] = "stored" /\ Phase'[w] = "waiting"
    BY <2>1, <2>2, <2>3, <1>o DEF PhaseTable, Held, Queued
  <2>5. ASSUME NEW v \in Works, v # w PROVE Phase'[v] = Phase[v]
    <3>1. ~Enqueue(v)
      BY <1>2, <1>t, <2>5 DEF Enqueue, Send
    <3> QED BY <2>1, <2>3, <2>5, <3>1, <1>k DEF Queued
  <2>6. Phase' = [v \in Works |-> IF v \in {w} THEN "waiting" ELSE Phase[v]]
    BY <2>4, <2>5, PhaseIsFunction
  <2>7. Slots!Enter({w})
    BY <2>4, <2>6 DEF Slots!Enter
  <2> QED BY <2>7 DEF Slots!SlotsNext
<1>3. CASE StopLoop
  <2>1. /\ pc = "top" /\ resumed = << >> /\ \A r \in Repos : counts[r] = 0
        /\ channel' = << >> /\ UNCHANGED <<rows, hand, resumed, worker>>
        /\ UNCHANGED sub
    BY <1>3 DEF StopLoop, MayStop, TotalActiveIsZero, Break, dispatcherOnly
  <2>2. ASSUME NEW w \in Works PROVE worker[w] \notin Live
    <3>1. RepoOf[w] \in Repos
      OBVIOUS
    <3>2. Cardinality(LiveOf(RepoOf[w])) = 0
      BY <2>1, <3>1 DEF SlotsInv, Slotted, WithinConcurrencyLimit
    <3>3. LiveOf(RepoOf[w]) = {}
      BY <3>1, <3>2, LiveFinite, FS_EmptySet
    <3> QED BY <3>3 DEF LiveOf
  <2>3. ASSUME NEW w \in Works
        PROVE  /\ Phase[w] # "running"
               /\ Phase'[w] = IF Phase[w] = "waiting" THEN "stored" ELSE Phase[w]
    <3>1. PhaseTable(w) /\ PhaseTable(w)' /\ ~Queued(w)'
      BY <1>o, <1>t, <1>e, <2>1 DEF Queued
    <3>2. worker[w] = "done" \/ worker[w] = "none"
      BY <1>t, <2>2 DEF WorkerStates, Live
    <3>3. HasRow(rows, w)' <=> HasRow(rows, w)
      BY <2>1 DEF HasRow
    <3>4. Queued(w) => HasRow(rows, w) /\ worker[w] = "none"
      BY <1>h, <1>o DEF Held, OnePlace
    <3> HIDE DEF Queued, HasRow
    <3> QED BY <2>1, <3>1, <3>2, <3>3, <3>4 DEF PhaseTable
  <2>4. Phase' = [w \in Works |-> IF Phase[w] = "waiting" THEN "stored" ELSE Phase[w]]
    BY <2>3, PhaseIsFunction
  <2>5. CASE \E w \in Works : Phase[w] = "waiting"
    BY <2>3, <2>4, <2>5 DEF Slots!SlotsNext, Slots!Close
  <2>6. CASE \A w \in Works : Phase[w] # "waiting"
    BY <2>3, <2>6, PhaseIsFunction
  <2> QED BY <2>5, <2>6
<1>4. CASE MarkActive
  <2>1. /\ hand \in Works /\ pc = "mark" /\ UNCHANGED <<rows, channel, resumed>>
        /\ hand' = NoJob /\ worker' = [worker EXCEPT ![hand] = "spawned"]
    BY <1>4, <1>t DEF MarkActive, dispatcherOnly
  <2>2. Phase[hand] = "waiting" /\ Phase'[hand] = "running"
    BY <2>1, <1>t, <1>o DEF PhaseTable, Queued, Live
  <2>3. ASSUME NEW v \in Works, v # hand PROVE Phase'[v] = Phase[v]
    <3>1. ~Enqueue(v)
      BY <1>4 DEF Enqueue, memory, MarkActive
    <3> QED BY <2>1, <2>3, <3>1, <1>t, <1>k DEF Queued
  <2>4. Phase' = [Phase EXCEPT ![hand] = "running"]
    BY <2>1, <2>2, <2>3, PhaseIsFunction
  <2>5. Cardinality(Slots!Running(RepoOf[hand])) < Limit
    <3>1. RepoOf[hand] \in Repos
      BY <2>1
    <3>2. counts[RepoOf[hand]] < Limit
      BY <2>1 DEF SlotsInv, Slotted
    <3>3. counts[RepoOf[hand]] = Cardinality(LiveOf(RepoOf[hand]))
      BY <3>1 DEF SlotsInv, Slotted, WithinConcurrencyLimit
    <3> QED BY <3>1, <3>2, <3>3, <1>o, RunningIsLive
  <2>6. Slots!StartJob(hand)
    BY <2>2, <2>4, <2>5, SameCardinality DEF Slots!StartJob
  <2> QED BY <2>1, <2>6 DEF Slots!SlotsNext
<1>5. ASSUME NEW w \in Works, WorkerRelease(w) PROVE Slots!SlotsNext
  <2>1. /\ worker[w] = "finished" /\ worker' = [worker EXCEPT ![w] = "done"]
        /\ UNCHANGED <<rows, channel, resumed, hand>> /\ UNCHANGED sub
    BY <1>5 DEF WorkerRelease, workerOnly
  <2>2. Phase[w] = "running" /\ Phase'[w] = "done"
    BY <2>1, <1>t, <1>o DEF PhaseTable, Live
  <2>3. ASSUME NEW v \in Works, v # w PROVE Phase'[v] = Phase[v]
    <3>1. ~Enqueue(v)
      BY <2>1, <1>t DEF Enqueue
    <3> QED BY <2>1, <2>3, <3>1, <1>t, <1>k DEF Queued
  <2>4. Phase' = [Phase EXCEPT ![w] = "done"]
    BY <2>2, <2>3, PhaseIsFunction
  <2> QED BY <2>2, <2>4 DEF Slots!SlotsNext, Slots!FinishJob
<1>6. CASE Crash
  <2>1. /\ channel' = << >> /\ resumed' = << >> /\ hand' = NoJob /\ UNCHANGED rows
        /\ worker' = [w \in Works |-> "none"]
    BY <1>6 DEF Crash
  <2>2. ASSUME NEW w \in Works
        PROVE  Phase'[w] = IF Phase[w] = "new" THEN "new" ELSE "stored"
    <3>1. PhaseTable(w) /\ PhaseTable(w)' /\ ~Queued(w)' /\ worker'[w] = "none"
      BY <1>o, <1>e, <2>1 DEF Queued
    <3>2. HasRow(rows, w)' <=> HasRow(rows, w)
      BY <2>1 DEF HasRow
    <3>3. worker[w] # "none" \/ Queued(w) => HasRow(rows, w)
      BY <1>h DEF Held
    <3>4. worker[w] \in Live \/ worker[w] = "done" \/ worker[w] = "none"
      BY <1>t DEF WorkerStates, Live
    <3> HIDE DEF Queued, HasRow
    <3> QED BY <3>1, <3>2, <3>3, <3>4 DEF PhaseTable, Live
  <2>3. Phase' = [w \in Works |-> IF Phase[w] = "new" THEN "new" ELSE "stored"]
    BY <2>2, PhaseIsFunction
  <2> QED BY <2>3 DEF Slots!SlotsNext, Slots!Halt
<1>7. CASE Start
  <2>1. PICK ids \in PendingJobs(rows) :
          resumed' = [i \in 1 .. Len(ids) |-> rows[ids[i]].work]
    BY <1>7 DEF Start
  <2>2. /\ pc = "down" /\ UNCHANGED <<rows, channel, hand, worker>> /\ UNCHANGED sub
        /\ channel = << >> /\ hand = NoJob /\ resumed = << >>
        /\ \A w \in Works : worker[w] = "none"
    BY <1>7, <1>t DEF Start, SlotsInv, Places
  <2>3. \A w \in Range(resumed') : w \in Works /\ HasRow(rows, w)
    <3>1. \A i \in 1 .. Len(ids) : ids[i] \in 1 .. Len(rows)
      BY <1>t, PendingListing
    <3>2. resumed' \in Seq(Works)
      BY DEF SlotsInv, TypeOK
    <3>3. Range(resumed') \subseteq Works
      BY <3>2, RangeSeq
    <3> QED BY <2>1, <3>1, <3>3 DEF Range, HasRow
  <2>4. ASSUME NEW w \in Works PROVE ~Queued(w) /\ (Queued(w)' <=> w \in Range(resumed'))
    BY <1>e, <2>2 DEF Queued
  <2>5. ASSUME NEW w \in Range(resumed') PROVE Phase[w] = "stored" /\ Phase'[w] = "waiting"
    BY <2>2, <2>3, <2>4, <1>o DEF PhaseTable
  <2>6. ASSUME NEW w \in Works, w \notin Range(resumed') PROVE Phase'[w] = Phase[w]
    <3>1. ~Enqueue(w)
      BY <2>2 DEF Enqueue, Alive
    <3> QED BY <2>2, <2>4, <2>6, <3>1, <1>k
  <2>7. Phase' = [w \in Works |-> IF w \in Range(resumed') THEN "waiting" ELSE Phase[w]]
    BY <2>3, <2>5, <2>6, PhaseIsFunction
  <2>8. Slots!Enter(Range(resumed')) /\ Range(resumed') \in SUBSET Works
    BY <2>3, <2>5, <2>7 DEF Slots!Enter
  <2> QED BY <2>8 DEF Slots!SlotsNext
<1>8. ASSUME \A w \in Works : ~Enqueue(w),
             \A w \in Works : worker[w] \in Live <=> worker'[w] \in Live,
             \A w \in Works : worker[w] = "done" <=> worker'[w] = "done",
             \A w \in Works : Queued(w) <=> Queued(w)'
      PROVE  Phase' = Phase
  <2>1. ASSUME NEW w \in Works PROVE Phase'[w] = Phase[w]
    BY <1>8, <1>t, <1>o, <1>r, PhaseStays
  <2> QED BY <2>1, PhaseIsFunction
<1>9. ASSUME NEW w \in Works, WorkerStart(w) \/ WorkerFinish(w) PROVE Phase' = Phase
  <2>1. /\ UNCHANGED <<channel, resumed, hand>> /\ UNCHANGED sub
        /\ \A v \in Works : /\ worker[v] \in Live <=> worker'[v] \in Live
                            /\ worker[v] = "done" <=> worker'[v] = "done"
    BY <1>9, <1>t DEF WorkerStart, WorkerFinish, workerOnly, Live
  <2>2. \A v \in Works : ~Enqueue(v)
    BY <2>1, <1>t DEF Enqueue
  <2> QED BY <2>1, <2>2, <1>8 DEF Queued
<1>10. ASSUME Dispatcher, ~StopLoop, ~MarkActive PROVE Phase' = Phase
  <2>1. UNCHANGED <<worker, sub>>
    BY <1>10 DEF Dispatcher, dispatcherOnly, StayInLoop, PopResumed,
       IdleInShutdown, StartReceive, Receive, ReceiveClosed, ReceiveTimeout,
       PassLimit, Requeue, Break
  <2>2. \A w \in Works : ~Enqueue(w)
    BY <2>1, <1>t DEF Enqueue
  <2>3. ASSUME NEW w \in Works PROVE Queued(w) <=> Queued(w)'
    <3>1. CASE StayInLoop \/ IdleInShutdown \/ StartReceive \/ ReceiveTimeout \/ PassLimit
      BY <3>1 DEF StayInLoop, IdleInShutdown, StartReceive, ReceiveTimeout,
         PassLimit, Queued
    <3>2. CASE ReceiveClosed
      BY <3>2 DEF ReceiveClosed, Break, Queued
    <3>3. CASE PopResumed
      <4>1. Range(resumed) = {hand'} \cup Range(resumed') /\ w # hand
        BY <3>3, <1>t, RangeHeadTail DEF PopResumed
      <4> QED BY <3>3, <4>1 DEF PopResumed, Queued
    <3>4. CASE Receive
      <4>1. Range(channel) = {hand'} \cup Range(channel') /\ w # hand
        BY <3>4, <1>t, RangeHeadTail DEF Receive
      <4> QED BY <3>4, <4>1 DEF Receive, Queued
    <3>5. CASE Requeue
      <4>1. hand \in Works
        BY <3>5, <1>t DEF Requeue
      <4>2. Range(resumed') = Range(resumed) \cup {hand} /\ w # NoJob
        BY <3>5, <1>t, <4>1, RangeAppend DEF Requeue
      <4> QED BY <3>5, <4>2 DEF Requeue, Queued
    <3> QED BY <1>10, <3>1, <3>2, <3>3, <3>4, <3>5 DEF Dispatcher
  <2> QED BY <2>1, <2>2, <2>3, <1>8
<1>11. ASSUME UNCHANGED <<channel, resumed, hand, worker>>, \A w \in Works : ~Enqueue(w)
       PROVE  Phase' = Phase
  BY <1>11, <1>8 DEF Queued
<1>12. ASSUME DropQueue \/ RequestShutdown \/ UNCHANGED vars PROVE Phase' = Phase
  <2>1. UNCHANGED <<channel, resumed, hand, worker>> /\ UNCHANGED sub
    BY <1>12 DEF DropQueue, RequestShutdown, vars, memory
  <2>2. \A w \in Works : ~Enqueue(w)
    BY <2>1, <1>t DEF Enqueue
  <2> QED BY <2>1, <2>2, <1>11
<1>13. ASSUME NEW w \in Works, EnqueueFails(w) \/ SendFails(w) \/ DropSubmit(w)
       PROVE  Phase' = Phase
  <2>1. UNCHANGED <<channel, resumed, hand, worker>>
        /\ \A v \in Works : sub'[v] \in {sub[v], "err", "dropped"}
    BY <1>13, <1>t DEF EnqueueFails, SendFails, DropSubmit, memory
  <2>2. \A v \in Works : ~Enqueue(v)
    BY <2>1, <1>t DEF Enqueue
  <2> QED BY <2>1, <2>2, <1>11
<1> QED
  BY <1>1, <1>2, <1>3, <1>4, <1>5, <1>6, <1>7, <1>9, <1>10, <1>12, <1>13
  DEF Next, Worker

\* Forgetting channel, dispatcher, locks and table, the queue does what
\* JobSlots allows: a job is stored, waits and runs in this order, at most
\* once per life, and a job starts only if its repository has a free slot.
THEOREM QueueImplementsSlots == Spec => ImplementsSlots
<1>1. Init => Slots!SlotsInit
  <2> SUFFICES ASSUME Init PROVE Slots!SlotsInit
    OBVIOUS
  <2>1. OnePlace
    BY PlacesInit DEF Places
  <2>2. ASSUME NEW w \in Works PROVE Phase[w] = "new"
    <3>1. PhaseTable(w)
      BY <2>1, PhaseNow
    <3>2. worker[w] = "none" /\ ~Queued(w) /\ ~HasRow(rows, w)
      BY RangeEmpty DEF Init, Queued, HasRow
    <3> QED BY <3>1, <3>2 DEF PhaseTable
  <2> QED BY <2>2, PhaseIsFunction DEF Slots!SlotsInit
<1>2. Init => SlotsInv
  BY TypeInit, PlacesInit, SlottedInit, StoredInit DEF SlotsInv
<1>3. SlotsInv /\ [Next]_vars => SlotsInv'
  BY TypeStep, PlacesStep, SlottedStep, StoredStep DEF SlotsInv
<1>4. Spec => Slots!SlotsSpec
  BY <1>1, <1>2, <1>3, SlotsStep, PTL DEF Spec, Slots!SlotsSpec
<1> QED BY <1>4 DEF ImplementsSlots
===============================================================================
