--------------------------- MODULE BatchReviewProofs ---------------------------
(***************************************************************************)
(* TokenUsable and EntryInOneBatch hold of BatchReview for every set of   *)
(* callers, instances and keys and for all times.  Besides types, the      *)
(* first needs that the holder of a mutex is the caller that exchanges and *)
(* that a cached token expires no later than CacheFor after it came; the   *)
(* second, whose entries a list may have and who may have a list.          *)
(***************************************************************************)
EXTENDS BatchReview, FiniteSetTheorems, TLAPS

Exchanging == {"listing", "exchanging", "issued"}

MutexHeld ==
    \A c \in Callers : auth[c] \in Exchanging => holder[instance[c]] = c

CachedInTime ==
    \A i \in Instances : cached[i].expires <= cached[i].received + CacheFor

TokensInTime ==
    \A c \in Callers :
        /\ auth[c] = "got"
        /\ token[c].received - token[c].issued <= TokenLife - CacheFor
        => token[c].returned < token[c].issued + TokenLife

AuthInv == AuthTypeOK /\ MutexHeld /\ CachedInTime /\ TokensInTime

\* Every step of the batches is a step of one caller, of the clock, or of
\* nobody, as far as tokens are concerned.
AuthStep(c) ==
    \/ (Want(c) \/ Used(c)) /\ UNCHANGED clock
    \/ GetInstallationToken(c)

LEMMA StepsOfBatch ==
    [Next]_vars => \/ \E c \in Callers : AuthStep(c)
                   \/ Tick
                   \/ UNCHANGED <<clock, authVars>>
<1> SUFFICES ASSUME [Next]_vars
             PROVE  \/ \E c \in Callers : AuthStep(c)
                    \/ Tick
                    \/ UNCHANGED <<clock, authVars>>
  OBVIOUS
<1>1. CASE UNCHANGED vars
  BY <1>1 DEF vars
<1>2. ASSUME NEW t \in Tasks, AddToBatch(t)
      PROVE  UNCHANGED <<clock, authVars>>
  BY <1>2 DEF AddToBatch
<1>3. ASSUME NEW t \in Tasks, GetBatch(t)
      PROVE  UNCHANGED <<clock, authVars>>
  BY <1>3 DEF GetBatch
<1>4. ASSUME NEW t \in Tasks, ProcessBatchReview(t)
      PROVE  AuthStep(t) \/ UNCHANGED <<clock, authVars>>
  <2>1. CASE CloneAndDiffBatch(t)
    BY <2>1 DEF CloneAndDiffBatch
  <2>2. CASE ReviewBatch(t)
    BY <2>2 DEF ReviewBatch, AuthStep
  <2>3. CASE GetToken(t)
    BY <2>3 DEF GetToken, AuthStep
  <2>4. CASE Post(t)
    BY <2>4 DEF Post, AuthStep
  <2> QED BY <1>4, <2>1, <2>2, <2>3, <2>4 DEF ProcessBatchReview
<1>5. CASE Tick /\ UNCHANGED batchVars
  BY <1>5
<1> QED BY <1>1, <1>2, <1>3, <1>4, <1>5 DEF Next, Tasks

LEMMA AuthInvInit == Init => AuthInv
<1> SUFFICES ASSUME Init PROVE AuthInv
  OBVIOUS
<1> USE AuthAssumption, BatchAssumption
<1>1. instance \in [Callers -> Instances]
  BY DEF Init, Tasks
<1>2. AuthTypeOK
  BY <1>1 DEF Init, AuthInit, AuthTypeOK, AuthStates, NotCached, NoToken
<1>3. MutexHeld
  BY DEF Init, AuthInit, MutexHeld, Exchanging
<1>4. CachedInTime
  BY DEF Init, AuthInit, CachedInTime, NotCached
<1>5. TokensInTime
  BY DEF Init, AuthInit, TokensInTime
<1> QED BY <1>2, <1>3, <1>4, <1>5 DEF AuthInv

LEMMA AuthTypeStep ==
    ASSUME AuthTypeOK, NEW c \in Callers, AuthStep(c)
    PROVE  AuthTypeOK'
<1> USE AuthAssumption DEF AuthTypeOK, AuthStates, AuthGoes, NoToken, Returned
<1>1. CASE Want(c) /\ UNCHANGED clock
  BY <1>1 DEF Want
<1>2. CASE Used(c) /\ UNCHANGED clock
  BY <1>2 DEF Used
<1>3. CASE UseCached(c)
  <2>1. /\ instance[c] \in Instances
        /\ cached[instance[c]] \in [issued : Nat, received : Nat, expires : Nat]
    OBVIOUS
  <2>2. Returned(cached[instance[c]]) \in [issued : Nat, received : Nat, returned : Nat]
    BY <2>1
  <2> QED BY <1>3, <2>2 DEF UseCached
<1>4. CASE StartExchange(c)
  BY <1>4 DEF StartExchange
<1>5. CASE Listed(c)
  BY <1>5 DEF Listed
<1>6. CASE Issue(c)
  <2>1. [token[c] EXCEPT !.issued = clock] \in [issued : Nat, received : Nat, returned : Nat]
    OBVIOUS
  <2> QED BY <1>6, <2>1 DEF Issue
<1>7. CASE Obtain(c)
  <2> DEFINE t == [issued |-> token[c].issued, received |-> clock,
                   expires |-> clock + CacheFor]
  <2>1. /\ t \in [issued : Nat, received : Nat, expires : Nat]
        /\ Returned(t) \in [issued : Nat, received : Nat, returned : Nat]
    OBVIOUS
  <2> QED BY <1>7, <2>1 DEF Obtain
<1>8. CASE ExchangeFails(c)
  BY <1>8 DEF ExchangeFails
<1> QED BY <1>1, <1>2, <1>3, <1>4, <1>5, <1>6, <1>7, <1>8
        DEF AuthStep, GetInstallationToken

LEMMA MutexStep ==
    ASSUME AuthTypeOK, MutexHeld, NEW c \in Callers, AuthStep(c)
    PROVE  MutexHeld'
<1> SUFFICES ASSUME NEW d \in Callers, auth'[d] \in Exchanging
             PROVE  holder'[instance'[d]] = d
  BY DEF MutexHeld
<1> USE AuthAssumption DEF AuthTypeOK, MutexHeld, AuthGoes, Exchanging
<1>1. CASE Want(c) \/ Used(c) \/ UseCached(c) \/ Listed(c) \/ Issue(c)
  BY <1>1 DEF Want, Used, UseCached, Listed, Issue
<1>2. CASE StartExchange(c)
  BY <1>2 DEF StartExchange
<1>3. CASE Obtain(c) \/ ExchangeFails(c)
  <2>1. holder[instance[c]] = c /\ auth'[c] \notin Exchanging
    BY <1>3 DEF Obtain, ExchangeFails
  <2>2. d # c /\ auth[d] \in Exchanging /\ instance' = instance
    BY <1>3, <2>1 DEF Obtain, ExchangeFails
  <2>3. instance[d] # instance[c]
    BY <2>1, <2>2
  <2> QED BY <1>3, <2>2, <2>3 DEF Obtain, ExchangeFails
<1> QED BY <1>1, <1>2, <1>3 DEF AuthStep, GetInstallationToken

LEMMA CachedStep ==
    ASSUME AuthTypeOK, CachedInTime, NEW c \in Callers, AuthStep(c)
    PROVE  CachedInTime'
<1> USE AuthAssumption DEF AuthTypeOK, CachedInTime
<1>1. CASE Obtain(c)
  BY <1>1 DEF Obtain
<1>2. CASE UNCHANGED cached
  BY <1>2
<1> QED BY <1>1, <1>2 DEF AuthStep, GetInstallationToken, Want, Used, UseCached,
        StartExchange, Listed, Issue, ExchangeFails

\* A moment that comes no more than l - f after b comes before b + l.
LEMMA LaterThan ==
    ASSUME NEW a \in Nat, NEW b \in Nat, NEW l \in Nat, NEW f \in Nat \ {0},
           a - b <= l - f
    PROVE  a < b + l
OBVIOUS

LEMMA TokensStep ==
    ASSUME AuthTypeOK, CachedInTime, TokensInTime, NEW c \in Callers, AuthStep(c)
    PROVE  TokensInTime'
<1> SUFFICES ASSUME NEW d \in Callers, auth'[d] = "got",
                    token'[d].received - token'[d].issued <= TokenLife - CacheFor
             PROVE  token'[d].returned < token'[d].issued + TokenLife
  BY DEF TokensInTime
<1> USE AuthAssumption DEF AuthTypeOK, AuthGoes
<1>1. CASE d # c
  <2>1. auth'[d] = auth[d]
    BY <1>1 DEF AuthStep, GetInstallationToken, Want, Used, UseCached,
                StartExchange, Listed, Issue, Obtain, ExchangeFails
  <2>2. token'[d] = token[d]
    BY <1>1 DEF AuthStep, GetInstallationToken, Want, Used, UseCached,
                StartExchange, Listed, Issue, Obtain, ExchangeFails
  <2> QED BY <2>1, <2>2 DEF TokensInTime
<1>2. CASE d = c
  <2>1. CASE UseCached(c)
    <3> DEFINE t == cached[instance[c]]
    <3>1. t \in [issued : Nat, received : Nat, expires : Nat]
      OBVIOUS
    <3>2. token'[c] = [issued |-> t.issued, received |-> t.received, returned |-> clock]
      BY <2>1 DEF UseCached, Returned
    <3>3. clock < t.expires /\ t.expires <= t.received + CacheFor
      BY <2>1 DEF UseCached, CachedInTime
    <3> QED BY <1>2, <3>1, <3>2, <3>3
  <2>2. CASE Obtain(c)
    <3>1. token'[c] = [issued |-> token[c].issued, received |-> clock, returned |-> clock]
      BY <2>2 DEF Obtain, Returned
    <3>2. token[c].issued \in Nat /\ clock \in Nat
      OBVIOUS
    <3>3. clock - token[c].issued <= TokenLife - CacheFor
      BY <1>2, <3>1
    <3>4. clock < token[c].issued + TokenLife
      <4>1. TokenLife \in Nat /\ CacheFor \in Nat \ {0}
        BY AuthAssumption
      <4> HIDE DEF AuthTypeOK, AuthGoes
      <4> QED BY <3>2, <3>3, <4>1, LaterThan
    <3> QED BY <1>2, <3>1, <3>4
  <2>3. CASE ~UseCached(c) /\ ~Obtain(c)
    BY <1>2, <2>3 DEF AuthStep, GetInstallationToken, Want, Used,
                StartExchange, Listed, Issue, ExchangeFails
  <2> QED BY <2>1, <2>2, <2>3
<1> QED BY <1>1, <1>2

LEMMA AuthInvStep == AuthInv /\ [Next]_vars => AuthInv'
<1> SUFFICES ASSUME AuthInv, [Next]_vars PROVE AuthInv'
  OBVIOUS
<1>1. ASSUME NEW c \in Callers, AuthStep(c) PROVE AuthInv'
  BY <1>1, AuthTypeStep, MutexStep, CachedStep, TokensStep DEF AuthInv
<1>2. CASE Tick
  BY <1>2, AuthAssumption DEF AuthInv, AuthTypeOK, MutexHeld, CachedInTime,
     TokensInTime, Tick, authVars
<1>3. CASE UNCHANGED <<clock, authVars>>
  BY <1>3 DEF AuthInv, AuthTypeOK, MutexHeld, CachedInTime, TokensInTime, authVars
<1> QED BY <1>1, <1>2, <1>3, StepsOfBatch

\* What a caller of GitHubAuth is given is accepted by GitHub unless the
\* answer travelled longer than the cache is ahead, and callers of one
\* instance exchange one at a time.
THEOREM AuthTokenUsable == Spec => []TokenUsable
<1>1. AuthInv => TokenUsable
  BY DEF AuthInv, MutexHeld, TokensInTime, TokenUsable, Exchanging
<1> QED BY <1>1, AuthInvInit, AuthInvStep, PTL DEF Spec

\* The batches: every list is a sequence of entries.
BatchTypes ==
    /\ pending \in [Instances -> [Keys -> Seq(Entries)]]
    /\ task \in [Tasks -> TaskStates]
    /\ due \in [Tasks -> Nat]
    /\ batch \in [Tasks -> Seq(Entries)]

LEMMA BatchTypesInit == Init => BatchTypes
<1>1. <<>> \in Seq(Entries)
  OBVIOUS
<1> QED BY <1>1 DEF Init, BatchTypes, TaskStates

LEMMA BatchTypesStep ==
    AuthTypeOK /\ BatchTypes /\ [Next]_vars => BatchTypes'
<1> SUFFICES ASSUME AuthTypeOK, BatchTypes, [Next]_vars PROVE BatchTypes'
  OBVIOUS
<1> USE AuthAssumption, BatchAssumption DEF BatchTypes, TaskStates
<1>1. ASSUME NEW t \in Tasks
      PROVE  /\ KeyOf[t] \in Keys /\ EngineOf(t) \in Instances
             /\ Batch(t) \in Seq(Entries) /\ Append(Batch(t), Entry(t)) \in Seq(Entries)
  <2>1. KeyOf[t] \in Keys
    BY <1>1 DEF Keys
  <2>2. EngineOf(t) \in Instances
    BY <1>1 DEF EngineOf, Tasks, AuthTypeOK
  <2>3. Batch(t) \in Seq(Entries)
    BY <2>1, <2>2 DEF Batch
  <2>4. Entry(t) \in Entries
    BY <1>1 DEF Entries
  <2> QED BY <1>1, <2>1, <2>2, <2>3, <2>4
<1>2. ASSUME NEW t \in Tasks, NEW s \in Seq(Entries),
             pending' = [pending EXCEPT ![EngineOf(t)][KeyOf[t]] = s]
      PROVE  pending' \in [Instances -> [Keys -> Seq(Entries)]]
  <2> DEFINE e == EngineOf(t)
             k == KeyOf[t]
  <2>1. e \in Instances /\ k \in Keys /\ pending[e] \in [Keys -> Seq(Entries)]
    BY <1>1
  <2>2. [pending[e] EXCEPT ![k] = s] \in [Keys -> Seq(Entries)]
    BY <1>2, <2>1
  <2>3. pending' = [pending EXCEPT ![e] = [pending[e] EXCEPT ![k] = s]]
    BY <1>2, <2>1
  <2> HIDE DEF e, k
  <2> QED BY <2>1, <2>2, <2>3
<1>3. ASSUME NEW t \in Tasks, AddToBatch(t) PROVE BatchTypes'
  <2>1. pending' = [pending EXCEPT ![EngineOf(t)][KeyOf[t]] = Append(Batch(t), Entry(t))]
    BY <1>3 DEF AddToBatch, Batch
  <2>2. clock + BatchTimeout \in Nat
    BY DEF AuthTypeOK
  <2> QED BY <1>1, <1>2, <1>3, <2>1, <2>2 DEF AddToBatch, TaskGoes
<1>4. ASSUME NEW t \in Tasks, GetBatch(t) PROVE BatchTypes'
  <2>1. pending' = [pending EXCEPT ![EngineOf(t)][KeyOf[t]] = <<>>] /\ <<>> \in Seq(Entries)
    BY <1>4 DEF GetBatch
  <2>2. \E to \in TaskStates : task' = [task EXCEPT ![t] = to]
    BY <1>4 DEF GetBatch, TaskGoes
  <2>3. pending' \in [Instances -> [Keys -> Seq(Entries)]]
    BY <1>2, <2>1
  <2> QED BY <1>1, <1>4, <2>2, <2>3 DEF GetBatch
<1>5. ASSUME NEW t \in Tasks, ProcessBatchReview(t) PROVE BatchTypes'
  <2>1. (\E to \in TaskStates : task' = [task EXCEPT ![t] = to]) \/ task' = task
    BY <1>5 DEF ProcessBatchReview, CloneAndDiffBatch, ReviewBatch, GetToken, Post,
                TaskGoes, batchVars
  <2>2. UNCHANGED <<pending, due, batch>>
    BY <1>5 DEF ProcessBatchReview, CloneAndDiffBatch, ReviewBatch, GetToken, Post,
                batchVars
  <2> QED BY <2>1, <2>2
<1>6. CASE UNCHANGED batchVars
  BY <1>6 DEF batchVars
<1> QED BY <1>3, <1>4, <1>5, <1>6 DEF Next, vars

\* The type invariant of the batches and of the tokens, for all tasks, batch
\* keys and times, whether the tasks share an engine or not.
THEOREM BatchReviewTypes == Spec => []TypeOK
<1>1. AuthInv /\ BatchTypes => TypeOK
  BY DEF AuthInv, BatchTypes, TypeOK
<1>2. AuthInv => AuthTypeOK
  BY DEF AuthInv
<1> QED
  BY <1>1, <1>2, AuthInvInit, AuthInvStep, BatchTypesInit, BatchTypesStep, PTL DEF Spec
-------------------------------------------------------------------------------
(* One list for each entry.  A list holds entries of tasks that have added,  *)
(* of its engine and key; who has not yet taken a batch has none; and for    *)
(* each pending batch one task sleeps.                                       *)

Fits(u, e, k) == u \in Added /\ EngineOf(u) = e /\ KeyOf[u] = k
ListsInv ==
    /\ \A e \in Instances, k \in Keys : \A u \in Tasks :
         Has(pending[e][k], u) => Fits(u, e, k)
    /\ \A t, u \in Tasks : Has(batch[t], u) => Fits(u, EngineOf(t), KeyOf[t])
    /\ \A u \in Tasks : task[u] \in {"idle", "left", "sleeping"} => batch[u] = <<>>

OneSleeper(e, k) ==
    \/ pending[e][k] = <<>> /\ Sleepers(e, k) = {}
    \/ pending[e][k] # <<>> /\ \E t : Sleepers(e, k) = {t}
SleepersInv == \A e \in Instances, k \in Keys : OneSleeper(e, k)

InOne(t) ==
    \/ Once(Batch(t), t) /\ Taken(t) = {}
    \/ /\ ~Has(Batch(t), t)
       /\ \E u \in Tasks : Taken(t) = {u} /\ Once(batch[u], t)
PlacesInv == \A t \in Added : InOne(t)

LEMMA InstanceSame == [Next]_vars => instance' = instance
<1>1. Tick => instance' = instance  BY DEF Tick, authVars
<1>2. \A c \in Callers : AuthStep(c) => instance' = instance
  BY DEF AuthStep, GetInstallationToken, Want, Used, UseCached, StartExchange, Listed,
         Issue, Obtain, ExchangeFails
<1>3. UNCHANGED <<clock, authVars>> => instance' = instance  BY DEF authVars
<1> QED  BY <1>1, <1>2, <1>3, StepsOfBatch

\* The steps as far as the lists and the tasks are concerned.
Puts(t) ==
    /\ task[t] = "idle"
    /\ task' = [task EXCEPT ![t] = IF Batch(t) = <<>> THEN "sleeping" ELSE "left"]
    /\ pending' = [pending EXCEPT ![EngineOf(t)][KeyOf[t]] = Append(Batch(t), Entry(t))]
    /\ batch' = batch
Takes(t) ==
    /\ task[t] = "sleeping"
    /\ \E to \in {"ended", "fetching"} : task' = [task EXCEPT ![t] = to]
    /\ pending' = [pending EXCEPT ![EngineOf(t)][KeyOf[t]] = <<>>]
    /\ batch' = [batch EXCEPT ![t] = Batch(t)]
Early == {"idle", "left", "sleeping"}
GoesOn ==
    /\ pending' = pending /\ batch' = batch
    /\ \A u \in Tasks : task[u] \in Early \/ task'[u] \in Early => task'[u] = task[u]

LEMMA ListSteps ==
    ASSUME BatchTypes, [Next]_vars
    PROVE  (\E t \in Tasks : Puts(t) \/ Takes(t)) \/ GoesOn
<1>1. ASSUME NEW t \in Tasks, AddToBatch(t) PROVE Puts(t)
  BY <1>1 DEF AddToBatch, Puts, TaskGoes, Batch
<1>2. ASSUME NEW t \in Tasks, GetBatch(t) PROVE Takes(t)
  BY <1>2 DEF GetBatch, Takes, TaskGoes
<1>3. ASSUME NEW t \in Tasks, ProcessBatchReview(t) PROVE GoesOn
  <2>1. pending' = pending /\ batch' = batch
    BY <1>3 DEF ProcessBatchReview, CloneAndDiffBatch, ReviewBatch, GetToken, Post, batchVars
  <2>2. \/ task' = task
        \/ /\ task[t] \in {"fetching", "reviewing", "posting"}
           /\ \E to \in {"reviewing", "posting", "posted", "ended"} :
                task' = [task EXCEPT ![t] = to]
    BY <1>3 DEF ProcessBatchReview, CloneAndDiffBatch, ReviewBatch, GetToken, Post,
                TaskGoes, batchVars
  <2> QED  BY <2>1, <2>2 DEF GoesOn, Early, BatchTypes
<1>4. CASE UNCHANGED batchVars  BY <1>4 DEF batchVars, GoesOn
<1> QED  BY <1>1, <1>2, <1>3, <1>4 DEF Next, vars

LEMMA PlaceOf ==
    ASSUME AuthTypeOK, NEW t \in Tasks
    PROVE  EngineOf(t) \in Instances /\ KeyOf[t] \in Keys
  BY DEF AuthTypeOK, EngineOf, Keys, Tasks

PendingIs(e, k, s) == pending' = [pending EXCEPT ![e][k] = s]

LEMMA PendingNext ==
    ASSUME BatchTypes, NEW e \in Instances, NEW k \in Keys, NEW s, PendingIs(e, k, s)
    PROVE  /\ pending'[e][k] = s
           /\ \A f \in Instances, l \in Keys :
                f # e \/ l # k => pending'[f][l] = pending[f][l]
  BY DEF BatchTypes, PendingIs

LEMMA EntriesDiffer ==
    ASSUME NEW t, NEW u, Entry(t) = Entry(u) PROVE t = u
<1>1. Entry(t).by = t /\ Entry(u).by = u  BY DEF Entry
<1> QED  BY <1>1

LEMMA HasAppend ==
    ASSUME NEW s \in Seq(Entries), NEW t \in Tasks
    PROVE  LET a == Append(s, Entry(t))
           IN  /\ a # <<>>
               /\ \A u : Has(a, u) <=> Has(s, u) \/ u = t
               /\ ~Has(s, t) => Once(a, t)
               /\ \A u : u # t /\ Once(s, u) => Once(a, u)
<1> DEFINE a == Append(s, Entry(t))
           n == Len(s)
<1>0. Entry(t) \in Entries  BY DEF Entries
<1>1. /\ n \in Nat /\ DOMAIN s = 1 .. n /\ DOMAIN a = 1 .. n + 1
      /\ a[n + 1] = Entry(t) /\ \A i \in 1 .. n : a[i] = s[i]
  BY <1>0
<1>2. a # <<>>
  <2>1. Len(a) = n + 1 /\ n \in Nat  BY <1>0
  <2>2. Len(<<>>) = 0  OBVIOUS
  <2> HIDE DEF a, n
  <2> QED  BY <2>1, <2>2
<1> HIDE DEF a, n
<1>3. 1 .. n + 1 = (1 .. n) \cup {n + 1} /\ n + 1 \notin 1 .. n  BY <1>1
<1>4. \A u : Has(a, u) <=> Has(s, u) \/ u = t
  <2>1. Range(a) = Range(s) \cup {Entry(t)}  BY <1>1, <1>3 DEF Range
  <2>2. \A u : Entry(u) = Entry(t) <=> u = t  BY EntriesDiffer
  <2> QED  BY <2>1, <2>2 DEF Has
<1>5. ~Has(s, t) => Once(a, t)  BY <1>1, <1>3 DEF Range, Once, Has
<1>6. ASSUME NEW u, u # t, Once(s, u) PROVE Once(a, u)
  <2> DEFINE D == DOMAIN s
  <2>0. D = 1 .. n  BY <1>1
  <2>3. \E i \in D : \A j \in D : s[j] = Entry(u) <=> j = i  BY <1>6 DEF Once
  <2> HIDE DEF D
  <2>1. PICK i \in 1 .. n : \A j \in 1 .. n : s[j] = Entry(u) <=> j = i  BY <2>0, <2>3
  <2>4. Entry(u) # Entry(t)  BY <1>6, EntriesDiffer
  <2>2. \A j \in 1 .. n + 1 : a[j] = Entry(u) <=> j = i  BY <1>1, <1>3, <2>1, <2>4
  <2> QED  BY <1>1, <1>3, <2>2 DEF Once
<1> QED  BY <1>2, <1>4, <1>5, <1>6 DEF a

LEMMA OnceIn == ASSUME NEW s, NEW t, Once(s, t) PROVE Has(s, t)
  BY DEF Once, Has, Range

BatchInv == BatchTypes /\ ListsInv /\ SleepersInv /\ PlacesInv

LEMMA NoEntries == \A u : ~Has(<<>>, u)  BY DEF Has, Range

LEMMA BatchInit == Init => ListsInv /\ SleepersInv /\ PlacesInv
<1> SUFFICES ASSUME Init PROVE ListsInv /\ SleepersInv /\ PlacesInv  OBVIOUS
<1>1. /\ \A e \in Instances, k \in Keys : pending[e][k] = <<>>
      /\ \A t \in Tasks : task[t] = "idle" /\ batch[t] = <<>>
  BY DEF Init
<1>2. Added = {} /\ \A e, k : Sleepers(e, k) = {}  BY <1>1 DEF Added, Sleepers
<1> QED  BY <1>1, <1>2, NoEntries DEF ListsInv, SleepersInv, OneSleeper, PlacesInv

LEMMA PutsStep ==
    ASSUME AuthTypeOK, BatchInv, instance' = instance, NEW t \in Tasks, Puts(t)
    PROVE  ListsInv' /\ SleepersInv' /\ PlacesInv'
<1>1. EngineOf(t) \in Instances /\ KeyOf[t] \in Keys  BY PlaceOf
<1> PICK e \in Instances : e = EngineOf(t)  BY <1>1
<1> PICK k \in Keys : k = KeyOf[t]  BY <1>1
<1> DEFINE a == Append(Batch(t), Entry(t))
<1>2. /\ pending'[e][k] = a
      /\ \A f \in Instances, l \in Keys : f # e \/ l # k => pending'[f][l] = pending[f][l]
  <2>1. PendingIs(e, k, a) /\ BatchTypes  BY DEF Puts, BatchInv, PendingIs
  <2> HIDE DEF a
  <2> QED  BY <2>1, PendingNext
<1>3. /\ task[t] = "idle" /\ batch' = batch /\ batch[t] = <<>>
      /\ task'[t] = IF pending[e][k] = <<>> THEN "sleeping" ELSE "left"
      /\ \A u \in Tasks : u # t => task'[u] = task[u]
  BY DEF Puts, BatchInv, BatchTypes, ListsInv, Batch
<1>4. \A u \in Tasks : EngineOf(u)' = EngineOf(u)  BY DEF EngineOf
<1>5. Added' = Added \cup {t} /\ t \notin Added  BY <1>3 DEF Added
<1>6. Batch(t) = pending[e][k] /\ Batch(t) \in Seq(Entries)
  BY <1>1 DEF Batch, BatchInv, BatchTypes
<1>7. ~Has(Batch(t), t)  BY <1>1, <1>5, <1>6 DEF BatchInv, ListsInv, Fits
<1>8. /\ \A u : Has(a, u) <=> Has(Batch(t), u) \/ u = t
      /\ a # <<>> /\ Once(a, t)
      /\ \A u : u # t /\ Once(Batch(t), u) => Once(a, u)
  BY <1>6, <1>7, HasAppend
<1> HIDE DEF a
<1>9. ListsInv'
  <2>0. \A u \in Tasks : \A f, l : Fits(u, f, l) => Fits(u, f, l)'
    BY <1>4, <1>5 DEF Fits
  <2>1. ASSUME NEW f \in Instances, NEW l \in Keys, NEW u \in Tasks, Has(pending'[f][l], u)
        PROVE  Fits(u, f, l)'
    <3>1. CASE f = e /\ l = k
      <4>1. Has(pending[e][k], u) \/ u = t  BY <1>2, <1>6, <1>8, <2>1, <3>1
      <4>2. u = t => Fits(u, f, l)'  BY <1>4, <1>5, <3>1 DEF Fits
      <4> QED  BY <2>0, <3>1, <4>1, <4>2 DEF BatchInv, ListsInv
    <3>2. CASE f # e \/ l # k
      <4>1. Has(pending[f][l], u)  BY <1>2, <2>1, <3>2
      <4> QED  BY <2>0, <4>1 DEF BatchInv, ListsInv
    <3> QED  BY <3>1, <3>2
  <2>2. \A v, u \in Tasks : Has(batch'[v], u) => Fits(u, EngineOf(v), KeyOf[v])'
    BY <1>3, <1>4, <2>0 DEF BatchInv, ListsInv
  <2>3. \A u \in Tasks : task'[u] \in {"idle", "left", "sleeping"} => batch'[u] = <<>>
    BY <1>3 DEF BatchInv, ListsInv
  <2> QED  BY <2>1, <2>2, <2>3 DEF ListsInv
<1>10. SleepersInv'
  <2>1. ASSUME NEW f \in Instances, NEW l \in Keys PROVE OneSleeper(f, l)'
    <3>1. CASE f = e /\ l = k /\ pending[e][k] = <<>>
      <4>1. Sleepers(e, k) = {}  BY <1>1, <3>1 DEF BatchInv, SleepersInv, OneSleeper
      <4>2. Sleepers(e, k)' = {t}  BY <1>3, <1>4, <3>1, <4>1 DEF Sleepers
      <4> QED  BY <1>2, <1>8, <3>1, <4>2 DEF OneSleeper
    <3>2. CASE ~ (f = e /\ l = k /\ pending[e][k] = <<>>)
      <4>1. Sleepers(f, l)' = Sleepers(f, l)
        BY <1>3, <1>4, <3>2 DEF Sleepers
      <4>2. OneSleeper(f, l)  BY DEF BatchInv, SleepersInv
      <4>3. pending'[f][l] = <<>> <=> pending[f][l] = <<>>
        BY <1>2, <1>8, <3>2
      <4> QED  BY <4>1, <4>2, <4>3 DEF OneSleeper
    <3> QED  BY <3>1, <3>2
  <2> QED  BY <2>1 DEF SleepersInv
<1>11. PlacesInv'
  <2>1. \A u : Taken(u)' = Taken(u)  BY <1>3 DEF Taken
  <2>2. InOne(t)'
    <3>1. Taken(t) = {}  BY <1>5 DEF Taken, BatchInv, ListsInv, Fits
    <3>2. Batch(t)' = a  BY <1>2, <1>4 DEF Batch
    <3> QED  BY <1>8, <2>1, <3>1, <3>2 DEF InOne
  <2>3. ASSUME NEW u \in Added PROVE InOne(u)'
    <3>1. u # t /\ u \in Tasks /\ InOne(u)  BY <1>5 DEF BatchInv, PlacesInv, Added
    <3>2. /\ Once(Batch(u), u) => Once(Batch(u)', u)
          /\ ~Has(Batch(u), u) => ~Has(Batch(u)', u)
      <4>1. CASE EngineOf(u) = e /\ KeyOf[u] = k
        <5>1. Batch(u) = Batch(t) /\ Batch(u)' = a
          BY <1>2, <1>4, <1>6, <3>1, <4>1 DEF Batch
        <5> QED  BY <1>8, <3>1, <5>1
      <4>2. CASE EngineOf(u) # e \/ KeyOf[u] # k
        <5>1. Batch(u)' = Batch(u)  BY <1>2, <1>4, <3>1, <4>2, PlaceOf DEF Batch
        <5> QED  BY <5>1
      <4> QED  BY <4>1, <4>2
    <3> QED  BY <1>3, <2>1, <3>1, <3>2 DEF InOne
  <2> QED  BY <1>5, <2>2, <2>3 DEF PlacesInv
<1> QED  BY <1>9, <1>10, <1>11

LEMMA TakesStep ==
    ASSUME AuthTypeOK, BatchInv, instance' = instance, NEW t \in Tasks, Takes(t)
    PROVE  ListsInv' /\ SleepersInv' /\ PlacesInv'
<1>1. EngineOf(t) \in Instances /\ KeyOf[t] \in Keys  BY PlaceOf
<1> PICK e \in Instances : e = EngineOf(t)  BY <1>1
<1> PICK k \in Keys : k = KeyOf[t]  BY <1>1
<1> DEFINE b == Batch(t)
<1>2. /\ pending'[e][k] = <<>>
      /\ \A f \in Instances, l \in Keys : f # e \/ l # k => pending'[f][l] = pending[f][l]
  <2>1. PendingIs(e, k, <<>>) /\ BatchTypes  BY DEF Takes, BatchInv, PendingIs
  <2> HIDE DEF b
  <2> QED  BY <2>1, PendingNext
<1>3. /\ task[t] = "sleeping" /\ task'[t] \in {"ended", "fetching"}
      /\ \A u \in Tasks : u # t => task'[u] = task[u] /\ batch'[u] = batch[u]
      /\ batch[t] = <<>> /\ batch'[t] = b
  BY DEF Takes, BatchInv, BatchTypes, ListsInv
<1>4. \A u \in Tasks : EngineOf(u)' = EngineOf(u)  BY DEF EngineOf
<1>5. Added' = Added  BY <1>3 DEF Added
<1>6. b = pending[e][k]  BY DEF Batch
<1> HIDE DEF b
<1>7. \A u \in Tasks : Has(b, u) => Fits(u, e, k)
  BY <1>1, <1>6 DEF BatchInv, ListsInv
<1>8. ListsInv'
  <2>0. \A u \in Tasks : \A f, l : Fits(u, f, l) => Fits(u, f, l)'
    BY <1>4, <1>5 DEF Fits
  <2>1. ASSUME NEW f \in Instances, NEW l \in Keys, NEW u \in Tasks, Has(pending'[f][l], u)
        PROVE  Fits(u, f, l)'
    <3>1. f # e \/ l # k  BY <1>2, <2>1, NoEntries
    <3>2. Has(pending[f][l], u)  BY <1>2, <2>1, <3>1
    <3> QED  BY <2>0, <3>2 DEF BatchInv, ListsInv
  <2>2. \A v, u \in Tasks : Has(batch'[v], u) => Fits(u, EngineOf(v), KeyOf[v])'
    BY <1>3, <1>4, <1>7, <2>0 DEF BatchInv, ListsInv
  <2>3. \A u \in Tasks : task'[u] \in {"idle", "left", "sleeping"} => batch'[u] = <<>>
    BY <1>3 DEF BatchInv, ListsInv
  <2> QED  BY <2>1, <2>2, <2>3 DEF ListsInv
<1>9. SleepersInv'
  <2>1. ASSUME NEW f \in Instances, NEW l \in Keys PROVE OneSleeper(f, l)'
    <3>0. OneSleeper(f, l)  BY DEF BatchInv, SleepersInv
    <3>1. CASE f = e /\ l = k
      <4>1. t \in Sleepers(e, k)  BY <1>3 DEF Sleepers
      <4>2. Sleepers(e, k) = {t}  BY <3>0, <3>1, <4>1 DEF OneSleeper
      <4>3. Sleepers(e, k)' = {}  BY <1>3, <1>4, <4>2 DEF Sleepers
      <4> QED  BY <1>2, <3>1, <4>3 DEF OneSleeper
    <3>2. CASE f # e \/ l # k
      <4>1. Sleepers(f, l)' = Sleepers(f, l)
        BY <1>3, <1>4, <3>2 DEF Sleepers
      <4> QED  BY <1>2, <3>0, <3>2, <4>1 DEF OneSleeper
    <3> QED  BY <3>1, <3>2
  <2> QED  BY <2>1 DEF SleepersInv
<1>10. PlacesInv'
  <2>1. ASSUME NEW u \in Added PROVE InOne(u)'
    <3>1. u \in Tasks /\ InOne(u)  BY DEF BatchInv, PlacesInv, Added
    <3>2. Taken(u)' = IF Has(b, u) THEN Taken(u) \cup {t} ELSE Taken(u)
      <4>1. t \notin Taken(u)  BY <1>3, NoEntries DEF Taken
      <4>2. \A v \in Tasks : v # t => (v \in Taken(u)' <=> v \in Taken(u))
        BY <1>3 DEF Taken
      <4>3. t \in Taken(u)' <=> Has(b, u)  BY <1>3 DEF Taken
      <4>4. Taken(u) \subseteq Tasks /\ Taken(u)' \subseteq Tasks  BY DEF Taken
      <4> QED  BY <4>1, <4>2, <4>3, <4>4
    <3>3. CASE Has(b, u)
      <4>1. Batch(u) = b /\ Batch(u)' = <<>>
        BY <1>2, <1>4, <1>6, <1>7, <3>1, <3>3 DEF Batch, Fits
      <4>2. Once(b, u) /\ Taken(u) = {}  BY <3>1, <3>3, <4>1 DEF InOne
      <4>3. Taken(u)' = {t}  BY <3>2, <3>3, <4>2
      <4> QED  BY <1>3, <4>1, <4>2, <4>3, NoEntries DEF InOne
    <3>4. CASE ~Has(b, u)
      <4>1. Taken(u)' = Taken(u)  BY <3>2, <3>4
      <4>2. t \notin Taken(u)  BY <1>3, NoEntries DEF Taken
      <4>3. CASE Once(Batch(u), u) /\ Taken(u) = {}
        <5>1. Has(Batch(u), u)  BY <4>3, OnceIn
        <5>2. EngineOf(u) # e \/ KeyOf[u] # k  BY <1>6, <3>4, <5>1 DEF Batch
        <5>3. Batch(u)' = Batch(u)  BY <1>2, <1>4, <3>1, <5>2, PlaceOf DEF Batch
        <5> QED  BY <4>1, <4>3, <5>3 DEF InOne
      <4>4. ASSUME ~Has(Batch(u), u), NEW v \in Tasks, Taken(u) = {v}, Once(batch[v], u)
            PROVE  InOne(u)'
        <5>1. v # t /\ batch'[v] = batch[v]  BY <1>3, <4>2, <4>4
        <5>2. Batch(u)' = <<>> \/ Batch(u)' = Batch(u)
          BY <1>2, <1>4, <3>1, PlaceOf DEF Batch
        <5>3. ~Has(Batch(u)', u)  BY <4>4, <5>2, NoEntries
        <5> QED  BY <4>1, <4>4, <5>1, <5>3 DEF InOne
      <4> QED  BY <3>1, <4>3, <4>4 DEF InOne
    <3> QED  BY <3>3, <3>4
  <2> QED  BY <1>5, <2>1 DEF PlacesInv
<1> QED  BY <1>8, <1>9, <1>10

LEMMA GoesOnStep ==
    ASSUME BatchInv, instance' = instance, GoesOn
    PROVE  ListsInv' /\ SleepersInv' /\ PlacesInv'
<1>1. \A u \in Tasks : /\ task'[u] = "idle" <=> task[u] = "idle"
                       /\ task'[u] = "sleeping" <=> task[u] = "sleeping"
                       /\ task'[u] \in {"idle", "left", "sleeping"} => task'[u] = task[u]
  BY DEF GoesOn, Early
<1>2. Added' = Added /\ \A e, k : Sleepers(e, k)' = Sleepers(e, k)
  BY <1>1 DEF Added, Sleepers, EngineOf
<1>3. pending' = pending /\ batch' = batch  BY DEF GoesOn
<1>4. ListsInv'  BY <1>1, <1>2, <1>3 DEF BatchInv, ListsInv, Fits, EngineOf
<1>5. SleepersInv'  BY <1>2, <1>3 DEF BatchInv, SleepersInv, OneSleeper
<1>6. PlacesInv'
  <2>1. \A t : Batch(t)' = Batch(t) /\ Taken(t)' = Taken(t)
    BY <1>3 DEF Batch, Taken, EngineOf
  <2> QED  BY <1>2, <1>3, <2>1 DEF BatchInv, PlacesInv, InOne
<1> QED  BY <1>4, <1>5, <1>6

LEMMA BatchStep == AuthTypeOK /\ BatchInv /\ [Next]_vars => BatchInv'
<1> SUFFICES ASSUME AuthTypeOK, BatchInv, [Next]_vars PROVE BatchInv'  OBVIOUS
<1>1. BatchTypes'  BY BatchTypesStep DEF BatchInv
<1>2. instance' = instance  BY InstanceSame
<1>3. (\E t \in Tasks : Puts(t) \/ Takes(t)) \/ GoesOn  BY ListSteps DEF BatchInv
<1>4. ListsInv' /\ SleepersInv' /\ PlacesInv'
  BY <1>2, <1>3, PutsStep, TakesStep, GoesOnStep
<1> QED  BY <1>1, <1>4 DEF BatchInv

\* For all tasks, keys and ranges, and any sharing of engines (review.rs:162,
\* 190; github.rs:336-346): every entry is in one list, once, a pending list
\* has one task that waits for it, and a list never mixes keys or engines, so
\* that a task with an engine of its own gets nobody else's entry.  Nothing
\* is said of commits: entries may have equal ranges.
THEOREM BatchEntryInOneBatch == Spec => []EntryInOneBatch
<1>1. BatchInv => EntryInOneBatch
  <2>1. \A t : Cardinality({t}) = 1  BY FS_Singleton
  <2>2. Cardinality({}) = 0  BY FS_EmptySet
  <2>3. BatchInv => \A e \in Instances, k \in Keys :
          Cardinality(Sleepers(e, k)) = (IF pending[e][k] = <<>> THEN 0 ELSE 1)
    <3> SUFFICES ASSUME BatchInv, NEW e \in Instances, NEW k \in Keys
                 PROVE  Cardinality(Sleepers(e, k)) = (IF pending[e][k] = <<>> THEN 0 ELSE 1)
      OBVIOUS
    <3>1. OneSleeper(e, k)  BY DEF BatchInv, SleepersInv
    <3> QED  BY <2>1, <2>2, <3>1 DEF OneSleeper
  <2>4. BatchInv => \A t, u \in Tasks :
          Has(batch[t], u) => EngineOf(u) = EngineOf(t) /\ KeyOf[u] = KeyOf[t]
    BY DEF BatchInv, ListsInv, Fits
  <2> QED  BY <2>3, <2>4 DEF BatchInv, PlacesInv, InOne, EntryInOneBatch
<1>2. AuthInv => AuthTypeOK  BY DEF AuthInv
<1>3. Init => BatchInv  BY BatchTypesInit, BatchInit DEF BatchInv
<1> QED  BY <1>1, <1>2, <1>3, AuthInvInit, AuthInvStep, BatchStep, PTL DEF Spec
===============================================================================
