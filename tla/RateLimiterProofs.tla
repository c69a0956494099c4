--------------------------- MODULE RateLimiterProofs ---------------------------
(***************************************************************************)
(* Proofs that the limiter keeps its limit for every set of calls and      *)
(* clients, every max_requests and every window.                           *)
(***************************************************************************)
EXTENDS RateLimiter, TLAPS, FiniteSetTheorems

USE LimiterAssumption

\* A part of a set of calls is finite and not larger than the set.
LEMMA CallSets ==
    ASSUME NEW T, T \subseteq Calls, NEW S, S \subseteq T
    PROVE  /\ IsFiniteSet(S) /\ IsFiniteSet(T)
           /\ Cardinality(S) \in Nat /\ Cardinality(T) \in Nat
           /\ Cardinality(S) <= Cardinality(T)
<1>1. IsFiniteSet(T)
  BY FS_Subset
<1>2. IsFiniteSet(S) /\ Cardinality(S) <= Cardinality(T)
  BY <1>1, FS_Subset
<1> QED BY <1>1, <1>2, FS_CardinalityType

\* Admitting into a list that is not full keeps it within the limit.
LEMMA AdmitOne ==
    ASSUME NEW T, T \subseteq Calls, NEW c \in Calls,
           ~(Cardinality(T) >= MaxRequests)
    PROVE  Cardinality(T \cup {c}) <= MaxRequests
<1>1. IsFiniteSet(T) /\ Cardinality(T) \in Nat
  BY CallSets
<1>2. Cardinality(T \cup {c}) = IF c \in T THEN Cardinality(T) ELSE Cardinality(T) + 1
  BY <1>1, FS_AddElement
<1> QED BY <1>1, <1>2

LEMMA EmptyFits == Cardinality({}) = 0 /\ 0 <= MaxRequests
BY FS_EmptySet
-------------------------------------------------------------------------------
LEMMA TypeInit == Init => TypeOK
BY DEF Init, TypeOK, CallStates

LEMMA TypeStep == TypeOK /\ [Next]_vars => TypeOK'
<1> SUFFICES ASSUME TypeOK, [Next]_vars PROVE TypeOK'
  OBVIOUS
<1> USE DEF TypeOK
<1>1. CASE Tick
  BY <1>1 DEF Tick
<1>2. ASSUME NEW c \in Calls, Arrive(c) PROVE TypeOK'
  BY <1>2 DEF Arrive, CallStates
<1>3. ASSUME NEW c \in Calls, Decide(c) PROVE TypeOK'
  BY <1>3 DEF Decide, Retained, Later, CallStates
<1>4. CASE CleanupStart
  BY <1>4 DEF CleanupStart
<1>5. CASE CleanupRun
  <2>1. inOrder' \in [Keys -> BOOLEAN]
    BY <1>5, Zenon DEF CleanupRun
  <2>2. cleaner \in Nat
    BY <1>5 DEF CleanupRun
  <2>3. horizon' \in [Keys -> Nat]
    BY <1>5, <2>2 DEF CleanupRun, Later
  <2>4. store' \in [Keys -> SUBSET Calls] /\ entries' \subseteq Keys
    BY <1>5 DEF CleanupRun, Retained
  <2>5. cleaner' = NotWaiting /\ UNCHANGED <<clock, pc, stamp, counter>>
    BY <1>5 DEF CleanupRun
  <2> QED BY <2>1, <2>3, <2>4, <2>5
<1>6. ASSUME NEW k \in Keys, CountStart(k) PROVE TypeOK'
  BY <1>6 DEF CountStart
<1>7. ASSUME NEW k \in Keys, CountRun(k) PROVE TypeOK'
  <2>1. inOrder' \in [Keys -> BOOLEAN]
    BY <1>7, Zenon DEF CountRun
  <2>2. counter[k] \in Nat
    BY <1>7 DEF CountRun
  <2>3. horizon' \in [Keys -> Nat]
    BY <1>7, <2>2 DEF CountRun, Later
  <2>4. store' \in [Keys -> SUBSET Calls] /\ counter' \in [Keys -> Nat \cup {NotWaiting}]
    BY <1>7 DEF CountRun, Retained
  <2>5. UNCHANGED <<clock, pc, stamp, entries, cleaner>>
    BY <1>7 DEF CountRun
  <2> QED BY <2>1, <2>3, <2>4, <2>5
<1>8. CASE UNCHANGED vars
  BY <1>8 DEF vars
<1> QED BY <1>1, <1>2, <1>3, <1>4, <1>5, <1>6, <1>7, <1>8 DEF Next

\* Every variable of the limiter keeps its type.
THEOREM LimiterTypes == Spec => []TypeOK
<1> QED BY TypeInit, TypeStep, PTL DEF Spec
-------------------------------------------------------------------------------
(* The lists *)

\* What one key owes the invariant.
StoreKey(k) ==
    /\ store[k] \subseteq Admitted(k)
    /\ k \notin entries => store[k] = {}
    /\ Cardinality(store[k]) <= MaxRequests
    /\ \A c \in Admitted(k) : Fresh(horizon[k], stamp[c]) => c \in store[k]
    /\ inOrder[k] => \A c \in Admitted(k) : stamp[c] <= horizon[k]

LEMMA StoreInit == Init => StoreOK
BY EmptyFits DEF Init, StoreOK, Admitted, CallsOf

\* Pruning k's list at time t keeps what one key owes, if nothing is admitted.
LEMMA PruneKeeps ==
    ASSUME TypeOK, NEW k \in Keys, NEW t \in Nat, StoreKey(k),
           Admitted(k)' = Admitted(k), UNCHANGED stamp,
           store'[k] = Retained(k, t),
           horizon'[k] = Later(horizon[k], t),
           inOrder'[k] => inOrder[k],
           k \notin entries' => store'[k] = {}
    PROVE  StoreKey(k)'
<1>t. /\ horizon[k] \in Nat /\ stamp \in [Calls -> Nat] /\ Admitted(k) \subseteq Calls
  BY DEF TypeOK, Admitted, CallsOf
<1>1. store'[k] \subseteq store[k] /\ store[k] \subseteq Calls
  BY <1>t DEF Retained, StoreKey
<1>2. Cardinality(store'[k]) <= MaxRequests
  <2>1. /\ Cardinality(store'[k]) <= Cardinality(store[k])
        /\ Cardinality(store'[k]) \in Nat /\ Cardinality(store[k]) \in Nat
    BY <1>1, CallSets
  <2> QED BY <2>1 DEF StoreKey
<1>3. ASSUME NEW c \in Admitted(k), Fresh(Later(horizon[k], t), stamp[c])
      PROVE  c \in Retained(k, t)
  <2>1. Fresh(horizon[k], stamp[c]) /\ Fresh(t, stamp[c])
    BY <1>t, <1>3 DEF Fresh, Later
  <2> QED BY <2>1 DEF StoreKey, Retained
<1>4. horizon[k] <= Later(horizon[k], t)
  BY <1>t DEF Later
<1>5. inOrder'[k] => \A c \in Admitted(k) : stamp[c] <= horizon'[k]
  BY <1>t, <1>4 DEF StoreKey, Later
<1> QED BY <1>1, <1>2, <1>3, <1>5 DEF StoreKey

LEMMA StoreStep == TypeOK /\ StoreOK /\ [Next]_vars => StoreOK'
<1> SUFFICES ASSUME TypeOK, StoreOK, [Next]_vars, NEW k \in Keys
             PROVE  StoreKey(k)'
  BY DEF StoreOK, StoreKey
<1>k. StoreKey(k)
  BY DEF StoreOK, StoreKey
<1>t. /\ horizon \in [Keys -> Nat] /\ stamp \in [Calls -> Nat]
      /\ pc \in [Calls -> CallStates] /\ inOrder \in [Keys -> BOOLEAN]
      /\ store \in [Keys -> SUBSET Calls] /\ entries \subseteq Keys
  BY DEF TypeOK
<1>u. ASSUME UNCHANGED <<pc, stamp, entries, store, horizon, inOrder>>
      PROVE  StoreKey(k)'
  BY <1>k, <1>u DEF StoreKey, Admitted
<1>1. CASE Tick \/ CleanupStart
  BY <1>1, <1>u DEF Tick, CleanupStart
<1>2. ASSUME NEW c \in Calls, Arrive(c) PROVE StoreKey(k)'
  <2>1. Admitted(k)' = Admitted(k) /\ c \notin Admitted(k)
    BY <1>2, <1>t DEF Arrive, Admitted, CallsOf
  <2>2. \A d \in Admitted(k) : stamp'[d] = stamp[d]
    BY <1>2, <1>t, <2>1 DEF Arrive, Admitted, CallsOf
  <2>3. UNCHANGED <<entries, store, horizon, inOrder>>
    BY <1>2 DEF Arrive
  <2> QED BY <1>k, <2>1, <2>2, <2>3 DEF StoreKey
<1>3. ASSUME NEW c \in Calls, Decide(c) PROVE StoreKey(k)'
  <2>0. /\ pc[c] = "stamped" /\ UNCHANGED stamp
        /\ entries' = entries \cup {KeyOf[c]}
        /\ KeyOf[c] \in Keys /\ stamp[c] \in Nat
    BY <1>3, <1>t DEF Decide
  <2>1. CASE KeyOf[c] # k
    <3>1. Admitted(k)' = Admitted(k)
      BY <1>3, <1>t, <2>1 DEF Decide, Admitted, CallsOf
    <3>2. /\ store'[k] = store[k] /\ horizon'[k] = horizon[k]
          /\ inOrder'[k] = inOrder[k] /\ (k \in entries' <=> k \in entries)
      BY <1>3, <1>t, <2>0, <2>1 DEF Decide
    <3> QED BY <1>k, <2>0, <3>1, <3>2 DEF StoreKey
  <2>2. CASE KeyOf[c] = k
    <3> DEFINE kept == Retained(k, stamp[c])
               full == Cardinality(kept) >= MaxRequests
    <3>1. /\ store'[k] = IF full THEN kept ELSE kept \cup {c}
          /\ pc' = [pc EXCEPT ![c] = IF full THEN "denied" ELSE "allowed"]
          /\ horizon'[k] = Later(horizon[k], stamp[c])
          /\ inOrder'[k] => inOrder[k] /\ horizon[k] <= stamp[c]
          /\ k \in entries'
      BY <1>3, <1>t, <2>0, <2>2 DEF Decide
    <3>2. CASE full
      <4>1. Admitted(k)' = Admitted(k)
        BY <1>t, <2>0, <3>1, <3>2 DEF Admitted, CallsOf
      <4> QED BY <1>k, <2>0, <3>1, <3>2, <4>1, PruneKeeps
    <3>3. CASE ~full
      <4>1. Admitted(k)' = Admitted(k) \cup {c}
        BY <1>t, <2>0, <2>2, <3>1, <3>3 DEF Admitted, CallsOf
      <4>2. kept \subseteq Calls /\ kept \subseteq Admitted(k)
        BY <1>k, <1>t DEF Retained, StoreKey
      <4>3. Cardinality(store'[k]) <= MaxRequests
        <5>1. Cardinality(kept \cup {c}) <= MaxRequests
          <6> HIDE DEF kept
          <6> QED BY <3>3, <4>2, AdmitOne
        <5> QED BY <3>1, <3>3, <5>1
      <4>4. ASSUME NEW d \in Admitted(k)', Fresh(horizon'[k], stamp'[d])
            PROVE  d \in store'[k]
        <5>1. CASE d = c
          BY <3>1, <3>3, <5>1
        <5>2. CASE d # c
          <6>1. d \in Admitted(k) /\ stamp[d] \in Nat
            BY <1>t, <4>1, <5>2 DEF Admitted, CallsOf
          <6>2. Fresh(horizon[k], stamp[d]) /\ Fresh(stamp[c], stamp[d])
            BY <1>t, <2>0, <3>1, <4>4, <6>1 DEF Fresh, Later
          <6>3. d \in kept
            BY <1>k, <6>1, <6>2 DEF StoreKey, Retained
          <6> QED BY <3>1, <3>3, <6>3
        <5> QED BY <5>1, <5>2
      <4>5. ASSUME inOrder'[k], NEW d \in Admitted(k)'
            PROVE  stamp'[d] <= horizon'[k]
        <5>1. inOrder[k] /\ horizon'[k] = stamp[c] /\ horizon[k] <= stamp[c]
          BY <1>t, <2>0, <3>1, <4>5 DEF Later
        <5>2. CASE d = c
          BY <2>0, <5>1, <5>2
        <5>3. CASE d # c
          <6>1. d \in Admitted(k) /\ stamp[d] \in Nat
            BY <1>t, <4>1, <5>3 DEF Admitted, CallsOf
          <6>2. stamp[d] <= horizon[k]
            BY <1>k, <5>1, <6>1 DEF StoreKey
          <6> QED BY <1>t, <2>0, <5>1, <6>1, <6>2
        <5> QED BY <5>2, <5>3
      <4> QED BY <3>1, <3>3, <4>1, <4>2, <4>3, <4>4, <4>5 DEF StoreKey
    <3> QED BY <3>2, <3>3
  <2> QED BY <2>1, <2>2
<1>4. CASE CleanupRun
  <2>1. /\ cleaner \in Nat /\ Admitted(k)' = Admitted(k) /\ UNCHANGED stamp
        /\ store'[k] = Retained(k, cleaner)
        /\ inOrder'[k] => inOrder[k]
    BY <1>4 DEF CleanupRun, TypeOK, Admitted
  <2>2. CASE k \in entries
    <3>1. /\ horizon'[k] = Later(horizon[k], cleaner)
          /\ k \notin entries' => store'[k] = {}
      BY <1>4, <2>1, <2>2 DEF CleanupRun
    <3> QED BY <1>k, <2>1, <3>1, PruneKeeps
  <2>3. CASE k \notin entries
    <3>1. /\ horizon'[k] = horizon[k] /\ k \notin entries'
          /\ store[k] = {} /\ store'[k] = {}
      BY <1>4, <1>k, <2>1, <2>3 DEF CleanupRun, StoreKey, Retained
    <3> QED BY <1>k, <2>1, <3>1 DEF StoreKey
  <2> QED BY <2>2, <2>3
<1>5. ASSUME NEW j \in Keys, CountStart(j) PROVE StoreKey(k)'
  BY <1>5, <1>u DEF CountStart
<1>6. ASSUME NEW j \in Keys, CountRun(j) PROVE StoreKey(k)'
  <2>1. CASE j \in entries /\ j = k
    <3>1. /\ counter[k] \in Nat /\ Admitted(k)' = Admitted(k) /\ UNCHANGED stamp
          /\ store'[k] = Retained(k, counter[k])
          /\ horizon'[k] = Later(horizon[k], counter[k])
          /\ inOrder'[k] => inOrder[k]
          /\ k \in entries'
      BY <1>6, <2>1 DEF CountRun, TypeOK, Admitted
    <3> QED BY <1>k, <3>1, PruneKeeps
  <2>2. CASE j \in entries /\ j # k
    <3>1. /\ store'[k] = store[k] /\ horizon'[k] = horizon[k]
          /\ inOrder'[k] = inOrder[k]
          /\ Admitted(k)' = Admitted(k) /\ UNCHANGED <<stamp, entries>>
      BY <1>6, <1>t, <2>2 DEF CountRun, Admitted
    <3> QED BY <1>k, <3>1 DEF StoreKey
  <2>3. CASE j \notin entries
    BY <1>6, <1>u, <2>3 DEF CountRun
  <2> QED BY <2>1, <2>2, <2>3
<1>7. CASE UNCHANGED vars
  BY <1>7, <1>u DEF vars
<1> QED BY <1>1, <1>2, <1>3, <1>4, <1>5, <1>6, <1>7 DEF Next

\* The calls of a client admitted within the window of the latest pruning are
\* never more than max_requests, in whatever order calls, counts and cleanups
\* get the mutex: they are all still in the client's list.
THEOREM LimiterWithinLimit == Spec => []WithinLimit
<1>1. Init => TypeOK /\ StoreOK
  BY TypeInit, StoreInit
<1>2. TypeOK /\ StoreOK /\ [Next]_vars => (TypeOK /\ StoreOK)'
  BY TypeStep, StoreStep
<1>3. TypeOK /\ StoreOK => WithinLimit
  <2> SUFFICES ASSUME TypeOK, StoreOK, NEW k \in Keys
               PROVE  Cardinality({c \in Admitted(k) : Fresh(horizon[k], stamp[c])})
                        <= MaxRequests
    BY DEF WithinLimit
  <2> DEFINE F == {c \in Admitted(k) : Fresh(horizon[k], stamp[c])}
  <2>1. /\ F \subseteq store[k] /\ store[k] \subseteq Calls
        /\ Cardinality(store[k]) <= MaxRequests
    BY DEF StoreOK, TypeOK
  <2> HIDE DEF F
  <2>2. /\ Cardinality(F) <= Cardinality(store[k])
        /\ Cardinality(F) \in Nat /\ Cardinality(store[k]) \in Nat
    BY <2>1, CallSets
  <2>3. Cardinality(F) <= MaxRequests
    BY <2>1, <2>2
  <2> QED BY <2>3 DEF F
<1> QED BY <1>1, <1>2, <1>3, PTL DEF Spec
-------------------------------------------------------------------------------
(* Windows *)

\* The admitted calls of k in the window that ends with c's stamp.
Recent(k, c) == {d \in Admitted(k) : /\ stamp[d] <= stamp[c]
                                     /\ stamp[c] - stamp[d] < Window}

\* Admitting c in time order: the window ending with c holds c and kept calls.
LEMMA WindowStep ==
    TypeOK /\ StoreOK /\ WindowLimitInOrder /\ [Next]_vars => WindowLimitInOrder'
<1> SUFFICES ASSUME TypeOK, StoreOK, WindowLimitInOrder, [Next]_vars,
                    NEW k \in Keys, inOrder'[k]
             PROVE  WindowLimit(k)'
  BY DEF WindowLimitInOrder
<1>t. /\ horizon \in [Keys -> Nat] /\ stamp \in [Calls -> Nat]
      /\ pc \in [Calls -> CallStates] /\ inOrder \in [Keys -> BOOLEAN]
      /\ store \in [Keys -> SUBSET Calls] /\ Admitted(k) \subseteq Calls
  BY DEF TypeOK, Admitted, CallsOf
<1>s. /\ store[k] \subseteq Admitted(k)
      /\ \A c \in Admitted(k) : Fresh(horizon[k], stamp[c]) => c \in store[k]
      /\ inOrder[k] => \A c \in Admitted(k) : stamp[c] <= horizon[k]
  BY DEF StoreOK
<1>u. ASSUME Admitted(k)' = Admitted(k), inOrder[k],
             \A d \in Admitted(k) : stamp'[d] = stamp[d]
      PROVE  WindowLimit(k)'
  <2>1. \A c \in Admitted(k) : Cardinality(Recent(k, c)) <= MaxRequests
    BY <1>u DEF WindowLimitInOrder, WindowLimit, Recent
  <2>2. \A c \in Admitted(k) : Recent(k, c)' = Recent(k, c)
    BY <1>u DEF Recent
  <2> QED BY <1>u, <2>1, <2>2 DEF WindowLimit, Recent
<1>1. CASE Tick \/ CleanupStart
  BY <1>1, <1>u DEF Tick, CleanupStart, Admitted
<1>2. ASSUME NEW c \in Calls, Arrive(c) PROVE WindowLimit(k)'
  <2>1. Admitted(k)' = Admitted(k) /\ c \notin Admitted(k)
    BY <1>2, <1>t DEF Arrive, Admitted, CallsOf
  <2>2. \A d \in Admitted(k) : stamp'[d] = stamp[d]
    BY <1>2, <1>t, <2>1 DEF Arrive
  <2>3. inOrder[k]
    BY <1>2 DEF Arrive
  <2> QED BY <1>u, <2>1, <2>2, <2>3
<1>3. ASSUME NEW c \in Calls, Decide(c) PROVE WindowLimit(k)'
  <2>0. pc[c] = "stamped" /\ UNCHANGED stamp /\ stamp[c] \in Nat
    BY <1>3, <1>t DEF Decide
  <2>1. CASE Admitted(k)' = Admitted(k)
    <3>1. inOrder[k]
      BY <1>3, <1>t DEF Decide
    <3> QED BY <1>u, <2>0, <2>1, <3>1
  <2>2. CASE Admitted(k)' # Admitted(k)
    <3> DEFINE kept == Retained(k, stamp[c])
    <3>1. KeyOf[c] = k /\ ~(Cardinality(kept) >= MaxRequests)
      BY <1>3, <1>t, <2>0, <2>2 DEF Decide, Admitted, CallsOf
    <3>2. Admitted(k)' = Admitted(k) \cup {c}
      BY <1>3, <1>t, <2>0, <3>1 DEF Decide, Admitted, CallsOf
    <3>3. inOrder[k] /\ horizon[k] <= stamp[c]
      BY <1>3, <1>t, <3>1 DEF Decide
    <3>4. \A d \in Admitted(k) : /\ stamp[d] \in Nat /\ stamp[d] <= stamp[c]
                                  /\ stamp[d] <= horizon[k]
      BY <1>t, <1>s, <2>0, <3>3
    <3>5. ASSUME NEW d \in Admitted(k), stamp[c] - stamp[d] < Window
          PROVE  d \in kept
      <4>1. Fresh(horizon[k], stamp[d]) /\ Fresh(stamp[c], stamp[d])
        BY <1>t, <2>0, <3>3, <3>4, <3>5 DEF Fresh
      <4> QED BY <1>s, <4>1 DEF Retained
    <3>6. kept \subseteq Calls /\ Cardinality(kept \cup {c}) <= MaxRequests
      <4>1. kept \subseteq Calls
        BY <1>t DEF Retained
      <4> HIDE DEF kept
      <4> QED BY <3>1, <4>1, AdmitOne
    <3>7. ASSUME NEW e \in Admitted(k)', stamp[e] = stamp[c]
          PROVE  Cardinality(Recent(k, e)') <= MaxRequests
      <4>1. Recent(k, e)' \subseteq kept \cup {c}
        BY <1>t, <2>0, <3>2, <3>5, <3>7 DEF Recent
      <4> HIDE DEF kept
      <4>2. kept \cup {c} \subseteq Calls
        BY <3>6
      <4>3. /\ Cardinality(Recent(k, e)') <= Cardinality(kept \cup {c})
            /\ Cardinality(Recent(k, e)') \in Nat
            /\ Cardinality(kept \cup {c}) \in Nat
        BY <4>1, <4>2, CallSets
      <4> QED BY <3>6, <4>3
    <3>8. ASSUME NEW e \in Admitted(k)', stamp[e] # stamp[c]
          PROVE  Cardinality(Recent(k, e)') <= MaxRequests
      <4>1. e \in Admitted(k) /\ stamp[e] < stamp[c]
        BY <2>0, <3>2, <3>4, <3>8
      <4>2. Recent(k, e)' = Recent(k, e)
        BY <1>t, <2>0, <3>2, <3>4, <4>1 DEF Recent
      <4>3. Cardinality(Recent(k, e)) <= MaxRequests
        BY <3>3, <4>1 DEF WindowLimitInOrder, WindowLimit, Recent
      <4> QED BY <4>2, <4>3
    <3> QED BY <3>7, <3>8 DEF WindowLimit, Recent
  <2> QED BY <2>1, <2>2
<1>4. CASE CleanupRun
  BY <1>4, <1>u DEF CleanupRun, Admitted
<1>5. ASSUME NEW j \in Keys, CountStart(j) PROVE WindowLimit(k)'
  BY <1>5, <1>u DEF CountStart, Admitted
<1>6. ASSUME NEW j \in Keys, CountRun(j) PROVE WindowLimit(k)'
  <2>1. UNCHANGED <<pc, stamp>> /\ inOrder[k]
    BY <1>6, <1>t DEF CountRun
  <2> QED BY <1>u, <2>1 DEF Admitted
<1>7. CASE UNCHANGED vars
  BY <1>7, <1>u DEF vars, Admitted
<1> QED BY <1>1, <1>2, <1>3, <1>4, <1>5, <1>6, <1>7 DEF Next

\* A client whose list was always pruned in time order has no more than
\* max_requests admitted calls in any window of the configured length.
THEOREM LimiterWindowInOrder == Spec => []WindowLimitInOrder
<1>1. Init => TypeOK /\ StoreOK /\ WindowLimitInOrder
  <2>1. Init => WindowLimitInOrder
    BY DEF Init, WindowLimitInOrder, WindowLimit, Admitted, CallsOf
  <2> QED BY <2>1, TypeInit, StoreInit
<1>2. TypeOK /\ StoreOK /\ WindowLimitInOrder /\ [Next]_vars
        => (TypeOK /\ StoreOK /\ WindowLimitInOrder)'
  BY TypeStep, StoreStep, WindowStep
<1> QED BY <1>1, <1>2, PTL DEF Spec
-------------------------------------------------------------------------------
(* Refusals *)

\* One step: the list that is full holds admitted calls within the window.
LEMMA DenyStep ==
    ASSUME TypeOK, StoreOK, [Next]_vars, NEW c \in Calls,
           pc[c] = "stamped", pc'[c] = "denied"
    PROVE  Cardinality({d \in Admitted(KeyOf[c]) : Fresh(stamp[c], stamp[d])})
             >= MaxRequests
<1> DEFINE k == KeyOf[c]
           kept == Retained(k, stamp[c])
           F == {d \in Admitted(k) : Fresh(stamp[c], stamp[d])}
<1>1. pc \in [Calls -> CallStates] /\ k \in Keys /\ Admitted(k) \subseteq Calls
  BY DEF TypeOK, Admitted, CallsOf
<1>2. Decide(c)
  <2>1. ASSUME NEW e \in Calls, Arrive(e) PROVE FALSE
    BY <1>1, <2>1 DEF Arrive
  <2>2. ASSUME NEW e \in Calls, Decide(e) PROVE e = c
    BY <1>1, <2>2 DEF Decide
  <2>3. ASSUME UNCHANGED pc PROVE FALSE
    BY <2>3
  <2> QED BY <2>1, <2>2, <2>3
          DEF Next, vars, Tick, CleanupStart, CleanupRun, CountStart, CountRun
<1>3. Cardinality(kept) >= MaxRequests
  BY <1>1, <1>2 DEF Decide
<1>4. kept \subseteq F /\ F \subseteq Calls
  BY <1>1 DEF StoreOK, Retained
<1> HIDE DEF F, kept
<1>5. /\ Cardinality(kept) <= Cardinality(F)
      /\ Cardinality(kept) \in Nat /\ Cardinality(F) \in Nat
  BY <1>4, CallSets
<1>6. Cardinality(F) >= MaxRequests
  BY <1>3, <1>5
<1> QED BY <1>6 DEF F

\* A call is refused only if max_requests admitted calls of the same client
\* are still in the window at its stamp, in whatever order the mutex is granted.
THEOREM LimiterDeniedOnlyAtLimit == Spec => DeniedOnlyAtLimit
<1>1. Init => TypeOK /\ StoreOK
  BY TypeInit, StoreInit
<1>2. TypeOK /\ StoreOK /\ [Next]_vars => (TypeOK /\ StoreOK)'
  BY TypeStep, StoreStep
<1>3. TypeOK /\ StoreOK /\ [Next]_vars
        => [\A c \in Calls :
              (pc[c] = "stamped" /\ pc'[c] = "denied") =>
                Cardinality({d \in Admitted(KeyOf[c]) : Fresh(stamp[c], stamp[d])})
                  >= MaxRequests]_vars
  BY DenyStep
<1> QED BY <1>1, <1>2, <1>3, PTL DEF Spec, DeniedOnlyAtLimit
===============================================================================
