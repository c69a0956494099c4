------------------------------ MODULE RateLimiter ------------------------------
(***************************************************************************)
(* The sliding-window limiter of src/src/rate_limit.rs.                    *)
(*                                                                         *)
(* is_allowed, count and cleanup each read the clock first and take the    *)
(* mutex of the store afterwards; other calls may read a later clock and   *)
(* take the mutex earlier.  So each is two actions: one that stamps the    *)
(* call and one that runs under the mutex with that stamp.                 *)
(*                                                                         *)
(* A Vec<Instant> is the set of the admitted calls that pushed its         *)
(* elements; the element a call pushed is stamp[c].                        *)
(***************************************************************************)
EXTENDS Integers, FiniteSets

CONSTANTS Calls,        \* the calls of is_allowed
          Keys,         \* client addresses
          KeyOf,        \* the client of each call
          Counted,      \* the clients some caller asks count about
          MaxRequests,  \* max_requests
          Window,       \* window, in ticks
          LastArrival,  \* bound: calls arrive up to this time
          MaxTime       \* bound: the clock stops here

ASSUME LimiterAssumption ==
    /\ IsFiniteSet(Calls)
    /\ KeyOf \in [Calls -> Keys]
    /\ Counted \subseteq Keys
    /\ MaxRequests \in Nat
    /\ Window \in Nat
    /\ LastArrival \in Nat /\ MaxTime \in Nat

VARIABLES
    clock,      \* Instant::now()
    pc,         \* where each call is
    stamp,      \* its local `now`
    entries,    \* the keys of the store
    store,      \* per key, the admitted calls whose timestamp is kept
    cleaner,    \* the cleanup task's `now` while it waits for the mutex
    counter,    \* per key, the `now` of a count(key) waiting for the mutex
    horizon,    \* history: the latest `now` each key's list was pruned with
    inOrder     \* history: the key's list was always pruned in time order

vars == <<clock, pc, stamp, entries, store, cleaner, counter, horizon, inOrder>>

NotWaiting == -1
CallStates == {"idle", "stamped", "allowed", "denied"}
CallsOf(k) == {c \in Calls : KeyOf[c] = k}

\* Mutant of Fresh: the last tick of the window is forgotten.
FreshTooShort(now, t) == (IF t > now THEN 0 ELSE now - t) < Window - 1

\* now.duration_since(t) < window; duration_since is 0 for a later t.
Fresh(now, t) == (IF t > now THEN 0 ELSE now - t) < Window

\* timestamps.retain(...)
Retained(k, now) == {c \in store[k] : Fresh(now, stamp[c])}

Later(s, t) == IF s > t THEN s ELSE t
-------------------------------------------------------------------------------
Init ==
    /\ clock = 0
    /\ pc = [c \in Calls |-> "idle"]
    /\ stamp = [c \in Calls |-> 0]
    /\ entries = {}
    /\ store = [k \in Keys |-> {}]
    /\ cleaner = NotWaiting
    /\ counter = [k \in Keys |-> NotWaiting]
    /\ horizon = [k \in Keys |-> 0]
    /\ inOrder = [k \in Keys |-> TRUE]

Tick ==
    /\ clock < MaxTime
    /\ clock' = clock + 1
    /\ UNCHANGED <<pc, stamp, entries, store, cleaner, counter, horizon, inOrder>>

\* is_allowed, up to store.lock().await
Arrive(c) ==
    /\ pc[c] = "idle"
    /\ clock <= LastArrival
    /\ pc' = [pc EXCEPT ![c] = "stamped"]
    /\ stamp' = [stamp EXCEPT ![c] = clock]
    /\ UNCHANGED <<clock, entries, store, cleaner, counter, horizon, inOrder>>

\* Mutants of Decide: the list is compared after the call was pushed, with >
\* instead of >=; the list is not pruned.
DecideOffByOne(c) ==
    LET k == KeyOf[c]
        kept == Retained(k, stamp[c])
        full == Cardinality(kept) > MaxRequests
    IN  /\ pc[c] = "stamped"
        /\ entries' = entries \cup {k}
        /\ store' = [store EXCEPT ![k] = IF full THEN kept ELSE kept \cup {c}]
        /\ pc' = [pc EXCEPT ![c] = IF full THEN "denied" ELSE "allowed"]
        /\ horizon' = [horizon EXCEPT ![k] = Later(horizon[k], stamp[c])]
        /\ inOrder' = [inOrder EXCEPT ![k] = inOrder[k] /\ horizon[k] <= stamp[c]]
        /\ UNCHANGED <<clock, stamp, cleaner, counter>>

DecideUnpruned(c) ==
    LET k == KeyOf[c]
        full == Cardinality(store[k]) >= MaxRequests
    IN  /\ pc[c] = "stamped"
        /\ entries' = entries \cup {k}
        /\ store' = [store EXCEPT ![k] = IF full THEN store[k] ELSE store[k] \cup {c}]
        /\ pc' = [pc EXCEPT ![c] = IF full THEN "denied" ELSE "allowed"]
        /\ horizon' = [horizon EXCEPT ![k] = Later(horizon[k], stamp[c])]
        /\ inOrder' = [inOrder EXCEPT ![k] = inOrder[k] /\ horizon[k] <= stamp[c]]
        /\ UNCHANGED <<clock, stamp, cleaner, counter>>

\* is_allowed under the mutex: the entry is created, the list pruned, and the
\* call admitted if the list is shorter than max_requests.
Decide(c) ==
    LET k == KeyOf[c]
        kept == Retained(k, stamp[c])
        full == Cardinality(kept) >= MaxRequests
    IN  /\ pc[c] = "stamped"
        /\ entries' = entries \cup {k}
        /\ store' = [store EXCEPT ![k] = IF full THEN kept ELSE kept \cup {c}]
        /\ pc' = [pc EXCEPT ![c] = IF full THEN "denied" ELSE "allowed"]
        /\ horizon' = [horizon EXCEPT ![k] = Later(horizon[k], stamp[c])]
        /\ inOrder' = [inOrder EXCEPT ![k] = inOrder[k] /\ horizon[k] <= stamp[c]]
        /\ UNCHANGED <<clock, stamp, cleaner, counter>>

\* The cleanup task's interval fires (or cleanup is called).
CleanupStart ==
    /\ cleaner = NotWaiting
    /\ cleaner' = clock
    /\ UNCHANGED <<clock, pc, stamp, entries, store, counter, horizon, inOrder>>

\* Mutant of CleanupRun: empty lists stay.
CleanupKeepsKeys ==
    /\ cleaner # NotWaiting
    /\ store' = [k \in Keys |-> Retained(k, cleaner)]
    /\ cleaner' = NotWaiting
    /\ horizon' = [k \in Keys |-> IF k \in entries THEN Later(horizon[k], cleaner)
                                                   ELSE horizon[k]]
    /\ inOrder' = [k \in Keys |-> inOrder[k] /\ (k \in entries => horizon[k] <= cleaner)]
    /\ UNCHANGED <<clock, pc, stamp, counter, entries>>

\* Every list is pruned; keys whose list is empty go.
CleanupRun ==
    /\ cleaner # NotWaiting
    /\ store' = [k \in Keys |-> Retained(k, cleaner)]
    /\ entries' = {k \in entries : Retained(k, cleaner) # {}}
    /\ cleaner' = NotWaiting
    /\ horizon' = [k \in Keys |-> IF k \in entries THEN Later(horizon[k], cleaner)
                                                   ELSE horizon[k]]
    /\ inOrder' = [k \in Keys |-> inOrder[k] /\ (k \in entries => horizon[k] <= cleaner)]
    /\ UNCHANGED <<clock, pc, stamp, counter>>

\* Mutant of CountStart: the cutoff now - window is taken, which lies before
\* the first instant while the process is young.
CountFromCutoff(k) ==
    /\ counter[k] = NotWaiting
    /\ counter' = [counter EXCEPT ![k] = clock - Window]
    /\ UNCHANGED <<clock, pc, stamp, entries, store, cleaner, horizon, inOrder>>

CountStart(k) ==
    /\ counter[k] = NotWaiting
    /\ counter' = [counter EXCEPT ![k] = clock]
    /\ UNCHANGED <<clock, pc, stamp, entries, store, cleaner, horizon, inOrder>>

\* count prunes too, if the key has a list.
CountRun(k) ==
    /\ counter[k] # NotWaiting
    /\ counter' = [counter EXCEPT ![k] = NotWaiting]
    /\ IF k \in entries
       THEN /\ store' = [store EXCEPT ![k] = Retained(k, counter[k])]
            /\ horizon' = [horizon EXCEPT ![k] = Later(horizon[k], counter[k])]
            /\ inOrder' = [inOrder EXCEPT ![k] = inOrder[k] /\ horizon[k] <= counter[k]]
       ELSE UNCHANGED <<store, horizon, inOrder>>
    /\ UNCHANGED <<clock, pc, stamp, entries, cleaner>>

Next ==
    \/ Tick
    \/ \E c \in Calls : Arrive(c) \/ Decide(c)
    \/ CleanupStart \/ CleanupRun
    \/ \E k \in Counted : CountStart(k) \/ CountRun(k)

Spec == Init /\ [][Next]_vars

\* Time passes, the cleanup interval keeps firing, the mutex is granted.
FairSpec ==
    /\ Spec
    /\ WF_vars(Tick)
    /\ WF_vars(CleanupStart) /\ WF_vars(CleanupRun)
    /\ \A c \in Calls : WF_vars(Decide(c))
-------------------------------------------------------------------------------
(* Properties *)

TypeOK ==
    /\ clock \in Nat
    /\ pc \in [Calls -> CallStates]
    /\ stamp \in [Calls -> Nat]
    /\ entries \subseteq Keys
    /\ store \in [Keys -> SUBSET Calls]
    /\ cleaner \in Nat \cup {NotWaiting}
    /\ counter \in [Keys -> Nat \cup {NotWaiting}]
    /\ horizon \in [Keys -> Nat]
    /\ inOrder \in [Keys -> BOOLEAN]

Admitted(k) == {c \in CallsOf(k) : pc[c] = "allowed"}

\* Whatever the order in which calls, counts and cleanups get the mutex: the
\* admitted calls of a client whose stamp is within the window of the latest
\* pruning are never more than max_requests.
WithinLimit ==
    \A k \in Keys :
        Cardinality({c \in Admitted(k) : Fresh(horizon[k], stamp[c])}) <= MaxRequests

\* As long as the mutex was granted in the order of the stamps, no window of
\* the configured length holds more than max_requests admitted calls of one
\* client, whichever moment the window starts at.
WindowLimit(k) ==
    \A c \in Admitted(k) :
        Cardinality({d \in Admitted(k) : /\ stamp[d] <= stamp[c]
                                         /\ stamp[c] - stamp[d] < Window})
            <= MaxRequests

WindowLimitInOrder == \A k \in Keys : inOrder[k] => WindowLimit(k)

\* A call is refused only if max_requests calls of the same client are
\* admitted and still in the window at its stamp: neither another client's
\* calls nor expired ones count against it.
DeniedOnlyAtLimit ==
    [][\A c \in Calls :
          (pc[c] = "stamped" /\ pc'[c] = "denied") =>
              Cardinality({d \in Admitted(KeyOf[c]) : Fresh(stamp[c], stamp[d])})
                  >= MaxRequests]_vars

\* "Clean up expired entries to prevent unbounded growth": once the calls of a
\* client are all decided, its entry is eventually dropped.
IdleKeyForgotten ==
    \A k \in Keys :
        (\A c \in CallsOf(k) : pc[c] \in {"allowed", "denied"}) ~> (k \notin entries)

\* "Limits requests per IP address within a time window", without any
\* condition on the order in which the mutex is granted.
LimitsRequestsPerWindow == \A k \in Keys : WindowLimit(k)
-------------------------------------------------------------------------------
(* The inductive strengthening *)

\* Lists belong to entries, hold admitted calls only, and never more than
\* max_requests; an admitted call missing from its list expired at the horizon.
StoreOK ==
    \A k \in Keys :
        /\ store[k] \subseteq Admitted(k)
        /\ k \notin entries => store[k] = {}
        /\ Cardinality(store[k]) <= MaxRequests
        /\ \A c \in Admitted(k) : Fresh(horizon[k], stamp[c]) => c \in store[k]
        /\ inOrder[k] => \A c \in Admitted(k) : stamp[c] <= horizon[k]
===============================================================================
