------------------------------ MODULE GitHubAuth ------------------------------
(***************************************************************************)
(* The installation tokens of a GitHub App: GitHubAuth in                  *)
(* src/src/github.rs, as several callers use it.                           *)
(*                                                                         *)
(* An instance has a cached token behind a mutex that a caller holds while *)
(* it exchanges a signed JWT for a new token, over two requests if the     *)
(* installation is not configured.  GitHub refuses a JWT that is too old,  *)
(* and a token lives from when it was issued, while the cache reckons from *)
(* when it arrived.  A token is a record of these times.  The other way of *)
(* get_token, a token read from a file, has no state and is left out.      *)
(***************************************************************************)
EXTENDS Integers, FiniteSets

CONSTANTS Callers,      \* the callers of get_token, each once
          Instances,    \* the GitHubAuth values
          NoCaller,     \* nobody holds the mutex
          CacheFor,     \* 3300 s: how long a token is kept
          TokenLife,    \* one hour: how long GitHub accepts it
          JwtLife,      \* 600 s
          MaxTime       \* bound: the clock stops here

ASSUME AuthAssumption ==
    /\ CacheFor \in Nat \ {0} /\ TokenLife \in Nat /\ JwtLife \in Nat
    /\ CacheFor <= TokenLife
    /\ MaxTime \in Nat
    /\ NoCaller \notin Callers

VARIABLES
    clock,      \* SystemTime::now()
    instance,   \* the GitHubAuth each caller uses
    cached,     \* per instance, cached_token
    holder,     \* per instance, who holds its mutex
    auth,       \* where each caller is in get_installation_token
    jwt,        \* when its JWT was made
    token       \* the token it is getting, then got, and when it got it

authVars == <<instance, cached, holder, auth, jwt, token>>

AuthStates == {"idle", "waiting", "listing", "exchanging", "issued", "got",
               "failed", "done"}
NotCached == [issued |-> 0, received |-> 0, expires |-> 0]
NoToken == [issued |-> 0, received |-> 0, returned |-> 0]

AuthTypeOK ==
    /\ clock \in 0 .. MaxTime
    /\ instance \in [Callers -> Instances]
    /\ holder \in [Instances -> Callers \cup {NoCaller}]
    /\ auth \in [Callers -> AuthStates]
    /\ jwt \in [Callers -> Nat]
    /\ cached \in [Instances -> [issued : Nat, received : Nat, expires : Nat]]
    /\ token \in [Callers -> [issued : Nat, received : Nat, returned : Nat]]

AuthInit ==
    /\ clock = 0
    /\ cached = [i \in Instances |-> NotCached]
    /\ holder = [i \in Instances |-> NoCaller]
    /\ auth = [c \in Callers |-> "idle"]
    /\ jwt = [c \in Callers |-> 0]
    /\ token = [c \in Callers |-> NoToken]

Tick == clock < MaxTime /\ clock' = clock + 1 /\ UNCHANGED authVars

AuthGoes(c, from, to) == auth[c] = from /\ auth' = [auth EXCEPT ![c] = to]

\* get_token() is called.
Want(c) ==
    AuthGoes(c, "idle", "waiting") /\ UNCHANGED <<instance, cached, holder, jwt, token>>

Returned(t) == [issued |-> t.issued, received |-> t.received, returned |-> clock]

\* The mutex is free and the cached token still good.
UseCached(c) ==
    LET t == cached[instance[c]]
    IN  /\ holder[instance[c]] = NoCaller
        /\ clock < t.expires
        /\ AuthGoes(c, "waiting", "got")
        /\ token' = [token EXCEPT ![c] = Returned(t)]
        /\ UNCHANGED <<clock, instance, cached, holder, jwt>>

\* The mutex is free and no token good: a JWT is made, and the installation
\* is looked up unless it is configured.
StartExchange(c) ==
    /\ holder[instance[c]] = NoCaller
    /\ clock >= cached[instance[c]].expires
    /\ \E to \in {"listing", "exchanging"} : AuthGoes(c, "waiting", to)
    /\ holder' = [holder EXCEPT ![instance[c]] = c]
    /\ jwt' = [jwt EXCEPT ![c] = clock]
    /\ UNCHANGED <<clock, instance, cached, token>>

\* GitHub lists the installations; the first is taken.
Listed(c) ==
    /\ clock < jwt[c] + JwtLife
    /\ AuthGoes(c, "listing", "exchanging")
    /\ UNCHANGED <<clock, instance, cached, holder, jwt, token>>

\* GitHub issues a token; its answer is on the way.
Issue(c) ==
    /\ clock < jwt[c] + JwtLife
    /\ AuthGoes(c, "exchanging", "issued")
    /\ token' = [token EXCEPT ![c].issued = clock]
    /\ jwt' = [jwt EXCEPT ![c] = 0]
    /\ UNCHANGED <<clock, instance, cached, holder>>

\* Mutant of Obtain: the token is kept for as long as it lives.
ObtainForLife(c) ==
    LET t == [issued |-> token[c].issued, received |-> clock,
              expires |-> clock + TokenLife]
    IN  /\ AuthGoes(c, "issued", "got")
        /\ cached' = [cached EXCEPT ![instance[c]] = t]
        /\ token' = [token EXCEPT ![c] = Returned(t)]
        /\ holder' = [holder EXCEPT ![instance[c]] = NoCaller]
        /\ UNCHANGED <<clock, instance, jwt>>

\* The answer arrives: the token is cached and returned.
Obtain(c) ==
    LET t == [issued |-> token[c].issued, received |-> clock,
              expires |-> clock + CacheFor]
    IN  /\ AuthGoes(c, "issued", "got")
        /\ cached' = [cached EXCEPT ![instance[c]] = t]
        /\ token' = [token EXCEPT ![c] = Returned(t)]
        /\ holder' = [holder EXCEPT ![instance[c]] = NoCaller]
        /\ UNCHANGED <<clock, instance, jwt>>

\* The key cannot be read, a request is refused or its answer lost: the
\* caller returns an error, and what is cached stays.
ExchangeFails(c) ==
    /\ \E from \in {"listing", "exchanging", "issued"} : AuthGoes(c, from, "failed")
    /\ holder' = [holder EXCEPT ![instance[c]] = NoCaller]
    /\ jwt' = [jwt EXCEPT ![c] = 0]
    /\ token' = [token EXCEPT ![c] = NoToken]
    /\ UNCHANGED <<clock, instance, cached>>

\* The caller has used the token, or handled the error.
Used(c) ==
    /\ \E from \in {"got", "failed"} : AuthGoes(c, from, "done")
    /\ token' = [token EXCEPT ![c] = NoToken]
    /\ UNCHANGED <<instance, cached, holder, jwt>>

GetInstallationToken(c) ==
    \/ UseCached(c) \/ StartExchange(c) \/ Listed(c) \/ Issue(c)
    \/ Obtain(c) \/ ExchangeFails(c)

\* A token that is returned, fresh or cached by any caller, is one GitHub
\* still accepts, provided its answer was under way no longer than the cache
\* is ahead of GitHub (github.rs:136: 3300 s from receipt, an hour from
\* issue); callers with one instance exchange one at a time.
TokenUsable ==
    /\ \A c \in Callers :
        /\ auth[c] = "got"
        /\ token[c].received - token[c].issued <= TokenLife - CacheFor
        => token[c].returned < token[c].issued + TokenLife
    /\ \A c, d \in Callers :
        /\ instance[c] = instance[d]
        /\ {auth[c], auth[d]} \subseteq {"listing", "exchanging", "issued"}
        => c = d
===============================================================================
