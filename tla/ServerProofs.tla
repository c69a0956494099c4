----------------------------- MODULE ServerProofs -----------------------------
(***************************************************************************)
(* The safety properties of Server for every set of configuration files,   *)
(* webhooks, events and GET requests, any number of threads, any limit and *)
(* any size of a page.  Each part of the invariant is stated before its    *)
(* property:                                                               *)
(*   AuthenticInv  a server that serves has passed the checks of its       *)
(*                 providers, and a review that runs was started with the  *)
(*                 configuration there still is;                           *)
(*   TypesInv      a posted review has a verdict, a recorded one a counter *)
(*                 left to add to;                                         *)
(*   LoadedInv     a server that has loaded its configuration found a      *)
(*                 file;                                                   *)
(*   CountersInv   each counter is the number of webhooks that have added  *)
(*                 to it, also in the middle of record_review;             *)
(*   ScrapeInv     what a scrape has read, and would read of the rest now; *)
(*   PageInv       what a page or a search has read of the table, which    *)
(*                 only grows.                                             *)
(***************************************************************************)
EXTENDS Server, EnumerationProofs, FiniteSetTheorems, TLAPS

Started == {"loaded", "serving"}

HookTypes ==
    /\ pc \in [Webhooks -> RequestStates \cup ReviewStates]
    /\ hook \in [Webhooks -> Events \cup {NoEvent}]
    /\ \A w \in Webhooks : pc[w] # "idle" => hook[w] \in Events

ChecksPassed ==
    /\ phase \in Started => ProviderErrors(config, file) = {}
    /\ phase # "serving" => \A w \in Webhooks : pc[w] = "idle"

ReviewsWanted ==
    \A w \in Webhooks : pc[w] \in ReviewStates => StartsReview(config, hook[w])

AuthenticInv == HookTypes /\ ChecksPassed /\ ReviewsWanted

\* The step of one webhook, and what it may do to this state.
HookStep(w) == Send(w) \/ Request(w) \/ Review(w)

LEMMA StepsOfServer ==
    [Next]_vars => \/ \E w \in Webhooks : HookStep(w)
                   \/ Load \/ Serve
                   \/ UNCHANGED <<startVars, hook, pc>>
<1> SUFFICES ASSUME [Next]_vars
             PROVE  \/ \E w \in Webhooks : HookStep(w)
                    \/ Load \/ Serve
                    \/ UNCHANGED <<startVars, hook, pc>>
  OBVIOUS
<1>1. CASE UNCHANGED vars
  BY <1>1 DEF vars, hookVars
<1>2. CASE Signal \/ Ask
  BY <1>2 DEF Signal, Ask, Reads, hookVars
<1>3. CASE Reader
  BY <1>3 DEF Reader, NotFound, StartScrape, Scrape, ReadStats, ReadRows, Search,
              Routed, Reads, hookVars
<1> QED BY <1>1, <1>2, <1>3 DEF Next, HookStep

LEMMA HookStepEffect ==
    ASSUME HookTypes, NEW w \in Webhooks, HookStep(w)
    PROVE  /\ UNCHANGED <<startVars>>
           /\ \E to \in RequestStates \cup ReviewStates :
                /\ pc' = [pc EXCEPT ![w] = to]
                /\ \/ /\ phase = "serving" /\ to = "sent"
                      /\ \E e \in Events : hook' = [hook EXCEPT ![w] = e]
                   \/ /\ hook' = hook /\ pc[w] # "idle"
                      /\ to # "idle"
                      /\ to \in ReviewStates =>
                            pc[w] \in ReviewStates \/ StartsReview(config, hook[w])
<1> USE DEF HookTypes, RequestStates, ReviewStates
<1>1. CASE Send(w)
  BY <1>1 DEF Send
<1>2. CASE Receive(w)
  <2>1. CASE addressKnown
    <3>1. pc' = [pc EXCEPT ![w] = "received"]
      BY <1>2, <2>1 DEF Receive
    <3> QED BY <1>2, <3>1 DEF Receive
  <2>2. CASE ~addressKnown
    <3>1. pc' = [pc EXCEPT ![w] = "answered"]
      BY <1>2, <2>2 DEF Receive
    <3> QED BY <1>2, <3>1 DEF Receive
  <2> QED BY <2>1, <2>2
<1>3. CASE Deny(w)
  BY <1>3 DEF Deny, Answer
<1>10. CASE Admit(w)
  <2>1. pc' = [pc EXCEPT ![w] = "admitted"]
    BY <1>10 DEF Admit
  <2> QED BY <1>10, <2>1 DEF Admit
<1>4. CASE Handle(w)
  <2>1. CASE StartsReview(config, hook[w])
    <3>1. pc' = [pc EXCEPT ![w] = "spawned"]
      BY <1>4, <2>1 DEF Handle, Answer
    <3> QED BY <1>4, <2>1, <3>1 DEF Handle, Answer
  <2>2. CASE ~StartsReview(config, hook[w])
    <3>1. pc' = [pc EXCEPT ![w] = "answered"]
      BY <1>4, <2>2 DEF Handle, Answer
    <3> QED BY <1>4, <3>1 DEF Handle, Answer
  <2> QED BY <2>1, <2>2
<1>5. CASE StartGit(w)
  BY <1>5 DEF StartGit, Goes
<1>6. CASE GitReturns(w)
  BY <1>6 DEF GitReturns, Goes
<1>7. CASE Work(w)
  BY <1>7 DEF Work, Goes
<1>8. CASE Save(w)
  BY <1>8 DEF Save, Goes
<1>9. CASE Record(w)
  <2>1. CASE Len(left[w]) = 1
    BY <1>9, <2>1 DEF Record
  <2>2. CASE Len(left[w]) # 1
    <3>1. pc' = [pc EXCEPT ![w] = "recording"]
      BY <1>9, <2>2 DEF Record
    <3> QED BY <1>9, <3>1 DEF Record
  <2> QED BY <2>1, <2>2
<1> QED BY <1>1, <1>2, <1>3, <1>4, <1>5, <1>6, <1>7, <1>8, <1>9, <1>10
        DEF HookStep, Request, Review

LEMMA AuthenticInit == Init => AuthenticInv
  BY DEF Init, AuthenticInv, HookTypes, ChecksPassed, ReviewsWanted, Started,
         RequestStates, ReviewStates

LEMMA AuthenticStep == AuthenticInv /\ [Next]_vars => AuthenticInv'
<1> SUFFICES ASSUME AuthenticInv, [Next]_vars PROVE AuthenticInv'
  OBVIOUS
<1> USE DEF AuthenticInv
<1>1. ASSUME NEW w \in Webhooks, HookStep(w) PROVE AuthenticInv'
  <2>1. PICK to \in RequestStates \cup ReviewStates :
                /\ pc' = [pc EXCEPT ![w] = to]
                /\ \/ /\ phase = "serving" /\ to = "sent"
                      /\ \E e \in Events : hook' = [hook EXCEPT ![w] = e]
                   \/ /\ hook' = hook /\ pc[w] # "idle"
                      /\ to # "idle"
                      /\ to \in ReviewStates =>
                            pc[w] \in ReviewStates \/ StartsReview(config, hook[w])
    BY <1>1, HookStepEffect
  <2>2. UNCHANGED <<file, config, phase>>
    BY <1>1, HookStepEffect DEF startVars
  <2>3. phase = "serving"
    BY <2>1 DEF ChecksPassed
  <2>4. HookTypes'
    BY <2>1 DEF HookTypes
  <2>5. ChecksPassed'
    BY <2>2, <2>3 DEF ChecksPassed, Started
  <2>6. ReviewsWanted'
    <3> SUFFICES ASSUME NEW v \in Webhooks, pc'[v] \in ReviewStates
                 PROVE  StartsReview(config, hook'[v])
      BY <2>2 DEF ReviewsWanted
    <3>1. CASE v = w
      BY <2>1, <3>1 DEF ReviewsWanted, HookTypes, ReviewStates
    <3>2. CASE v # w
      <4>1. pc'[v] = pc[v] /\ hook'[v] = hook[v]
        BY <2>1, <3>2 DEF HookTypes
      <4> QED BY <4>1 DEF ReviewsWanted
    <3> QED BY <3>1, <3>2
  <2> QED BY <2>4, <2>5, <2>6
<1>2. CASE Load
  <2>1. UNCHANGED <<file, hook, pc>> /\ phase = "starting"
    BY <1>2 DEF Load, hookVars
  <2>2. \A w \in Webhooks : pc[w] = "idle"
    BY <2>1 DEF ChecksPassed
  <2>3. ChecksPassed'
    <3>1. CASE (file.exists => Parses(file)) /\ Valid(Loaded(file), file)
      <4>1. phase' = "loaded" /\ config' = Loaded(file)
        BY <1>2, <3>1 DEF Load
      <4>2. ProviderErrors(Loaded(file), file) = {}
        BY <3>1 DEF Valid
      <4> QED BY <2>1, <4>1, <4>2 DEF ChecksPassed, Started
    <3>2. CASE ~((file.exists => Parses(file)) /\ Valid(Loaded(file), file))
      BY <1>2, <2>1, <2>2, <3>2 DEF Load, ChecksPassed, Started
    <3> QED BY <3>1, <3>2
  <2> QED BY <2>1, <2>2, <2>3 DEF HookTypes, ReviewsWanted, ReviewStates
<1>3. CASE Serve
  <2>1. UNCHANGED <<file, config, hook, pc>> /\ phase = "loaded"
    BY <1>3 DEF Serve, hookVars
  <2>2. phase \in Started /\ phase' \in {"serving", "refused"}
    BY <1>3, <2>1 DEF Serve, Started
  <2> QED BY <2>1, <2>2 DEF HookTypes, ChecksPassed, ReviewsWanted, Started
<1>4. CASE UNCHANGED <<startVars, hook, pc>>
  BY <1>4 DEF HookTypes, ChecksPassed, ReviewsWanted, startVars
<1> QED BY <1>1, <1>2, <1>3, <1>4, StepsOfServer

\* What makes a review wanted also makes it authentic, once the checks of the
\* providers have passed.
LEMMA WantedIsAuthentic ==
    ASSUME NEW e, e.provider \in Providers, NEW cfg, NEW f,
           ProviderErrors(cfg, f) = {}, StartsReview(cfg, e)
    PROVE  /\ e.key \notin {NoKey, ""}
           /\ e.provider \in DOMAIN cfg
           /\ e.key = cfg[e.provider].webhook_secret
<1>1. \A p \in DOMAIN cfg \cap Providers : cfg[p]["webhook_secret"] # ""
  <2>1. \A p \in Providers : <<p, "webhook_secret">> \in MustBeGiven
    BY DEF MustBeGiven, Providers
  <2>2. \A x \in MustBeGiven : ~(x[1] \in DOMAIN cfg /\ cfg[x[1]][x[2]] = "")
    BY DEF ProviderErrors
  <2> QED BY <2>1, <2>2
<1>2. CASE e.provider = "github"
  <2>1. "github" \in DOMAIN cfg /\ VerifyGithubSignature(cfg["github"].webhook_secret, e)
    BY <1>2 DEF StartsReview, Status, GithubStatus, Ok, InternalError, Unauthorized
  <2> QED BY <1>1, <1>2, <2>1 DEF VerifyGithubSignature, Providers
<1>3. CASE e.provider = "gitlab"
  <2>1. "gitlab" \in DOMAIN cfg /\ VerifyGitlabToken(cfg["gitlab"].webhook_secret, e)
    BY <1>3 DEF StartsReview, Status, GitlabStatus, Ok, InternalError, Unauthorized,
                BadRequest
  <2> QED BY <1>1, <1>3, <2>1 DEF VerifyGitlabToken, Providers, NoKey
<1> QED BY <1>2, <1>3 DEF Providers

\* A review runs only for an event whose sender knew the secret configured for
\* its provider, and that secret is not empty, for every configuration file,
\* every set of events, and any number of webhooks and threads.
THEOREM ServerOnlyAuthenticRuns == Spec => []OnlyAuthenticRuns
<1>1. AuthenticInv => OnlyAuthenticRuns
  <2> SUFFICES ASSUME AuthenticInv, NEW w \in Webhooks, pc[w] \in ReviewStates
               PROVE  /\ hook[w].key \notin {NoKey, ""}
                      /\ hook[w].provider \in DOMAIN config
                      /\ hook[w].key = config[hook[w].provider].webhook_secret
    BY DEF OnlyAuthenticRuns
  <2>1. pc[w] # "idle"
    BY DEF ReviewStates
  <2>2. hook[w].provider \in Providers
    BY <2>1, ServerAssumption DEF AuthenticInv, HookTypes
  <2>3. ProviderErrors(config, file) = {}
    BY <2>1 DEF AuthenticInv, ChecksPassed, Started
  <2>4. StartsReview(config, hook[w])
    BY DEF AuthenticInv, ReviewsWanted
  <2> QED BY <2>2, <2>3, <2>4, WantedIsAuthentic
<1> QED BY <1>1, AuthenticInit, AuthenticStep, PTL DEF Spec
-------------------------------------------------------------------------------
(* Types.  A review that is posted has a verdict, and one that is being      *)
(* recorded has a counter left, which Record takes.                          *)

TypesInv ==
    /\ TypeOK
    /\ \A w \in Webhooks : pc[w] = "posted" => verdict[w] \in Verdicts
    /\ \A w \in Webhooks : pc[w] = "recording" => left[w] # <<>>

LEMMA AddTypes ==
    ASSUME NEW m \in [Counters -> Nat], NEW c \in Counters
    PROVE  Add(m, c) \in [Counters -> Nat]
  BY DEF Add

LEMMA RecordStartTypes ==
    ASSUME NEW v \in Verdicts
    PROVE  RecordStart(v) \in Seq(ReviewCounters) /\ RecordStart(v) # <<>>
  BY DEF RecordStart, ReviewCounters

LEMMA HeadAndTail ==
    ASSUME NEW S, NEW s \in Seq(S), s # <<>>
    PROVE  /\ Head(s) \in S /\ Tail(s) \in Seq(S)
           /\ Len(s) # 1 => Tail(s) # <<>>
<1>1. Len(s) \in Nat /\ Len(s) # 0
  OBVIOUS
<1>2. Head(s) \in S /\ Tail(s) \in Seq(S) /\ Len(Tail(s)) = Len(s) - 1
  BY <1>1
<1> QED BY <1>1, <1>2

LEMMA TypesInit == Init => TypesInv
<1> SUFFICES ASSUME Init PROVE TypesInv
  OBVIOUS
<1>1. metrics \in [Counters -> Nat]
  BY DEF Init, NoMetrics
<1>2. left \in [Webhooks -> Seq(ReviewCounters)]
  BY DEF Init
<1> QED BY <1>1, <1>2 DEF Init, TypesInv, TypeOK, RequestStates, ReviewStates

LEMMA TypesStep == TypesInv /\ [Next]_vars => TypesInv'
<1> SUFFICES ASSUME TypesInv, [Next]_vars PROVE TypesInv'
  OBVIOUS
<1> USE DEF TypesInv, TypeOK, startVars, hookVars, reviewVars
<1>1. CASE UNCHANGED vars
  BY <1>1 DEF vars
<1>2. CASE Load
  BY <1>2 DEF Load
<1>3. CASE Serve
  BY <1>3 DEF Serve
<1>4. CASE Signal
  BY <1>4 DEF Signal
<1>5. ASSUME NEW w \in Webhooks, Send(w) PROVE TypesInv'
  BY <1>5 DEF Send, RequestStates
<1>6. ASSUME NEW w \in Webhooks, Request(w) PROVE TypesInv'
  <2>1. /\ "received" \in Counters /\ "limited" \in Counters
        /\ "rejected" \in Counters
    BY DEF Counters
  <2>2. metrics' \in [Counters -> Nat]
    BY <1>6, <2>1, AddTypes DEF Request, Receive, Deny, Admit, Handle
  <2>3. PICK status \in {0, Ok, BadRequest, Unauthorized, TooManyRequests, InternalError},
             to \in {"received", "admitted", "answered", "spawned"} :
             (reply' = [reply EXCEPT ![w] = status] \/ reply' = reply)
             /\ pc' = [pc EXCEPT ![w] = to]
    <3>1. CASE Receive(w)
      <4>1. CASE addressKnown
        BY <3>1, <4>1 DEF Receive
      <4>2. CASE ~addressKnown
        BY <3>1, <4>2 DEF Receive
      <4> QED BY <4>1, <4>2
    <3>2. CASE Deny(w)
      BY <3>2 DEF Deny, Answer
    <3>4. CASE Admit(w)
      BY <3>4 DEF Admit
    <3>3. CASE Handle(w)
      <4>1. Status(config, hook[w]) \in {Ok, BadRequest, Unauthorized, InternalError}
        BY DEF Status, GithubStatus, GitlabStatus
      <4>2. CASE StartsReview(config, hook[w])
        BY <3>3, <4>1, <4>2 DEF Handle, Answer
      <4>3. CASE ~StartsReview(config, hook[w])
        BY <3>3, <4>1, <4>3 DEF Handle, Answer
      <4> QED BY <4>2, <4>3
    <3> QED BY <1>6, <3>1, <3>2, <3>3, <3>4 DEF Request
  <2>4. /\ UNCHANGED <<startVars, shuttingDown, hook, reviewVars>>
        /\ pc[w] # "idle"
    BY <1>6 DEF Request, Receive, Deny, Admit, Handle, Answer
  <2> QED BY <2>2, <2>3, <2>4 DEF RequestStates, ReviewStates
<1>7. ASSUME NEW w \in Webhooks, Review(w) PROVE TypesInv'
  <2>1. CASE StartGit(w) \/ GitReturns(w)
    BY <2>1 DEF StartGit, GitReturns, Goes, ReviewStates
  <2>2. CASE Work(w)
    BY <2>2, ServerAssumption DEF Work, Goes, ReviewStates
  <2>3. CASE Save(w)
    <3>1. verdict[w] \in Verdicts
      BY <2>3 DEF Save, Goes
    <3>2. left' \in [Webhooks -> Seq(ReviewCounters)] /\ left'[w] # <<>>
      BY <2>3, <3>1, RecordStartTypes DEF Save
    <3> QED BY <2>3, <3>2 DEF Save, Goes, ReviewStates
  <2>4. CASE Record(w)
    <3>1. left[w] \in Seq(ReviewCounters) /\ left[w] # <<>>
      BY <2>4 DEF Record
    <3>2. /\ Head(left[w]) \in ReviewCounters
          /\ Tail(left[w]) \in Seq(ReviewCounters)
          /\ Len(left[w]) # 1 => Tail(left[w]) # <<>>
      BY <3>1, HeadAndTail
    <3>3. metrics' \in [Counters -> Nat]
      BY <2>4, <3>2, AddTypes DEF Record, Counters
    <3>4. left' = [left EXCEPT ![w] = Tail(left[w])]
      BY <2>4 DEF Record
    <3>5. CASE Len(left[w]) = 1
      BY <2>4, <3>2, <3>3, <3>4, <3>5 DEF Record, ReviewStates
    <3>6. CASE Len(left[w]) # 1
      BY <2>4, <3>2, <3>3, <3>4, <3>6 DEF Record
    <3> QED BY <3>5, <3>6
  <2> QED BY <1>7, <2>1, <2>2, <2>3, <2>4 DEF Review
<1>8. CASE Ask \/ Reader
  BY <1>8 DEF Ask, Reader, NotFound, StartScrape, Scrape, ReadStats, ReadRows,
     Search, Routed, Reads
<1> QED BY <1>1, <1>2, <1>3, <1>4, <1>5, <1>6, <1>7, <1>8 DEF Next

\* The type invariant of the server, for all webhooks, events and files.
THEOREM ServerTypes == Spec => []TypeOK
<1>1. TypesInv => TypeOK
  BY DEF TypesInv
<1> QED BY <1>1, TypesInit, TypesStep, PTL DEF Spec
-------------------------------------------------------------------------------
(* The defaults *)

\* A section of the file that leaves everything out, and one that is left out.
LEMMA DefaultsOfSection ==
    ASSUME NEW s \in Optional
    PROVE  /\ s \in DOMAIN SectionDefaults /\ s \in DOMAIN FieldDefaults
           /\ DOMAIN FieldDefaults[s] = DOMAIN SectionDefaults[s]
           /\ \A x \in DOMAIN SectionDefaults[s] :
                FieldDefaults[s][x] # SectionDefaults[s][x] <=> <<s, x>> \in FlagsOffWhenGiven
<1> USE DEF FieldDefaults, SectionDefaults, DefaultOf, DefaultPatterns, DefaultBatching,
            FlagsOffWhenGiven
<1>1. CASE s = "review"
  <2> DEFINE names == {"security", "style", "performance", "correctness", "maintainability",
                       "inline_comments", "summary_comment", "template"}
             f == FieldDefaults["review"]
             d == SectionDefaults["review"]
  <2>1. /\ f = [x \in names |->
                   CASE x \in {"inline_comments", "summary_comment"} -> FALSE
                     [] x = "template" -> "none"
                     [] OTHER -> TRUE]
        /\ "review" \in DOMAIN FieldDefaults
    OBVIOUS
  <2>2. /\ d = [security |-> TRUE, style |-> TRUE, performance |-> TRUE,
                correctness |-> TRUE, maintainability |-> TRUE,
                inline_comments |-> TRUE, summary_comment |-> TRUE,
                template |-> "none"]
        /\ "review" \in DOMAIN SectionDefaults
    OBVIOUS
  <2> HIDE DEF f, d, FieldDefaults, SectionDefaults, DefaultOf, DefaultPatterns, DefaultBatching
  <2>3. DOMAIN f = names /\ DOMAIN d = names  BY <2>1, <2>2
  <2>4. ASSUME NEW x \in names \ {"inline_comments", "summary_comment", "template"}
        PROVE  f[x] = TRUE /\ d[x] = TRUE /\ <<s, x>> \notin FlagsOffWhenGiven
    BY <1>1, <2>1, <2>2
  <2>5. f["template"] = d["template"] /\ <<s, "template">> \notin FlagsOffWhenGiven
    BY <1>1, <2>1, <2>2
  <2>6. ASSUME NEW x \in {"inline_comments", "summary_comment"}
        PROVE  f[x] = FALSE /\ d[x] = TRUE /\ <<s, x>> \in FlagsOffWhenGiven
    BY <1>1, <2>1, <2>2
  <2>7. FALSE # TRUE  OBVIOUS
  <2>8. \A x \in names : f[x] # d[x] <=> <<s, x>> \in FlagsOffWhenGiven
    BY <2>4, <2>5, <2>6, <2>7
  <2> QED  BY <1>1, <2>1, <2>2, <2>3, <2>8 DEF f, d
<1>2. CASE s = "diff_filter"  BY <1>2
<1>3. CASE s = "batching"  BY <1>3
<1>4. CASE s = "database"  BY <1>4
<1>5. CASE s = "dashboard"  BY <1>5
<1>6. CASE s = "auto_approve"  BY <1>6
<1>7. CASE s = "retry"  BY <1>7
<1>8. CASE s = "queue"  BY <1>8
<1>9. CASE s = "cache"  BY <1>9
<1>10. CASE s = "rules"  BY <1>10
<1>11. CASE s = "logging"  BY <1>11
<1> QED  BY <1>1, <1>2, <1>3, <1>4, <1>5, <1>6, <1>7, <1>8, <1>9, <1>10, <1>11 DEF Optional

\* A server that has loaded its configuration found a file: without one there
\* is no provider, which validate refuses.
LoadedInv ==
    /\ file \in Files
    /\ phase = "loaded" => file.exists /\ config = Loaded(file)

LEMMA NoProviderByDefault == Providers \cap DOMAIN SectionDefaults = {}
  BY DEF Providers, SectionDefaults

LEMMA LoadedInit == Init => LoadedInv
  BY DEF Init, LoadedInv

LEMMA LoadedStep == LoadedInv /\ [Next]_vars => LoadedInv'
<1> SUFFICES ASSUME LoadedInv, [Next]_vars PROVE LoadedInv'  OBVIOUS
<1>1. CASE Load
  <2>1. file' = file  BY <1>1 DEF Load
  <2>2. CASE (file.exists => Parses(file)) /\ Valid(Loaded(file), file)
    <3>1. phase' = "loaded" /\ config' = Loaded(file)  BY <1>1, <2>2 DEF Load
    <3>2. Providers \cap DOMAIN Loaded(file) # {}  BY <2>2 DEF Valid
    <3>3. file.exists  BY <3>2, NoProviderByDefault DEF Loaded
    <3> QED  BY <2>1, <3>1, <3>3 DEF LoadedInv
  <2>3. CASE ~ ((file.exists => Parses(file)) /\ Valid(Loaded(file), file))
    <3>1. phase' = "refused"  BY <1>1, <2>3 DEF Load
    <3> QED  BY <2>1, <3>1 DEF LoadedInv
  <2> QED  BY <2>2, <2>3
<1>2. CASE Serve  BY <1>2 DEF Serve, LoadedInv
<1>3. ASSUME UNCHANGED startVars PROVE LoadedInv'  BY <1>3 DEF LoadedInv, startVars
<1>4. ASSUME NEW w \in Webhooks, HookStep(w) PROVE LoadedInv'
  <2>1. UNCHANGED startVars
    BY <1>4 DEF HookStep, Send, Request, Receive, Deny, Admit, Handle, Answer, Review, StartGit,
                GitReturns, Work, Save, Record, Goes
  <2> QED  BY <1>3, <2>1
<1> QED  BY <1>1, <1>2, <1>3, <1>4, StepsOfServer

\* What a file gives when a header is added to it.
LEMMA WithHeaderLoads ==
    ASSUME NEW s \in Optional, file \in Files, file.exists, s \notin DOMAIN file.sections
    PROVE  /\ DOMAIN Loaded(WithHeader(s))[s] = DOMAIN FieldDefaults[s]
           /\ \A x \in DOMAIN FieldDefaults[s] :
                Loaded(WithHeader(s))[s][x] = FieldDefaults[s][x]
           /\ Loaded(file)[s] = SectionDefaults[s]
<1> DEFINE g == FillIn(file.sections, [x \in {s} |-> <<>>])
           W == WithHeader(s)
           D == FieldDefaults[s]
<1>1. file = [exists |-> file.exists, sections |-> file.sections, keyFile |-> file.keyFile]
  BY ServerAssumption
<1>2. W.exists = file.exists /\ W.sections = g  BY <1>1 DEF WithHeader
<1>3. s \in DOMAIN g /\ g[s] = <<>>  BY DEF FillIn
<1> HIDE DEF W, g
<1>4. Loaded(W)[s] = FillIn(<<>>, D)  BY <1>2, <1>3 DEF Loaded
<1>5. DOMAIN FillIn(<<>>, D) = DOMAIN D /\ \A x \in DOMAIN D : FillIn(<<>>, D)[x] = D[x]
  <2>1. DOMAIN (<<>>) = {}  OBVIOUS
  <2> HIDE DEF D
  <2> QED  BY <2>1 DEF FillIn
<1>6. Loaded(file)[s] = SectionDefaults[s]  BY DEF Loaded
<1> QED  BY <1>4, <1>5, <1>6 DEF W

\* For every file, a header with nothing below it changes nothing but the two
\* flags (config.rs:60-166, 278-410).
THEOREM ServerDefaultsAgree == Spec => []DefaultsAgree
<1>1. LoadedInv => DefaultsAgree
  <2> SUFFICES ASSUME LoadedInv, phase = "loaded", NEW s \in Optional \ DOMAIN file.sections
               PROVE  /\ DOMAIN Loaded(WithHeader(s))[s] = DOMAIN config[s]
                      /\ \A x \in DOMAIN config[s] :
                           (Loaded(WithHeader(s))[s][x] # config[s][x])
                               <=> <<s, x>> \in FlagsOffWhenGiven
    BY DEF DefaultsAgree
  <2>1. file \in Files /\ file.exists /\ config[s] = SectionDefaults[s]
    BY WithHeaderLoads DEF LoadedInv
  <2>2. /\ DOMAIN Loaded(WithHeader(s))[s] = DOMAIN FieldDefaults[s]
        /\ \A x \in DOMAIN FieldDefaults[s] :
             Loaded(WithHeader(s))[s][x] = FieldDefaults[s][x]
    BY <2>1, WithHeaderLoads
  <2> QED  BY <2>1, <2>2, DefaultsOfSection
<1> QED  BY <1>1, LoadedInit, LoadedStep, PTL DEF Spec
-------------------------------------------------------------------------------
(* The counters: each is the number of webhooks that have added to it.       *)

Reached == {w \in Webhooks : addressKnown /\ pc[w] \notin {"idle", "sent"}}
Done(k) == {w \in Begun : Len(left[w]) < k}
Voted(v) == {w \in Done(3) : verdict[w] = v}

\* What a review that is being recorded has left to add to.
LeftInv ==
    \A w \in Webhooks :
        /\ pc[w] \in {"posted", "recording", "finished"} => verdict[w] \in Verdicts
        /\ pc[w] = "recording" =>
             left[w] \in {<<"total", verdict[w], "latency", "repo">>,
                          <<verdict[w], "latency", "repo">>,
                          <<"latency", "repo">>, <<"repo">>}
        /\ pc[w] = "finished" => left[w] = <<>>
        /\ pc[w] \in {"idle", "sent", "received", "admitted"} => reply[w] = 0

CountsInv ==
    /\ metrics["received"] = Cardinality(Reached)
    /\ metrics["limited"] = Cardinality(Answered(TooManyRequests))
    /\ metrics["rejected"] = Cardinality(Answered(Unauthorized))
    /\ metrics["total"] = Cardinality(Done(4))
    /\ metrics["latency"] = Cardinality(Done(2))
    /\ metrics["repo"] = Cardinality(Done(1))
    /\ \A v \in Verdicts : metrics[v] = Cardinality(Voted(v))

CountersInv == LeftInv /\ CountsInv

LEMMA OthersSame ==
    ASSUME TypesInv, NEW w \in Webhooks, HookStep(w), NEW v \in Webhooks, v # w
    PROVE  /\ pc'[v] = pc[v] /\ reply'[v] = reply[v]
           /\ verdict'[v] = verdict[v] /\ left'[v] = left[v]
<1> USE DEF reviewVars
<1>0. /\ pc \in [Webhooks -> RequestStates \cup ReviewStates]
      /\ DOMAIN reply = Webhooks /\ DOMAIN verdict = Webhooks /\ DOMAIN left = Webhooks
  BY DEF TypesInv, TypeOK
<1>1. CASE Send(w)  BY <1>0, <1>1 DEF Send
<1>2. CASE Receive(w)
  <2>1. /\ \E to : pc' = [pc EXCEPT ![w] = to]
        /\ reply' = reply \/ \E st : reply' = [reply EXCEPT ![w] = st]
        /\ UNCHANGED <<verdict, left>>
    BY <1>2 DEF Receive
  <2> QED  BY <1>0, <2>1
<1>3. CASE Deny(w) \/ Handle(w)
  <2>1. /\ \E to : pc' = [pc EXCEPT ![w] = to]
        /\ \E st : reply' = [reply EXCEPT ![w] = st]
        /\ UNCHANGED <<verdict, left>>
    BY <1>3 DEF Deny, Admit, Handle, Answer
  <2> QED  BY <1>0, <2>1
<1>8. CASE Admit(w)  BY <1>0, <1>8 DEF Admit
<1>4. CASE StartGit(w) \/ GitReturns(w)
  BY <1>0, <1>4 DEF StartGit, GitReturns, Goes
<1>5. CASE Work(w)  BY <1>0, <1>5 DEF Work, Goes
<1>6. CASE Save(w)  BY <1>0, <1>6 DEF Save, Goes
<1>7. CASE Record(w)
  <2>1. /\ pc' = pc \/ \E to : pc' = [pc EXCEPT ![w] = to]
        /\ left' = [left EXCEPT ![w] = Tail(left[w])]
        /\ UNCHANGED <<reply, verdict>>
    BY <1>7 DEF Record
  <2> QED  BY <1>0, <2>1
<1> QED  BY <1>1, <1>2, <1>3, <1>4, <1>5, <1>6, <1>7, <1>8 DEF HookStep, Request, Review

\* Two sets of webhooks that differ at most in w.
SameBut(S, T, w) ==
    /\ S \subseteq Webhooks /\ T \subseteq Webhooks
    /\ \A v \in Webhooks \ {w} : v \in T <=> v \in S

LEMMA CountOf ==
    ASSUME NEW S, NEW T, NEW w \in Webhooks, SameBut(S, T, w)
    PROVE  /\ Cardinality(S) \in Nat
           /\ (w \in T <=> w \in S) => Cardinality(T) = Cardinality(S)
           /\ w \notin S /\ w \in T => Cardinality(T) = Cardinality(S) + 1
<1>1. S \in SUBSET Webhooks /\ T \in SUBSET Webhooks  BY DEF SameBut
<1>2. IsFiniteSet(S)  BY <1>1, ServerAssumption, FS_Subset
<1>3. Cardinality(S) \in Nat  BY <1>2, FS_CardinalityType
<1>4. (w \in T <=> w \in S) => T = S  BY <1>1 DEF SameBut
<1>5. w \notin S /\ w \in T => T = S \cup {w}  BY <1>1 DEF SameBut
<1>6. w \notin S => Cardinality(S \cup {w}) = Cardinality(S) + 1  BY <1>2, FS_AddElement
<1> QED  BY <1>3, <1>4, <1>5, <1>6

LEMMA SetsOf ==
    ASSUME TypesInv, NEW w \in Webhooks, HookStep(w)
    PROVE  /\ SameBut(Reached, Reached', w)
           /\ \A st : SameBut(Answered(st), Answered(st)', w)
           /\ \A k : SameBut(Done(k), Done(k)', w)
           /\ \A d : SameBut(Voted(d), Voted(d)', w)
           /\ addressKnown' = addressKnown
<1>1. addressKnown' = addressKnown
  BY DEF HookStep, Send, Request, Receive, Deny, Admit, Handle, Answer, Review, StartGit,
         GitReturns, Work, Save, Record, Goes, startVars
<1> QED  BY <1>1, OthersSame DEF SameBut, Reached, Answered, Done, Voted, Begun

\* The step of w adds to counter c, or with "none" to no counter.
AddsTo(w, c) ==
    /\ metrics' = IF c = "none" THEN metrics ELSE Add(metrics, c)
    /\ w \in Reached' <=> w \in Reached \/ c = "received"
    /\ w \in Answered(TooManyRequests)' <=> w \in Answered(TooManyRequests) \/ c = "limited"
    /\ w \in Answered(Unauthorized)' <=> w \in Answered(Unauthorized) \/ c = "rejected"
    /\ w \in Done(4)' <=> w \in Done(4) \/ c = "total"
    /\ w \in Done(2)' <=> w \in Done(2) \/ c = "latency"
    /\ w \in Done(1)' <=> w \in Done(1) \/ c = "repo"
    /\ \A v \in Verdicts : w \in Voted(v)' <=> w \in Voted(v) \/ c = v
    /\ ~ (w \in Reached /\ c = "received")
    /\ ~ (w \in Answered(TooManyRequests) /\ c = "limited")
    /\ ~ (w \in Answered(Unauthorized) /\ c = "rejected")
    /\ ~ (w \in Done(4) /\ c = "total")
    /\ ~ (w \in Done(2) /\ c = "latency")
    /\ ~ (w \in Done(1) /\ c = "repo")
    /\ \A v \in Verdicts : ~ (w \in Voted(v) /\ c = v)

LEMMA MetricsNext ==
    ASSUME TypesInv, NEW w \in Webhooks, NEW c \in Counters \cup {"none"}, AddsTo(w, c)
    PROVE  \A d \in Counters : metrics'[d] = IF c = d THEN metrics[d] + 1 ELSE metrics[d]
<1>1. metrics \in [Counters -> Nat]  BY DEF TypesInv, TypeOK
<1>2. "none" \notin Counters  BY DEF Counters, ReviewCounters, Verdicts
<1>3. CASE c = "none"  BY <1>2, <1>3 DEF AddsTo
<1>4. CASE c \in Counters
  <2>1. metrics' = [metrics EXCEPT ![c] = @ + 1]  BY <1>2, <1>4 DEF AddsTo, Add
  <2> QED  BY <1>1, <1>4, <2>1
<1> QED  BY <1>3, <1>4

LEMMA CountsNext ==
    ASSUME TypesInv, CountsInv, NEW w \in Webhooks, HookStep(w),
           NEW c \in Counters \cup {"none"}, AddsTo(w, c)
    PROVE  CountsInv'
<1>1. \A d \in Counters : metrics'[d] = IF c = d THEN metrics[d] + 1 ELSE metrics[d]
  BY MetricsNext
<1>2. /\ {"received", "limited", "rejected", "total", "latency", "repo"} \subseteq Counters
      /\ Verdicts \subseteq Counters
  BY DEF Counters, ReviewCounters
<1>3. metrics'["received"] = Cardinality(Reached')
  <2>1. metrics'["received"] = IF c = "received" THEN metrics["received"] + 1
                                                 ELSE metrics["received"]
    BY <1>1, <1>2
  <2> QED  BY <2>1, SetsOf, CountOf DEF CountsInv, AddsTo
<1>4. metrics'["limited"] = Cardinality(Answered(TooManyRequests)')
  <2>1. metrics'["limited"] = IF c = "limited" THEN metrics["limited"] + 1
                                               ELSE metrics["limited"]
    BY <1>1, <1>2
  <2>2. SameBut(Answered(TooManyRequests), Answered(TooManyRequests)', w)  BY SetsOf
  <2> QED  BY <2>1, <2>2, CountOf DEF CountsInv, AddsTo
<1>5. metrics'["rejected"] = Cardinality(Answered(Unauthorized)')
  <2>1. metrics'["rejected"] = IF c = "rejected" THEN metrics["rejected"] + 1
                                                 ELSE metrics["rejected"]
    BY <1>1, <1>2
  <2>2. SameBut(Answered(Unauthorized), Answered(Unauthorized)', w)  BY SetsOf
  <2> QED  BY <2>1, <2>2, CountOf DEF CountsInv, AddsTo
<1>6. metrics'["total"] = Cardinality(Done(4)')
  <2>1. metrics'["total"] = IF c = "total" THEN metrics["total"] + 1 ELSE metrics["total"]
    BY <1>1, <1>2
  <2>2. SameBut(Done(4), Done(4)', w)  BY SetsOf
  <2> QED  BY <2>1, <2>2, CountOf DEF CountsInv, AddsTo
<1>7. metrics'["latency"] = Cardinality(Done(2)')
  <2>1. metrics'["latency"] = IF c = "latency" THEN metrics["latency"] + 1
                                               ELSE metrics["latency"]
    BY <1>1, <1>2
  <2>2. SameBut(Done(2), Done(2)', w)  BY SetsOf
  <2> QED  BY <2>1, <2>2, CountOf DEF CountsInv, AddsTo
<1>8. metrics'["repo"] = Cardinality(Done(1)')
  <2>1. metrics'["repo"] = IF c = "repo" THEN metrics["repo"] + 1 ELSE metrics["repo"]
    BY <1>1, <1>2
  <2>2. SameBut(Done(1), Done(1)', w)  BY SetsOf
  <2> QED  BY <2>1, <2>2, CountOf DEF CountsInv, AddsTo
<1>9. ASSUME NEW v \in Verdicts PROVE metrics'[v] = Cardinality(Voted(v)')
  <2>1. metrics'[v] = IF c = v THEN metrics[v] + 1 ELSE metrics[v]  BY <1>1, <1>2
  <2>2. SameBut(Voted(v), Voted(v)', w)  BY SetsOf
  <2>3. /\ w \in Voted(v)' <=> w \in Voted(v) \/ c = v
        /\ ~ (w \in Voted(v) /\ c = v)
    BY DEF AddsTo
  <2>4. metrics[v] = Cardinality(Voted(v))  BY DEF CountsInv
  <2> QED  BY <2>1, <2>2, <2>3, <2>4, CountOf
<1> QED  BY <1>3, <1>4, <1>5, <1>6, <1>7, <1>8, <1>9 DEF CountsInv

LEMMA Names ==
    /\ TooManyRequests # Unauthorized /\ InternalError # TooManyRequests
    /\ InternalError # Unauthorized /\ BadRequest # TooManyRequests
    /\ BadRequest # Unauthorized /\ Ok # TooManyRequests /\ Ok # Unauthorized
    /\ 0 # TooManyRequests /\ 0 # Unauthorized
    /\ Counters \cup {"none"} = {"received", "limited", "rejected", "total", "latency", "repo",
                                 "Approve", "RequestChanges", "Comment", "none"}
    /\ Verdicts = {"Approve", "RequestChanges", "Comment"}
  BY DEF TooManyRequests, Unauthorized, InternalError, BadRequest, Ok, Counters,
         ReviewCounters, Verdicts

\* A webhook is answered: it adds to the counter of its answer.
LEMMA RequestAdds ==
    ASSUME TypesInv, LeftInv, NEW w \in Webhooks, Send(w) \/ Request(w)
    PROVE  /\ \E c \in Counters \cup {"none"} : AddsTo(w, c)
           /\ pc'[w] \notin {"posted", "recording", "finished"}
           /\ pc'[w] \in {"idle", "sent", "received", "admitted"} => reply'[w] = 0
<1> USE Names DEF reviewVars
<1>0. /\ pc \in [Webhooks -> RequestStates \cup ReviewStates]
      /\ DOMAIN reply = Webhooks
  BY DEF TypesInv, TypeOK
<1>1. UNCHANGED <<verdict, left, addressKnown>>
  BY DEF Send, Request, Receive, Deny, Admit, Handle, Answer, startVars
<1>2. pc[w] \in {"idle", "sent", "received", "admitted"} /\ reply[w] = 0
  BY DEF Send, Request, Receive, Deny, Admit, Handle, LeftInv
<1>3. \A k : w \notin Done(k)  BY <1>2 DEF Done, Begun
<1>4. \A v : w \notin Voted(v)  BY <1>3 DEF Voted
<1>5. ASSUME pc'[w] \notin {"recording", "finished"}
      PROVE  (\A k : w \notin Done(k)') /\ (\A v : w \notin Voted(v)')
  BY <1>5 DEF Done, Begun, Voted
<1>6. w \notin Answered(TooManyRequests) /\ w \notin Answered(Unauthorized)
  BY <1>2 DEF Answered
<1>7. CASE Send(w)
  <2>1. metrics' = metrics /\ pc[w] = "idle" /\ pc'[w] = "sent" /\ reply'[w] = 0
    BY <1>0, <1>2, <1>7 DEF Send
  <2>2. AddsTo(w, "none")
    BY <1>1, <1>3, <1>4, <1>5, <1>6, <2>1 DEF AddsTo, Reached, Answered
  <2> QED  BY <2>1, <2>2
<1>8. CASE Receive(w) /\ addressKnown
  <2>1. /\ metrics' = Add(metrics, "received") /\ pc[w] = "sent" /\ pc'[w] = "received"
        /\ reply'[w] = 0
    BY <1>0, <1>2, <1>8 DEF Receive
  <2>2. AddsTo(w, "received")
    BY <1>1, <1>3, <1>4, <1>5, <1>6, <1>8, <2>1 DEF AddsTo, Reached, Answered
  <2> QED  BY <2>1, <2>2
<1>9. CASE Receive(w) /\ ~ addressKnown
  <2>1. /\ metrics' = metrics /\ pc'[w] = "answered" /\ reply'[w] = InternalError
    BY <1>0, <1>9 DEF Receive
  <2>2. AddsTo(w, "none")
    BY <1>1, <1>3, <1>4, <1>5, <1>6, <1>9, <2>1 DEF AddsTo, Reached, Answered
  <2> QED  BY <2>1, <2>2
<1>10. CASE Deny(w)
  <2>1. /\ metrics' = Add(metrics, "limited") /\ pc[w] = "received" /\ pc'[w] = "answered"
        /\ reply'[w] = TooManyRequests
    BY <1>0, <1>10 DEF Deny, Answer
  <2>2. AddsTo(w, "limited")
    BY <1>1, <1>3, <1>4, <1>5, <1>6, <2>1 DEF AddsTo, Reached, Answered
  <2> QED  BY <2>1, <2>2
<1>12. CASE Admit(w)
  <2>1. /\ metrics' = metrics /\ pc[w] = "received" /\ pc'[w] = "admitted"
        /\ reply'[w] = 0
    BY <1>0, <1>2, <1>12 DEF Admit
  <2>2. AddsTo(w, "none")
    BY <1>1, <1>3, <1>4, <1>5, <1>6, <2>1 DEF AddsTo, Reached, Answered
  <2> QED  BY <2>1, <2>2
<1>11. CASE Handle(w)
  <2>1. /\ pc[w] = "admitted" /\ pc'[w] \in {"spawned", "answered"}
        /\ reply'[w] = Status(config, hook[w])
        /\ metrics' = IF reply'[w] = Unauthorized THEN Add(metrics, "rejected") ELSE metrics
    BY <1>0, <1>11 DEF Handle, Answer
  <2>2. reply'[w] \in {Ok, BadRequest, Unauthorized, InternalError}
    BY <2>1 DEF Status, GithubStatus, GitlabStatus
  <2>3. w \in Reached' <=> w \in Reached  BY <1>1, <2>1 DEF Reached
  <2>4. w \notin Answered(TooManyRequests)'  BY <2>2 DEF Answered
  <2>5. w \in Answered(Unauthorized)' <=> reply'[w] = Unauthorized  BY DEF Answered
  <2>6. CASE reply'[w] = Unauthorized
    <3>1. AddsTo(w, "rejected")
      BY <1>3, <1>4, <1>5, <1>6, <2>1, <2>3, <2>4, <2>5, <2>6 DEF AddsTo
    <3> QED  BY <2>1, <3>1
  <2>7. CASE reply'[w] # Unauthorized
    <3>1. AddsTo(w, "none")
      BY <1>3, <1>4, <1>5, <1>6, <2>1, <2>3, <2>4, <2>5, <2>7 DEF AddsTo
    <3> QED  BY <2>1, <3>1
  <2> QED  BY <2>1, <2>6, <2>7
<1> QED  BY <1>7, <1>8, <1>9, <1>10, <1>11, <1>12 DEF Request

\* A step of a review before it is recorded adds to nothing.
LEMMA ReviewAdds ==
    ASSUME TypesInv, LeftInv, NEW w \in Webhooks,
           StartGit(w) \/ GitReturns(w) \/ Work(w) \/ Save(w)
    PROVE  /\ AddsTo(w, "none") /\ reply' = reply
           /\ pc'[w] \notin {"idle", "sent", "received", "admitted", "finished"}
           /\ pc'[w] \in {"posted", "recording"} => verdict'[w] \in Verdicts
           /\ pc'[w] = "recording" => left'[w] = RecordStart(verdict'[w])
<1> USE DEF Goes
<1>0. /\ pc \in [Webhooks -> RequestStates \cup ReviewStates]
      /\ DOMAIN verdict = Webhooks /\ DOMAIN left = Webhooks
  BY DEF TypesInv, TypeOK
<1>1. /\ reply' = reply /\ metrics' = metrics /\ addressKnown' = addressKnown
      /\ pc[w] \in {"spawned", "git", "working", "posted"}
  BY DEF StartGit, GitReturns, Work, Save, startVars
<1>2. /\ pc'[w] \in {"git", "working", "ended", "posted", "recording"}
      /\ pc'[w] \in {"posted", "recording"} => verdict'[w] \in Verdicts
      /\ pc'[w] = "recording" => left'[w] = RecordStart(verdict'[w])
  <2>1. CASE StartGit(w) \/ GitReturns(w)  BY <1>0, <2>1 DEF StartGit, GitReturns
  <2>2. CASE Work(w)  BY <1>0, <2>2, ServerAssumption DEF Work
  <2>3. CASE Save(w)
    <3>1. pc[w] = "posted" /\ verdict' = verdict  BY <2>3 DEF Save
    <3>2. verdict[w] \in Verdicts  BY <3>1 DEF LeftInv
    <3> QED  BY <1>0, <2>3, <3>1, <3>2 DEF Save
  <2> QED  BY <2>1, <2>2, <2>3
<1>3. w \in Reached' <=> w \in Reached  BY <1>1, <1>2 DEF Reached
<1>4. \A st : w \in Answered(st)' <=> w \in Answered(st)  BY <1>1 DEF Answered
<1>5. \A k \in {1, 2, 3, 4} : w \notin Done(k) /\ w \notin Done(k)'
  <2>1. pc'[w] = "recording" => Len(left'[w]) = 4  BY <1>2 DEF RecordStart
  <2>2. \A k \in {1, 2, 3, 4} : ~ (4 < k)  OBVIOUS
  <2>3. \A k \in {1, 2, 3, 4} : w \in Done(k)' => pc'[w] = "recording" /\ Len(left'[w]) < k
    BY <1>2 DEF Done, Begun
  <2>4. \A k \in {1, 2, 3, 4} : w \notin Done(k)  BY <1>1 DEF Done, Begun
  <2> QED  BY <2>1, <2>2, <2>3, <2>4
<1>6. \A v : w \notin Voted(v) /\ w \notin Voted(v)'  BY <1>5 DEF Voted
<1>7. AddsTo(w, "none")  BY <1>1, <1>3, <1>4, <1>5, <1>6, Names DEF AddsTo
<1> QED  BY <1>1, <1>2, <1>7

\* A review that is being recorded adds to the next of its counters.
LEMMA RecordAdds ==
    ASSUME TypesInv, LeftInv, NEW w \in Webhooks, Record(w)
    PROVE  /\ \E c \in Counters \cup {"none"} : AddsTo(w, c)
           /\ reply' = reply /\ verdict'[w] \in Verdicts
           /\ pc'[w] \in {"recording", "finished"}
           /\ pc'[w] = "recording" =>
                left'[w] \in {<<"total", verdict'[w], "latency", "repo">>,
                              <<verdict'[w], "latency", "repo">>,
                              <<"latency", "repo">>, <<"repo">>}
           /\ pc'[w] = "finished" => left'[w] = <<>>
<1> DEFINE v == verdict[w]
<1>0. /\ pc \in [Webhooks -> RequestStates \cup ReviewStates] /\ DOMAIN left = Webhooks
  BY DEF TypesInv, TypeOK
<1>1. /\ pc[w] = "recording" /\ metrics' = Add(metrics, Head(left[w]))
      /\ left'[w] = Tail(left[w])
      /\ pc'[w] = IF Len(left[w]) = 1 THEN "finished" ELSE "recording"
      /\ reply' = reply /\ verdict' = verdict /\ addressKnown' = addressKnown
  BY <1>0 DEF Record, startVars
<1>2. /\ v \in Verdicts
      /\ left[w] \in {<<"total", v, "latency", "repo">>, <<v, "latency", "repo">>,
                      <<"latency", "repo">>, <<"repo">>}
  BY <1>1 DEF LeftInv
<1> HIDE DEF v
<1>3. (w \in Reached' <=> w \in Reached) /\ \A st : w \in Answered(st)' <=> w \in Answered(st)
  BY <1>1 DEF Reached, Answered
<1>4. \A k : /\ w \in Done(k) <=> Len(left[w]) < k
             /\ w \in Done(k)' <=> Len(left'[w]) < k
  BY <1>1 DEF Done, Begun
<1>5. \A d : /\ w \in Voted(d) <=> w \in Done(3) /\ v = d
             /\ w \in Voted(d)' <=> w \in Done(3)' /\ v = d
  BY <1>1 DEF Voted, v
<1>6. /\ v \in Counters
      /\ v \notin {"received", "limited", "rejected", "total", "latency", "repo", "none"}
  BY <1>2, Names
<1>7. CASE left[w] = <<"total", v, "latency", "repo">>
  <2>1. Len(left[w]) = 4 /\ Head(left[w]) = "total" /\ left'[w] = <<v, "latency", "repo">>
    BY <1>1, <1>7
  <2>2. Len(left'[w]) = 3  BY <2>1
  <2>3. /\ ~ (w \in Done(4)) /\ (w \in Done(4)')
        /\ ~ (w \in Done(3)) /\ ~ (w \in Done(3)')
        /\ ~ (w \in Done(2)) /\ ~ (w \in Done(2)')
        /\ ~ (w \in Done(1)) /\ ~ (w \in Done(1)')
    BY <1>4, <2>1, <2>2
  <2>4. "total" \in Counters \cup {"none"} /\ metrics' = Add(metrics, "total")
    BY <1>1, <1>6, <2>1, Names
  <2>5. AddsTo(w, "total")  BY <1>3, <1>5, <1>6, <2>3, <2>4, Names DEF AddsTo
  <2>6. pc'[w] = "recording"  BY <1>1, <2>1
  <2> QED  BY <1>1, <1>2, <2>1, <2>4, <2>5, <2>6 DEF v
<1>8. CASE left[w] = <<v, "latency", "repo">>
  <2>1. Len(left[w]) = 3 /\ Head(left[w]) = v /\ left'[w] = <<"latency", "repo">>
    BY <1>1, <1>8
  <2>2. Len(left'[w]) = 2  BY <2>1
  <2>3. /\ (w \in Done(4)) /\ (w \in Done(4)')
        /\ ~ (w \in Done(3)) /\ (w \in Done(3)')
        /\ ~ (w \in Done(2)) /\ ~ (w \in Done(2)')
        /\ ~ (w \in Done(1)) /\ ~ (w \in Done(1)')
    BY <1>4, <2>1, <2>2
  <2>4. v \in Counters \cup {"none"} /\ metrics' = Add(metrics, v)
    BY <1>1, <1>6, <2>1, Names
  <2>5. AddsTo(w, v)  BY <1>3, <1>5, <1>6, <2>3, <2>4, Names DEF AddsTo
  <2>6. pc'[w] = "recording"  BY <1>1, <2>1
  <2> QED  BY <1>1, <1>2, <2>1, <2>4, <2>5, <2>6 DEF v
<1>9. CASE left[w] = <<"latency", "repo">>
  <2>1. Len(left[w]) = 2 /\ Head(left[w]) = "latency" /\ left'[w] = <<"repo">>
    BY <1>1, <1>9
  <2>2. Len(left'[w]) = 1  BY <2>1
  <2>3. /\ (w \in Done(4)) /\ (w \in Done(4)')
        /\ (w \in Done(3)) /\ (w \in Done(3)')
        /\ ~ (w \in Done(2)) /\ (w \in Done(2)')
        /\ ~ (w \in Done(1)) /\ ~ (w \in Done(1)')
    BY <1>4, <2>1, <2>2
  <2>4. "latency" \in Counters \cup {"none"} /\ metrics' = Add(metrics, "latency")
    BY <1>1, <1>6, <2>1, Names
  <2>5. AddsTo(w, "latency")  BY <1>3, <1>5, <1>6, <2>3, <2>4, Names DEF AddsTo
  <2>6. pc'[w] = "recording"  BY <1>1, <2>1
  <2> QED  BY <1>1, <1>2, <2>1, <2>4, <2>5, <2>6 DEF v
<1>10. CASE left[w] = <<"repo">>
  <2>1. Len(left[w]) = 1 /\ Head(left[w]) = "repo" /\ left'[w] = <<>>
    BY <1>1, <1>10
  <2>2. Len(left'[w]) = 0  BY <2>1
  <2>3. /\ (w \in Done(4)) /\ (w \in Done(4)')
        /\ (w \in Done(3)) /\ (w \in Done(3)')
        /\ (w \in Done(2)) /\ (w \in Done(2)')
        /\ ~ (w \in Done(1)) /\ (w \in Done(1)')
    BY <1>4, <2>1, <2>2
  <2>4. "repo" \in Counters \cup {"none"} /\ metrics' = Add(metrics, "repo")
    BY <1>1, <1>6, <2>1, Names
  <2>5. AddsTo(w, "repo")  BY <1>3, <1>5, <1>6, <2>3, <2>4, Names DEF AddsTo
  <2>6. pc'[w] = "finished"  BY <1>1, <2>1
  <2> QED  BY <1>1, <1>2, <2>1, <2>4, <2>5, <2>6 DEF v
<1> QED  BY <1>2, <1>7, <1>8, <1>9, <1>10


LEMMA CountersInit == Init => CountersInv
<1> SUFFICES ASSUME Init PROVE CountersInv  OBVIOUS
<1>1. \A w \in Webhooks : pc[w] = "idle" /\ reply[w] = 0  BY DEF Init
<1>2. /\ Reached = {} /\ Answered(TooManyRequests) = {} /\ Answered(Unauthorized) = {}
      /\ \A k : Done(k) = {}
  BY <1>1, Names DEF Reached, Answered, Done, Begun
<1>3. \A v : Voted(v) = {}  BY <1>2 DEF Voted
<1>4. Cardinality({}) = 0  BY FS_EmptySet
<1>5. \A c \in Counters : metrics[c] = 0  BY DEF Init, NoMetrics
<1>6. CountsInv
  BY <1>2, <1>3, <1>4, <1>5 DEF CountsInv, Counters, ReviewCounters
<1> QED  BY <1>1, <1>6 DEF CountersInv, LeftInv

\* A step of a webhook adds to at most one counter.
LEMMA HookAdds ==
    ASSUME TypesInv, LeftInv, NEW w \in Webhooks, HookStep(w)
    PROVE  LeftInv' /\ \E c \in Counters \cup {"none"} : AddsTo(w, c)
<1>1. \A v \in Webhooks \ {w} :
        /\ pc'[v] = pc[v] /\ reply'[v] = reply[v]
        /\ verdict'[v] = verdict[v] /\ left'[v] = left[v]
  BY OthersSame
<1>2. CASE Send(w) \/ Request(w)
  <2>1. /\ \E c \in Counters \cup {"none"} : AddsTo(w, c)
        /\ pc'[w] \notin {"posted", "recording", "finished"}
        /\ pc'[w] \in {"idle", "sent", "received", "admitted"} => reply'[w] = 0
    BY <1>2, RequestAdds
  <2> QED  BY <1>1, <2>1 DEF LeftInv
<1>3. CASE StartGit(w) \/ GitReturns(w) \/ Work(w) \/ Save(w)
  <2>1. /\ AddsTo(w, "none") /\ reply' = reply
        /\ pc'[w] \notin {"idle", "sent", "received", "admitted", "finished"}
        /\ pc'[w] \in {"posted", "recording"} => verdict'[w] \in Verdicts
        /\ pc'[w] = "recording" => left'[w] = RecordStart(verdict'[w])
    BY <1>3, ReviewAdds
  <2> QED  BY <1>1, <2>1 DEF LeftInv, RecordStart
<1>4. CASE Record(w)
  <2>1. /\ \E c \in Counters \cup {"none"} : AddsTo(w, c)
        /\ reply' = reply /\ verdict'[w] \in Verdicts
        /\ pc'[w] \in {"recording", "finished"}
        /\ pc'[w] = "recording" =>
             left'[w] \in {<<"total", verdict'[w], "latency", "repo">>,
                           <<verdict'[w], "latency", "repo">>,
                           <<"latency", "repo">>, <<"repo">>}
        /\ pc'[w] = "finished" => left'[w] = <<>>
    BY <1>4, RecordAdds
  <2> QED  BY <1>1, <2>1 DEF LeftInv
<1> QED  BY <1>2, <1>3, <1>4 DEF HookStep, Review

\* Every other step leaves the webhooks and the counters alone.
LEMMA OtherStep ==
    ASSUME [Next]_vars
    PROVE  \/ \E w \in Webhooks : HookStep(w)
           \/ UNCHANGED <<addressKnown, hookVars, verdict, left, metrics>>
<1> USE DEF startVars, reviewVars
<1>1. CASE UNCHANGED vars  BY <1>1 DEF vars
<1>2. CASE Load \/ Serve \/ Signal  BY <1>2 DEF Load, Serve, Signal
<1>3. CASE Ask \/ Reader
  BY <1>3 DEF Ask, Reader, NotFound, StartScrape, Scrape, ReadStats, ReadRows, Search,
              Routed, Reads
<1> QED  BY <1>1, <1>2, <1>3 DEF Next, HookStep

LEMMA CountersStep == TypesInv /\ CountersInv /\ [Next]_vars => CountersInv'
<1> SUFFICES ASSUME TypesInv, CountersInv, [Next]_vars PROVE CountersInv'  OBVIOUS
<1>1. ASSUME NEW w \in Webhooks, HookStep(w) PROVE CountersInv'
  <2>1. LeftInv'  BY <1>1, HookAdds DEF CountersInv
  <2>2. PICK c \in Counters \cup {"none"} : AddsTo(w, c)  BY <1>1, HookAdds DEF CountersInv
  <2> QED  BY <1>1, <2>1, <2>2, CountsNext DEF CountersInv
<1>2. CASE UNCHANGED <<addressKnown, hookVars, verdict, left, metrics>>
  BY <1>2 DEF CountersInv, LeftInv, CountsInv, Reached, Answered, Done, Voted, Begun, hookVars
<1> QED  BY <1>1, <1>2, OtherStep

\* Every number of reviews lies between those recorded and those begun.
Between(n) == n \in Nat /\ Cardinality(Finished) <= n /\ n <= Cardinality(Begun)

LEMMA SetSizes ==
    ASSUME NEW S \in SUBSET Webhooks, NEW T \in SUBSET S
    PROVE  /\ Cardinality(S) \in Nat /\ Cardinality(T) \in Nat
           /\ Cardinality(T) <= Cardinality(S)
<1>1. IsFiniteSet(S)  BY ServerAssumption, FS_Subset
<1>2. IsFiniteSet(T) /\ Cardinality(T) <= Cardinality(S)  BY <1>1, FS_Subset
<1> QED  BY <1>1, <1>2, FS_CardinalityType

LEMMA DoneBetween ==
    ASSUME TypesInv, LeftInv, NEW k \in 1 .. 4
    PROVE  Between(Cardinality(Done(k)))
<1>1. Begun \in SUBSET Webhooks /\ Done(k) \in SUBSET Begun  BY DEF Begun, Done
<1>2. Finished \in SUBSET Done(k)
  <2> SUFFICES ASSUME NEW w \in Finished PROVE w \in Done(k)  OBVIOUS
  <2>1. w \in Begun /\ left[w] = <<>>  BY DEF Finished, Begun, LeftInv
  <2>2. Len(<<>>) < k  OBVIOUS
  <2> QED  BY <2>1, <2>2 DEF Done
<1>3. Done(k) \in SUBSET Webhooks  BY <1>1
<1>4. Cardinality(Done(k)) \in Nat /\ Cardinality(Done(k)) <= Cardinality(Begun)
  BY <1>1, SetSizes
<1>5. Cardinality(Finished) <= Cardinality(Done(k))  BY <1>2, <1>3, SetSizes
<1> QED  BY <1>4, <1>5 DEF Between

LEMMA DisjointSizes ==
    ASSUME NEW S \in SUBSET Webhooks, NEW T \in SUBSET Webhooks, S \cap T = {}
    PROVE  /\ S \cup T \in SUBSET Webhooks
           /\ Cardinality(S \cup T) = Cardinality(S) + Cardinality(T)
<1>1. IsFiniteSet(S) /\ IsFiniteSet(T)  BY ServerAssumption, FS_Subset
<1>2. Cardinality(S) \in Nat /\ Cardinality(T) \in Nat  BY <1>1, FS_CardinalityType
<1>3. Cardinality(S \cup T) = Cardinality(S) + Cardinality(T) - Cardinality(S \cap T)
  BY <1>1, FS_Union
<1>4. Cardinality(S \cap T) = 0  BY FS_EmptySet
<1> QED  BY <1>2, <1>3, <1>4

\* The verdicts of the reviews that have come past the count of their verdict.
LEMMA VotesAddUp ==
    ASSUME TypesInv, LeftInv
    PROVE  Cardinality(Voted("Approve")) + Cardinality(Voted("RequestChanges"))
               + Cardinality(Voted("Comment")) = Cardinality(Done(3))
<1> DEFINE A == Voted("Approve")
           R == Voted("RequestChanges")
           C == Voted("Comment")
<1>1. /\ A \in SUBSET Webhooks /\ R \in SUBSET Webhooks /\ C \in SUBSET Webhooks
  BY DEF Voted, Done, Begun
<1>2. A \cap R = {} /\ (A \cup R) \cap C = {}  BY DEF Voted
<1>3. (A \cup R) \cup C = Done(3)
  <2>1. A \subseteq Done(3) /\ R \subseteq Done(3) /\ C \subseteq Done(3)  BY DEF Voted
  <2>2. ASSUME NEW w \in Done(3) PROVE w \in A \/ w \in R \/ w \in C
    <3>1. verdict[w] \in Verdicts  BY DEF Done, Begun, LeftInv
    <3> QED  BY <3>1 DEF Verdicts, Voted
  <2> QED  BY <2>1, <2>2
<1> HIDE DEF A, R, C
<1>4. A \cup R \in SUBSET Webhooks /\ Cardinality(A \cup R) = Cardinality(A) + Cardinality(R)
  BY <1>1, <1>2, DisjointSizes
<1>5. Cardinality((A \cup R) \cup C) = Cardinality(A \cup R) + Cardinality(C)
  BY <1>1, <1>2, <1>4, DisjointSizes
<1> QED  BY <1>3, <1>4, <1>5 DEF A, R, C

LEMMA CountersBetween ==
    ASSUME TypesInv, CountersInv
    PROVE  \A n \in {metrics["total"], metrics["latency"], metrics["repo"],
                     metrics["Approve"] + metrics["RequestChanges"] + metrics["Comment"]} :
             Between(n)
<1>1. LeftInv /\ CountsInv  BY DEF CountersInv
<1>2. Between(metrics["total"]) /\ Between(metrics["latency"]) /\ Between(metrics["repo"])
  <2>1. \A k \in {1, 2, 4} : k \in 1 .. 4  OBVIOUS
  <2> QED  BY <1>1, <2>1, DoneBetween DEF CountsInv
<1>3. Between(metrics["Approve"] + metrics["RequestChanges"] + metrics["Comment"])
  <2>1. 3 \in 1 .. 4  OBVIOUS
  <2>2. Between(Cardinality(Done(3)))  BY <1>1, <2>1, DoneBetween
  <2>3. /\ metrics["Approve"] = Cardinality(Voted("Approve"))
        /\ metrics["RequestChanges"] = Cardinality(Voted("RequestChanges"))
        /\ metrics["Comment"] = Cardinality(Voted("Comment"))
    BY <1>1 DEF CountsInv, Verdicts
  <2> QED  BY <1>1, <2>2, <2>3, VotesAddUp
<1> QED  BY <1>2, <1>3

\* For any webhooks and threads, in any order of their additions
\* (metrics.rs:80-104, main.rs:95-100): the counters say what happened.
THEOREM ServerCountersAddUp == Spec => []CountersAddUp
<1>1. TypesInv /\ CountersInv => CountersAddUp
  <2> SUFFICES ASSUME TypesInv, CountersInv PROVE CountersAddUp  OBVIOUS
  <2>1. ASSUME Begun = Finished
        PROVE  \A n \in {metrics["total"], metrics["latency"], metrics["repo"],
                         metrics["Approve"] + metrics["RequestChanges"]
                                            + metrics["Comment"]} :
                 n = Cardinality(Finished)
    <3>1. Cardinality(Begun) = Cardinality(Finished) /\ Cardinality(Finished) \in Nat
      <4>1. Finished \in SUBSET Webhooks /\ Finished \in SUBSET Finished  BY DEF Finished
      <4> QED  BY <2>1, <4>1, SetSizes
    <3>2. \A n : Between(n) => n = Cardinality(Finished)  BY <3>1 DEF Between
    <3> QED  BY <3>2, CountersBetween
  <2> QED  BY <2>1 DEF CountersInv, CountsInv, Reached, CountersAddUp
<1> QED  BY <1>1, TypesInit, TypesStep, CountersInit, CountersStep, PTL DEF Spec
-------------------------------------------------------------------------------
(* The scrape: what it reads of each counter, if it went on at once.         *)

Places == 1 .. 6
ReadAt(i) == IF i <= Len(get.seen) THEN get.seen[i] ELSE metrics[ScrapeOrder[i]]

\* The numbers of reviews that a scrape with these readings shows.
Shown(r) == {r[1], r[5], r[6], r[2] + r[3] + r[4]}
Readings == [i \in Places |-> ReadAt(i)]

GetShape ==
    DOMAIN get = {"kind", "filter", "state", "seen", "floor", "stats", "shown"}

ScrapeInv ==
    /\ GetShape
    /\ get.state \in {"idle", "sent"} => get.seen = <<>>
    /\ get.state = "counted" => get.kind = "dashboard"
    /\ get.state = "scraping" => get.kind = "metrics" /\ Len(get.seen) < 6
    /\ get.state = "answered" /\ get.kind = "metrics" => Len(get.seen) = 6
    /\ get.kind = "metrics" /\ get.state \in {"scraping", "answered"} =>
         /\ get.seen \in Seq(Nat) /\ get.floor \in Nat
         /\ \A i \in Places : ReadAt(i) \in Nat /\ ReadAt(i) <= metrics[ScrapeOrder[i]]
         /\ \A n \in Shown(Readings) : get.floor <= n

LEMMA Orders ==
    /\ Len(ScrapeOrder) = 6
    /\ \A i \in Places : ScrapeOrder[i] \in Counters
    /\ ScrapeOrder[1] = "total" /\ ScrapeOrder[2] = "Approve"
    /\ ScrapeOrder[3] = "RequestChanges" /\ ScrapeOrder[4] = "Comment"
    /\ ScrapeOrder[5] = "latency" /\ ScrapeOrder[6] = "repo"
    /\ {1, 2, 3, 4, 5, 6} = Places
<1>1. {1, 2, 3, 4, 5, 6} = Places  BY DEF Places
<1>2. /\ Len(ScrapeOrder) = 6
      /\ ScrapeOrder[1] = "total" /\ ScrapeOrder[2] = "Approve"
      /\ ScrapeOrder[3] = "RequestChanges" /\ ScrapeOrder[4] = "Comment"
      /\ ScrapeOrder[5] = "latency" /\ ScrapeOrder[6] = "repo"
  BY DEF ScrapeOrder
<1>3. \A i \in {1, 2, 3, 4, 5, 6} : ScrapeOrder[i] \in Counters
  BY <1>2 DEF Counters, ReviewCounters, Verdicts
<1> QED  BY <1>1, <1>2, <1>3

\* Readings that are no lower show numbers that are no lower.
LEMMA ShownGrows ==
    ASSUME NEW r, NEW s, NEW n \in Nat,
           \A i \in Places : r[i] \in Nat /\ s[i] \in Nat /\ r[i] <= s[i],
           \A m \in Shown(r) : n <= m
    PROVE  \A m \in Shown(s) : n <= m
<1>1. \A i \in {1, 2, 3, 4, 5, 6} : r[i] \in Nat /\ s[i] \in Nat /\ r[i] <= s[i]  BY Orders
<1>2. n <= r[1] /\ n <= r[5] /\ n <= r[6] /\ n <= r[2] + r[3] + r[4]  BY DEF Shown
<1>3. n <= s[1] /\ n <= s[5] /\ n <= s[6] /\ n <= s[2] + s[3] + s[4]  BY <1>1, <1>2
<1> QED  BY <1>3 DEF Shown

LEMMA CountersGrow ==
    ASSUME TypesInv, LeftInv, NEW w \in Webhooks, HookStep(w)
    PROVE  /\ get' = get
           /\ \A c \in Counters : metrics[c] \in Nat /\ metrics'[c] \in Nat
                                  /\ metrics[c] <= metrics'[c]
<1>1. get' = get
  BY DEF HookStep, Send, Request, Receive, Deny, Admit, Handle, Answer, Review, StartGit,
         GitReturns, Work, Save, Record, Goes
<1>2. PICK c \in Counters \cup {"none"} : AddsTo(w, c)  BY HookAdds
<1>3. \A d \in Counters : metrics[d] \in Nat  BY DEF TypesInv, TypeOK
<1>4. \A d \in Counters : metrics'[d] = IF c = d THEN metrics[d] + 1 ELSE metrics[d]
  BY <1>2, MetricsNext
<1>5. ASSUME NEW d \in Counters PROVE metrics'[d] \in Nat /\ metrics[d] <= metrics'[d]
  BY <1>3, <1>4
<1> QED  BY <1>1, <1>3, <1>5

LEMMA ScrapeInit == Init => ScrapeInv
  BY DEF Init, NoGet, Requested, ScrapeInv, GetShape

LEMMA ScrapeKept ==
    ASSUME ScrapeInv, get' = get,
           \A c \in Counters : metrics[c] \in Nat /\ metrics'[c] \in Nat
                               /\ metrics[c] <= metrics'[c]
    PROVE  ScrapeInv'
<1> SUFFICES ASSUME get.kind = "metrics", get.state \in {"scraping", "answered"}
             PROVE  /\ \A i \in Places : ReadAt(i)' \in Nat
                                         /\ ReadAt(i)' <= metrics'[ScrapeOrder[i]]
                    /\ \A n \in Shown(Readings') : get.floor <= n
  BY DEF ScrapeInv, GetShape
<1>1. ASSUME NEW i \in Places
      PROVE  /\ ReadAt(i) \in Nat /\ ReadAt(i)' \in Nat /\ ReadAt(i) <= ReadAt(i)'
             /\ ReadAt(i)' <= metrics'[ScrapeOrder[i]]
  <2>1. ScrapeOrder[i] \in Counters  BY Orders
  <2>2. ReadAt(i) \in Nat /\ ReadAt(i) <= metrics[ScrapeOrder[i]]  BY DEF ScrapeInv
  <2>3. CASE i <= Len(get.seen)
    <3>1. ReadAt(i)' = ReadAt(i)  BY <2>3 DEF ReadAt
    <3> QED  BY <2>1, <2>2, <3>1
  <2>4. CASE ~ (i <= Len(get.seen))
    <3>1. ReadAt(i)' = metrics'[ScrapeOrder[i]] /\ ReadAt(i) = metrics[ScrapeOrder[i]]
      BY <2>4 DEF ReadAt
    <3> QED  BY <2>1, <2>2, <3>1
  <2> QED  BY <2>3, <2>4
<1>2. /\ \A i \in Places : Readings[i] = ReadAt(i) /\ Readings'[i] = ReadAt(i)'
  BY DEF Readings
<1>3. get.floor \in Nat /\ \A n \in Shown(Readings) : get.floor <= n  BY DEF ScrapeInv
<1>4. \A i \in Places : /\ Readings[i] \in Nat /\ Readings'[i] \in Nat
                        /\ Readings[i] <= Readings'[i]
  BY <1>1, <1>2
<1> HIDE DEF ScrapeInv
<1>5. \A n \in Shown(Readings') : get.floor <= n  BY <1>3, <1>4, ShownGrows
<1> QED  BY <1>1, <1>5

\* The requests that read change nothing but the request.
LEMMA ReadsOnly ==
    ASSUME Ask \/ Reader
    PROVE  UNCHANGED <<startVars, shuttingDown, hookVars, reviewVars, metrics>>
  BY DEF Ask, Reader, NotFound, StartScrape, Scrape, ReadStats, ReadRows, Search, Routed, Reads

LEMMA ScrapeRead ==
    ASSUME TypesInv, CountersInv, ScrapeInv, Ask \/ Reader
    PROVE  ScrapeInv'
<1>0. metrics' = metrics /\ \A c \in Counters : metrics[c] \in Nat
  BY ReadsOnly DEF TypesInv, TypeOK
<1>1. CASE Ask
  <2>1. PICK g \in Gets : get' = Requested(g.kind, g.filter)  BY <1>1 DEF Ask, Reads
  <2>2. GetShape' /\ get'.state = "sent" /\ get'.seen = <<>>
    BY <2>1 DEF Requested, GetShape
  <2> QED  BY <2>2 DEF ScrapeInv
<1>2. CASE NotFound
  <2>1. get' = [get EXCEPT !.state = "not found"]  BY <1>2 DEF NotFound, Reads
  <2>2. GetShape' /\ get'.state = "not found"  BY <2>1 DEF ScrapeInv, GetShape
  <2> QED  BY <2>2 DEF ScrapeInv
<1>3. CASE StartScrape
  <2>1. /\ get' = [get EXCEPT !.state = "scraping", !.floor = Cardinality(Finished)]
        /\ get.kind = "metrics" /\ get.state = "sent"
    BY <1>3 DEF StartScrape, Routed, Reads
  <2>2. /\ GetShape' /\ get'.state = "scraping" /\ get'.kind = "metrics"
        /\ get'.seen = <<>> /\ get'.floor = Cardinality(Finished)
    BY <2>1 DEF ScrapeInv, GetShape
  <2>3. Len(<<>>) = 0 /\ <<>> \in Seq(Nat)  OBVIOUS
  <2>4. \A i \in Places : ReadAt(i)' = metrics[ScrapeOrder[i]]
    BY <1>0, <2>2, <2>3 DEF ReadAt, Places
  <2>5. \A i \in Places : Readings'[i] = metrics[ScrapeOrder[i]]
    BY <2>4 DEF Readings
  <2>6. Shown(Readings') = {metrics["total"], metrics["latency"], metrics["repo"],
                            metrics["Approve"] + metrics["RequestChanges"]
                                               + metrics["Comment"]}
    BY <2>5, Orders DEF Shown
  <2>7. \A n \in Shown(Readings') : get'.floor <= n
    BY <2>2, <2>6, CountersBetween DEF Between
  <2>8. get'.floor \in Nat
    <3>1. Finished \in SUBSET Webhooks /\ Finished \in SUBSET Finished  BY DEF Finished
    <3> QED  BY <2>2, <3>1, SetSizes
  <2>9. \A i \in Places : ReadAt(i)' \in Nat /\ ReadAt(i)' <= metrics'[ScrapeOrder[i]]
    BY <1>0, <2>4, Orders
  <2> QED  BY <2>2, <2>3, <2>7, <2>8, <2>9 DEF ScrapeInv
<1>4. CASE Scrape
  <2> DEFINE n == Len(get.seen) + 1
             seen == Append(get.seen, metrics[ScrapeOrder[n]])
  <2>1. /\ get' = [get EXCEPT !.seen = seen,
                              !.state = IF n = Len(ScrapeOrder) THEN "answered" ELSE "scraping"]
        /\ get.state = "scraping" /\ get.kind = "metrics"
    BY <1>4 DEF Scrape, Reads, ScrapeInv
  <2>2. /\ GetShape' /\ get'.kind = "metrics" /\ get'.seen = seen /\ get'.floor = get.floor
        /\ get'.state = IF n = 6 THEN "answered" ELSE "scraping"
    BY <2>1, Orders DEF ScrapeInv, GetShape
  <2>3. /\ get.seen \in Seq(Nat) /\ Len(get.seen) \in Nat /\ Len(get.seen) < 6
        /\ get.floor \in Nat
    BY <2>1 DEF ScrapeInv
  <2>4. n \in Places  BY <2>3 DEF Places
  <2>5. metrics[ScrapeOrder[n]] \in Nat  BY <1>0, <2>4, Orders
  <2>6. /\ seen \in Seq(Nat) /\ Len(seen) = n /\ seen[n] = metrics[ScrapeOrder[n]]
        /\ \A i \in 1 .. Len(get.seen) : seen[i] = get.seen[i]
    BY <2>3, <2>5
  <2> HIDE DEF seen
  <2>15. Len(get.seen) \in Nat /\ Len(seen) = Len(get.seen) + 1  BY <2>3, <2>6
  <2>7. ASSUME NEW i \in Places PROVE ReadAt(i)' = ReadAt(i)
    <3>0. i \in Nat /\ i >= 1  BY DEF Places
    <3>1. CASE i < n
      <4>1. i \in 1 .. Len(get.seen) /\ i <= Len(seen)  BY <2>15, <3>0, <3>1
      <4> QED  BY <2>2, <2>6, <4>1 DEF ReadAt
    <3>2. CASE i = n
      <4>1. i <= Len(seen) /\ ~ (i <= Len(get.seen))  BY <2>15, <3>2
      <4> QED  BY <2>2, <2>6, <3>2, <4>1 DEF ReadAt
    <3>3. CASE i > n
      <4>1. ~ (i <= Len(seen)) /\ ~ (i <= Len(get.seen))  BY <2>15, <3>0, <3>3
      <4> QED  BY <1>0, <2>2, <4>1 DEF ReadAt
    <3> QED  BY <2>3, <3>0, <3>1, <3>2, <3>3
  <2>8. Readings' = Readings  BY <2>7 DEF Readings
  <2>9. /\ \A i \in Places : ReadAt(i) \in Nat /\ ReadAt(i) <= metrics[ScrapeOrder[i]]
        /\ \A m \in Shown(Readings) : get.floor <= m
    BY <2>1 DEF ScrapeInv
  <2>10. /\ \A i \in Places : ReadAt(i)' \in Nat /\ ReadAt(i)' <= metrics'[ScrapeOrder[i]]
         /\ \A m \in Shown(Readings') : get'.floor <= m
    BY <1>0, <2>2, <2>7, <2>8, <2>9
  <2>11. Len(get'.seen) = n /\ n \in Nat /\ n <= 6  BY <2>2, <2>3, <2>6
  <2>12. get'.seen \in Seq(Nat) /\ get'.floor \in Nat  BY <2>2, <2>3, <2>6
  <2>13. CASE n = 6
    <3>1. get'.state = "answered" /\ Len(get'.seen) = 6  BY <2>2, <2>11, <2>13
    <3> QED  BY <2>2, <2>10, <2>12, <3>1 DEF ScrapeInv
  <2>14. CASE n # 6
    <3>1. get'.state = "scraping" /\ Len(get'.seen) < 6  BY <2>2, <2>11, <2>14
    <3> QED  BY <2>2, <2>10, <2>12, <3>1 DEF ScrapeInv
  <2> QED  BY <2>13, <2>14
<1>5. CASE ReadStats
  <2>1. /\ get' = [get EXCEPT !.stats = GetStats(rows),
                              !.state = IF get.kind = "dashboard" THEN "counted" ELSE "answered"]
        /\ get.kind \in {"health", "stats", "dashboard"}
    BY <1>5 DEF ReadStats, Routed, Reads
  <2>2. GetShape' /\ get'.kind = get.kind /\ get'.state \in {"counted", "answered"}
    BY <2>1 DEF ScrapeInv, GetShape
  <2> QED  BY <2>1, <2>2 DEF ScrapeInv
<1>6. CASE ReadRows
  <2>1. /\ get' = [get EXCEPT !.shown = GetRecentReviews(rows, PageSize), !.state = "answered"]
        /\ get.state = "counted"
    BY <1>6 DEF ReadRows, Reads
  <2>2. GetShape' /\ get'.kind = get.kind /\ get'.state = "answered"
    BY <2>1 DEF ScrapeInv, GetShape
  <2>3. get.kind # "metrics"  BY <2>1 DEF ScrapeInv
  <2> QED  BY <2>2, <2>3 DEF ScrapeInv
<1>7. CASE Search
  <2>1. /\ get' = [get EXCEPT !.shown = SearchReviews(rows, get.filter),
                              !.floor = Len(rows), !.state = "answered"]
        /\ get.kind = "search"
    BY <1>7 DEF Search, Routed, Reads
  <2>2. GetShape' /\ get'.kind = get.kind /\ get'.state = "answered"
    BY <2>1 DEF ScrapeInv, GetShape
  <2> QED  BY <2>1, <2>2 DEF ScrapeInv
<1> QED  BY <1>1, <1>2, <1>3, <1>4, <1>5, <1>6, <1>7 DEF Reader

LEMMA ScrapeStep == TypesInv /\ CountersInv /\ ScrapeInv /\ [Next]_vars => ScrapeInv'
<1> SUFFICES ASSUME TypesInv, CountersInv, ScrapeInv, [Next]_vars PROVE ScrapeInv'  OBVIOUS
<1>1. ASSUME NEW w \in Webhooks, HookStep(w) PROVE ScrapeInv'
  BY <1>1, CountersGrow, ScrapeKept DEF CountersInv
<1>2. CASE Load \/ Serve \/ Signal \/ UNCHANGED vars
  <2>1. get' = get /\ metrics' = metrics  BY <1>2 DEF Load, Serve, Signal, vars
  <2>2. \A c \in Counters : metrics[c] \in Nat /\ metrics[c] <= metrics[c]
    BY DEF TypesInv, TypeOK
  <2> QED  BY <2>1, <2>2, ScrapeKept
<1>3. CASE Ask \/ Reader  BY <1>3, ScrapeRead
<1> QED  BY <1>1, <1>2, <1>3 DEF Next, HookStep

\* However long a scrape takes, and whatever is recorded meanwhile
\* (metrics.rs:159-310): no number it shows is too low or too high.
THEOREM ServerScrapeWithinOverlap == Spec => []ScrapeWithinOverlap
<1>1. TypesInv /\ CountersInv /\ ScrapeInv => ScrapeWithinOverlap
  <2> SUFFICES ASSUME TypesInv, CountersInv, ScrapeInv,
                      get.kind = "metrics", get.state = "answered"
               PROVE  \A x \in Shown(get.seen) : get.floor <= x /\ x <= Cardinality(Begun)
    BY DEF ScrapeWithinOverlap, Shown
  <2>1. /\ Len(get.seen) = 6
        /\ \A i \in Places : ReadAt(i) \in Nat /\ ReadAt(i) <= metrics[ScrapeOrder[i]]
        /\ \A n \in Shown(Readings) : get.floor <= n
    BY DEF ScrapeInv
  <2>2. \A i \in Places : ReadAt(i) = get.seen[i]  BY <2>1 DEF ReadAt, Places
  <2>3. \A i \in Places : Readings[i] = get.seen[i]  BY <2>2 DEF Readings
  <2>4. Shown(get.seen) = Shown(Readings)  BY <2>3, Orders DEF Shown
  <2>5. \A i \in {1, 2, 3, 4, 5, 6} :
          get.seen[i] \in Nat /\ get.seen[i] <= metrics[ScrapeOrder[i]]
    BY <2>1, <2>2, Orders
  <2>6. \A c \in Counters : metrics[c] \in Nat  BY DEF TypesInv, TypeOK
  <2>7. /\ Between(metrics["total"]) /\ Between(metrics["latency"]) /\ Between(metrics["repo"])
        /\ Between(metrics["Approve"] + metrics["RequestChanges"] + metrics["Comment"])
    BY CountersBetween
  <2>8. Cardinality(Begun) \in Nat
    <3>1. Begun \in SUBSET Webhooks /\ Begun \in SUBSET Begun  BY DEF Begun
    <3> QED  BY <3>1, SetSizes
  <2>9. \A c \in {"Approve", "RequestChanges", "Comment"} : metrics[c] \in Nat
    BY <2>6 DEF Counters, ReviewCounters, Verdicts
  <2>10. /\ get.seen[1] <= Cardinality(Begun) /\ get.seen[5] <= Cardinality(Begun)
         /\ get.seen[6] <= Cardinality(Begun)
         /\ get.seen[2] + get.seen[3] + get.seen[4] <= Cardinality(Begun)
    BY <2>5, <2>7, <2>8, <2>9, Orders DEF Between
  <2> QED  BY <2>1, <2>4, <2>10 DEF Shown
<1> QED
  BY <1>1, TypesInit, TypesStep, CountersInit, CountersStep, ScrapeInit, ScrapeStep, PTL
     DEF Spec
-------------------------------------------------------------------------------
(* The page and the search: what they show of a table that only grows.       *)

\* The first Len(t) of s.
Begins(t, s) ==
    /\ Len(t) \in Nat /\ Len(t) <= Len(s)
    /\ \A i \in 1 .. Len(t) : t[i] = s[i]

LEMMA LimitedIs ==
    ASSUME NEW s \in Seq(Nat), NEW limit \in Int
    PROVE  /\ Begins(Limited(s, limit), s)
           /\ limit < 0 \/ limit >= Len(s) => Len(Limited(s, limit)) = Len(s)
           /\ ~ (limit < 0 \/ limit >= Len(s)) => Len(Limited(s, limit)) = limit
<1>1. CASE limit < 0 \/ limit >= Len(s)  BY <1>1 DEF Limited, Begins
<1>2. CASE ~ (limit < 0 \/ limit >= Len(s))
  <2>1. limit \in Nat /\ limit < Len(s) /\ Len(s) \in Nat  BY <1>2
  <2>2. Limited(s, limit) = SubSeq(s, 1, limit)  BY <1>2 DEF Limited
  <2>3. Len(SubSeq(s, 1, limit)) = limit /\ \A i \in 1 .. limit : SubSeq(s, 1, limit)[i] = s[i]
    BY <2>1
  <2> QED  BY <1>2, <2>1, <2>2, <2>3 DEF Begins
<1> QED  BY <1>1, <1>2

LEMMA NewestFirstIs ==
    ASSUME NEW n \in Nat
    PROVE  /\ NewestFirst(n) \in Seq(Nat) /\ Len(NewestFirst(n)) = n
           /\ DOMAIN NewestFirst(n) = 1 .. n
           /\ \A i \in 1 .. n : NewestFirst(n)[i] = n + 1 - i
<1>1. \A i \in 1 .. n : n + 1 - i \in Nat  OBVIOUS
<1> QED  BY <1>1 DEF NewestFirst

\* What the page promises of a total it has shown.
PageCovers(shown, total) ==
    LET n == Len(shown) IN
    /\ n >= (IF total < PageSize THEN total ELSE PageSize)
    /\ n > 0 => shown[1] >= total
    /\ \A i \in 1 .. n - 1 : shown[i] = shown[i + 1] + 1

LEMMA RecentCovers ==
    ASSUME NEW n \in Nat, NEW total \in 0 .. n
    PROVE  PageCovers(Limited(NewestFirst(n), PageSize), total)
<1> DEFINE s == NewestFirst(n)
           t == Limited(s, PageSize)
<1>1. /\ s \in Seq(Nat) /\ Len(s) = n
      /\ \A i \in 1 .. n : s[i] = n + 1 - i
  BY NewestFirstIs
<1>2. PageSize \in Nat /\ PageSize \in Int /\ ~ (PageSize < 0)  BY ServerAssumption
<1> HIDE DEF s
<1>3. /\ Begins(t, s)
      /\ PageSize >= n => Len(t) = n
      /\ ~ (PageSize >= n) => Len(t) = PageSize
  BY <1>1, <1>2, LimitedIs
<1> HIDE DEF t
<1>4. Len(t) \in Nat /\ Len(t) <= n  BY <1>1, <1>3 DEF Begins
<1>5. Len(t) >= (IF total < PageSize THEN total ELSE PageSize)  BY <1>2, <1>3
<1>6. ASSUME NEW i \in 1 .. Len(t) PROVE t[i] = n + 1 - i
  <2>1. i \in 1 .. n  BY <1>4
  <2> QED  BY <1>1, <1>3, <2>1 DEF Begins
<1>7. Len(t) > 0 => t[1] >= total
  <2> SUFFICES ASSUME Len(t) > 0 PROVE t[1] >= total  OBVIOUS
  <2>1. 1 \in 1 .. Len(t)  BY <1>4
  <2>2. t[1] = n + 1 - 1  BY <1>6, <2>1
  <2> QED  BY <2>2
<1>8. ASSUME NEW i \in 1 .. Len(t) - 1 PROVE t[i] = t[i + 1] + 1
  <2>1. i \in 1 .. Len(t) /\ i + 1 \in 1 .. Len(t) /\ i \in Nat  BY <1>4
  <2>2. t[i] = n + 1 - i /\ t[i + 1] = n + 1 - (i + 1)  BY <1>6, <2>1
  <2> QED  BY <2>1, <2>2
<1> QED  BY <1>5, <1>7, <1>8 DEF PageCovers, s, t

\* What a search promises of the first n rows of the table.
SearchCovers(shown, n, table, filter) ==
    \A i \in 1 .. n :
        Matches(table[i], filter) =>
            \/ \E j \in 1 .. Len(shown) : shown[j] = i
            \/ Len(shown) = filter.limit /\ \A j \in 1 .. Len(shown) : shown[j] > i

LEMMA SearchShows ==
    ASSUME NEW S, NEW table \in Seq(S), NEW filter, filter.limit \in Int
    PROVE  SearchCovers(SearchReviews(table, filter), Len(table), table, filter)
<1> DEFINE T == {i \in DOMAIN table : Matches(table[i], filter)}
           found == Ascending(T, Len(table))
           newest == NewestFirst(Len(found))
           s == [j \in DOMAIN newest |-> found[newest[j]]]
           t == Limited(s, filter.limit)
           m == Len(found)
<1>1. Len(table) \in Nat /\ DOMAIN table = 1 .. Len(table)  OBVIOUS
<1>2. T \in SUBSET (1 .. Len(table))  BY <1>1
<1>3. /\ \A i \in T : i \in 1 .. Len(table)
      /\ \A i \in 1 .. Len(table) : Matches(table[i], filter) => i \in T
  BY <1>1
<1>4. SearchReviews(table, filter) = t  BY DEF SearchReviews
<1> HIDE DEF T
<1>5. Enumerates(found, T)  BY <1>1, <1>2, AscendingOf
<1> HIDE DEF found
<1>6. found \in Seq(Nat) /\ m \in Nat /\ \A k \in 1 .. m : found[k] \in Nat
  BY <1>5 DEF Enumerates
<1>7. DOMAIN newest = 1 .. m /\ \A j \in 1 .. m : newest[j] = m + 1 - j
  BY <1>6, NewestFirstIs
<1> HIDE DEF newest
<1>8. /\ s \in Seq(Nat) /\ Len(s) = m
      /\ \A j \in 1 .. m : s[j] = found[m + 1 - j]
  <2>1. \A j \in 1 .. m : m + 1 - j \in 1 .. m  BY <1>6
  <2> DEFINE u == [j \in 1 .. m |-> found[m + 1 - j]]
  <2>2. s = u  BY <1>7
  <2>3. \A j \in 1 .. m : found[m + 1 - j] \in Nat  BY <1>6, <2>1
  <2> HIDE DEF m, s
  <2>4. u \in Seq(Nat) /\ Len(u) = m /\ \A j \in 1 .. m : u[j] = found[m + 1 - j]
    BY <1>6, <2>3
  <2> HIDE DEF u
  <2> QED  BY <2>2, <2>4
<1> HIDE DEF s
<1>9. /\ Begins(t, s)
      /\ Len(t) = m \/ Len(t) = filter.limit
  BY <1>8, LimitedIs
<1> HIDE DEF t
<1> SUFFICES ASSUME NEW i \in T
             PROVE  \/ \E j \in 1 .. Len(t) : t[j] = i
                    \/ Len(t) = filter.limit /\ \A j \in 1 .. Len(t) : t[j] > i
  BY <1>3, <1>4 DEF SearchCovers
<1>10. PICK k \in 1 .. m : found[k] = i  BY <1>5 DEF Enumerates
<1>11. Len(t) \in Nat /\ Len(t) <= m /\ \A j \in 1 .. Len(t) : t[j] = s[j]
  BY <1>8, <1>9 DEF Begins
<1> HIDE DEF m
<1>12. ASSUME NEW j \in 1 .. Len(t) PROVE j \in 1 .. m /\ t[j] = found[m + 1 - j]
  <2>1. j \in 1 .. m  BY <1>6, <1>11
  <2> QED  BY <1>8, <1>11, <2>1
<1>13. CASE m + 1 - k <= Len(t)
  <2> DEFINE j == m + 1 - k
  <2>1. j \in 1 .. Len(t) /\ m + 1 - j = k  BY <1>6, <1>11, <1>13
  <2>2. t[j] = i  BY <1>10, <1>12, <2>1
  <2> QED  BY <2>1, <2>2
<1>14. CASE ~ (m + 1 - k <= Len(t))
  <2>1. Len(t) # m  BY <1>6, <1>11, <1>14
  <2>2. ASSUME NEW j \in 1 .. Len(t) PROVE t[j] > i
    <3>1. k \in 1 .. m /\ m + 1 - j \in 1 .. m /\ k < m + 1 - j
      BY <1>6, <1>11, <1>14
    <3>2. found[k] < found[m + 1 - j]  BY <1>5, <3>1 DEF Enumerates, m
    <3>3. found[k] \in Nat /\ found[m + 1 - j] \in Nat  BY <1>6, <3>1
    <3> QED  BY <1>10, <1>12, <3>2, <3>3
  <2> QED  BY <1>9, <2>1, <2>2
<1> QED  BY <1>13, <1>14

Table == Seq([repo : Providers, verdict : Verdicts])

PageInv ==
    /\ rows \in Table
    /\ get.kind = "search" => get.filter.limit \in Int
    /\ get.state = "counted" => get.stats.total \in 0 .. Len(rows)
    /\ get.state = "answered" /\ get.kind = "dashboard" =>
         PageCovers(get.shown, get.stats.total)
    /\ get.state = "answered" /\ get.kind = "search" =>
         /\ get.floor \in 0 .. Len(rows)
         /\ SearchCovers(get.shown, get.floor, rows, get.filter)

LEMMA PageInit == Init => PageInv
  BY DEF Init, PageInv, NoGet, Requested, Table

\* Rows are only added.
LEMMA RowsGrow ==
    ASSUME TypesInv, LeftInv, PageInv, NEW w \in Webhooks, HookStep(w)
    PROVE  /\ get' = get /\ rows' \in Table
           /\ Len(rows) \in Nat /\ Len(rows') \in Nat /\ Len(rows) <= Len(rows')
           /\ \A i \in 1 .. Len(rows) : rows'[i] = rows[i]
<1>1. get' = get  BY CountersGrow
<1>2. rows \in Table  BY DEF PageInv
<1>3. CASE rows' = rows  BY <1>1, <1>2, <1>3 DEF Table
<1>4. CASE rows' # rows
  <2>1. Save(w)
    BY <1>4 DEF HookStep, Send, Request, Receive, Deny, Admit, Handle, Answer, Review, StartGit,
                GitReturns, Work, Record, Goes, reviewVars
  <2> DEFINE r == Row(hook[w].provider, verdict[w])
  <2>2. rows' = Append(rows, r)  BY <1>4, <2>1 DEF Save, SaveReview
  <2>3. r \in [repo : Providers, verdict : Verdicts]
    <3>1. pc[w] = "posted"  BY <2>1 DEF Save, Goes
    <3>2. verdict[w] \in Verdicts /\ hook[w] \in Events
      BY <3>1 DEF LeftInv, TypesInv, TypeOK
    <3> QED  BY <3>2, ServerAssumption DEF Row
  <2> HIDE DEF r
  <2> QED  BY <1>1, <1>2, <2>2, <2>3 DEF Table
<1> QED  BY <1>3, <1>4

LEMMA PageKept ==
    ASSUME PageInv, get' = get, rows' \in Table,
           Len(rows) \in Nat, Len(rows') \in Nat, Len(rows) <= Len(rows'),
           \A i \in 1 .. Len(rows) : rows'[i] = rows[i]
    PROVE  PageInv'
<1>1. \A n : n \in 0 .. Len(rows) => n \in 0 .. Len(rows')  OBVIOUS
<1>2. ASSUME get.floor \in 0 .. Len(rows),
             SearchCovers(get.shown, get.floor, rows, get.filter)
      PROVE  SearchCovers(get.shown, get.floor, rows', get.filter)
  <2>1. \A i \in 1 .. get.floor : rows'[i] = rows[i]  BY <1>2
  <2> QED  BY <1>2, <2>1 DEF SearchCovers
<1> QED  BY <1>1, <1>2 DEF PageInv

LEMMA PageRead ==
    ASSUME ScrapeInv, PageInv, Ask \/ Reader
    PROVE  PageInv'
<1>0. rows' = rows /\ rows \in Table /\ Len(rows) \in Nat
  BY ReadsOnly DEF reviewVars, PageInv, Table
<1>1. CASE Ask
  <2>1. PICK g \in Gets : get' = Requested(g.kind, g.filter)  BY <1>1 DEF Ask, Reads
  <2>2. get'.state = "sent" /\ get'.kind = g.kind /\ get'.filter = g.filter
    BY <2>1 DEF Requested
  <2> QED  BY <1>0, <2>2, ServerAssumption DEF PageInv
<1>2. ASSUME get' = [get EXCEPT !.state = "not found"] PROVE PageInv'
  <2>1. /\ get'.state = "not found" /\ get'.kind = get.kind /\ get'.filter = get.filter
    BY <1>2 DEF ScrapeInv, GetShape
  <2> QED  BY <1>0, <2>1 DEF PageInv
<1>3. CASE NotFound  BY <1>2, <1>3 DEF NotFound, Reads
<1>4. CASE StartScrape
  <2>1. get' = [get EXCEPT !.state = "scraping", !.floor = Cardinality(Finished)]
    BY <1>4 DEF StartScrape, Reads
  <2>2. /\ get'.state = "scraping" /\ get'.kind = get.kind /\ get'.filter = get.filter
    BY <2>1 DEF ScrapeInv, GetShape
  <2> QED  BY <1>0, <2>2 DEF PageInv
<1>5. CASE Scrape
  <2>1. \E s, t : get' = [get EXCEPT !.seen = s, !.state = t]
    BY <1>5 DEF Scrape, Reads
  <2>2. get'.kind = get.kind /\ get'.filter = get.filter
    BY <2>1 DEF ScrapeInv, GetShape
  <2>3. get.kind = "metrics" /\ get'.state \in {"scraping", "answered"}
    BY <1>5 DEF Scrape, Reads, ScrapeInv, GetShape
  <2> QED  BY <1>0, <2>2, <2>3 DEF PageInv
<1>6. CASE ReadStats
  <2>1. /\ get' = [get EXCEPT !.stats = GetStats(rows),
                              !.state = IF get.kind = "dashboard" THEN "counted" ELSE "answered"]
        /\ get.kind \in {"health", "stats", "dashboard"}
    BY <1>6 DEF ReadStats, Routed, Reads
  <2>2. /\ get'.kind = get.kind /\ get'.filter = get.filter
        /\ get'.stats = GetStats(rows)
        /\ get'.state = IF get.kind = "dashboard" THEN "counted" ELSE "answered"
    BY <2>1 DEF ScrapeInv, GetShape
  <2>3. GetStats(rows).total = Len(rows)  BY DEF GetStats
  <2>4. Len(rows) \in 0 .. Len(rows)  BY <1>0
  <2>5. CASE get.kind = "dashboard"
    BY <1>0, <2>2, <2>3, <2>4, <2>5 DEF PageInv
  <2>6. CASE get.kind # "dashboard"
    BY <1>0, <2>1, <2>2, <2>6 DEF PageInv
  <2> QED  BY <2>5, <2>6
<1>7. CASE ReadRows
  <2>1. /\ get' = [get EXCEPT !.shown = GetRecentReviews(rows, PageSize), !.state = "answered"]
        /\ get.state = "counted"
    BY <1>7 DEF ReadRows, Reads
  <2>2. /\ get'.kind = get.kind /\ get'.filter = get.filter /\ get'.stats = get.stats
        /\ get'.shown = GetRecentReviews(rows, PageSize) /\ get'.state = "answered"
    BY <2>1 DEF ScrapeInv, GetShape
  <2>3. get.kind = "dashboard" /\ get.stats.total \in 0 .. Len(rows)
    BY <2>1 DEF ScrapeInv, PageInv
  <2>4. PageCovers(get'.shown, get'.stats.total)
    BY <1>0, <2>2, <2>3, RecentCovers DEF GetRecentReviews
  <2> QED  BY <1>0, <2>2, <2>3, <2>4 DEF PageInv
<1>8. CASE Search
  <2>1. /\ get' = [get EXCEPT !.shown = SearchReviews(rows, get.filter),
                              !.floor = Len(rows), !.state = "answered"]
        /\ get.kind = "search"
    BY <1>8 DEF Search, Routed, Reads
  <2>2. /\ get'.kind = "search" /\ get'.filter = get.filter /\ get'.floor = Len(rows)
        /\ get'.shown = SearchReviews(rows, get.filter) /\ get'.state = "answered"
    BY <2>1 DEF ScrapeInv, GetShape
  <2>3. get.filter.limit \in Int  BY <2>1 DEF PageInv
  <2>4. SearchCovers(get'.shown, get'.floor, rows, get'.filter)
    BY <1>0, <2>2, <2>3, SearchShows DEF Table
  <2>5. get'.floor \in 0 .. Len(rows)  BY <1>0, <2>2
  <2> QED  BY <1>0, <2>2, <2>3, <2>4, <2>5 DEF PageInv
<1> QED  BY <1>1, <1>3, <1>4, <1>5, <1>6, <1>7, <1>8 DEF Reader

LEMMA PageStep ==
    TypesInv /\ CountersInv /\ ScrapeInv /\ PageInv /\ [Next]_vars => PageInv'
<1> SUFFICES ASSUME TypesInv, CountersInv, ScrapeInv, PageInv, [Next]_vars PROVE PageInv'
  OBVIOUS
<1>1. ASSUME NEW w \in Webhooks, HookStep(w) PROVE PageInv'
  BY <1>1, RowsGrow, PageKept DEF CountersInv
<1>2. CASE Load \/ Serve \/ Signal \/ UNCHANGED vars
  <2>1. get' = get /\ rows' = rows  BY <1>2 DEF Load, Serve, Signal, vars, reviewVars
  <2> QED  BY <2>1 DEF PageInv
<1>3. CASE Ask \/ Reader  BY <1>3, PageRead
<1> QED  BY <1>1, <1>2, <1>3 DEF Next, HookStep

\* For every size of a page, every filter and limit, and whatever is saved
\* between the two holds of the mutex (dashboard.rs:97-98, db.rs:175-190,
\* 310-370): a reader is shown what it is told there is.
THEOREM ServerPageCoversTotal == Spec => []PageCoversTotal
<1>1. PageInv => PageCoversTotal
  BY DEF PageInv, PageCoversTotal, PageCovers, SearchCovers
<1> QED
  BY <1>1, TypesInit, TypesStep, CountersInit, CountersStep, ScrapeInit, ScrapeStep,
     PageInit, PageStep, PTL DEF Spec
===============================================================================
