-------------------------------- MODULE Webhook --------------------------------
(***************************************************************************)
(* The checks the two webhook handlers make before they start a review:    *)
(* src/src/github.rs and src/src/gitlab.rs, webhook_handler.               *)
(*                                                                         *)
(* An event has its provider; key, the secret its sender signed it with or *)
(* put into the token header, NoKey without the header; wellFormed,        *)
(* whether the body can be parsed; action; and                             *)
(*   from GitHub: hasPr, whether there is a pull request;                  *)
(*   from GitLab: kind, the object_kind; mrIn, the fields that hold a      *)
(*   merge request; state, the state of that merge request.                *)
(* Hashes are taken to be free of collisions.                              *)
(***************************************************************************)
EXTENDS Integers

NoKey == "no header"

\* verify_github_signature: a missing or unreadable header decodes to no
\* bytes, or to none that a MAC has.
VerifyGithubSignature(secret, e) == e.key # NoKey /\ e.key = secret

\* verify_gitlab_token: a missing header counts as the empty token.
VerifyGitlabToken(secret, e) == (IF e.key = NoKey THEN "" ELSE e.key) = secret

\* The event is one that starts a review, once it is accepted.
GithubWanted(e) == e.action \in {"opened", "synchronize", "reopened"}

GitlabMergeRequest(e) ==
    \/ e.kind = "merge_request" /\ "object_attributes" \in e.mrIn
    \/ e.kind = "pipeline" /\ "merge_request" \in e.mrIn

GitlabWanted(e) ==
    GitlabMergeRequest(e)
    /\ (e.state = "opened" \/ e.action \in {"open", "update", "reopen"})

Ok == 200
BadRequest == 400
Unauthorized == 401
TooManyRequests == 429
InternalError == 500

\* Configuration, signature, body, action, pull request: in this order.
GithubStatus(cfg, e) ==
    IF "github" \notin DOMAIN cfg THEN InternalError
    ELSE IF ~VerifyGithubSignature(cfg["github"].webhook_secret, e)
         THEN Unauthorized
    ELSE IF ~e.wellFormed \/ (GithubWanted(e) /\ ~e.hasPr) THEN BadRequest
    ELSE Ok

\* Body, configuration, token: in this order.
GitlabStatus(cfg, e) ==
    IF ~e.wellFormed THEN BadRequest
    ELSE IF "gitlab" \notin DOMAIN cfg THEN InternalError
    ELSE IF ~VerifyGitlabToken(cfg["gitlab"].webhook_secret, e)
         THEN Unauthorized
    ELSE Ok

Status(cfg, e) ==
    IF e.provider = "github" THEN GithubStatus(cfg, e) ELSE GitlabStatus(cfg, e)

Wanted(e) == IF e.provider = "github" THEN GithubWanted(e) ELSE GitlabWanted(e)

\* The handler gets as far as tokio::spawn.
StartsReview(cfg, e) == Status(cfg, e) = Ok /\ Wanted(e)
===============================================================================
