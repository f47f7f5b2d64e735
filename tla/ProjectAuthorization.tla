------------------------ MODULE ProjectAuthorization ------------------------
(***************************************************************************)
(* Who may do what to a project, and what the audit trail says about it:   *)
(* members and their roles, project tokens that act for their issuer, and  *)
(* management requests that are authenticated, audited and authorized      *)
(* before they wait for the deployment lock, while the permissions they    *)
(* were admitted with are changed by others.                               *)
(*                                                                         *)
(* One project name on one subdomain.  Its owner never changes; the        *)
(* project behind the name may be deleted and created again.               *)
(***************************************************************************)
EXTENDS Integers, FiniteSets

CONSTANTS
  Users,         \* accounts
  Owner,         \* the owner of the subdomain
  None,          \* no user
  MaxRequests,   \* bound: audited requests
  MaxTokens,     \* bound: tokens ever issued
  MaxLives       \* bound: times the project exists

ASSUME AuthorizationAssumption ==
  /\ Owner \in Users /\ None \notin Users
  /\ MaxRequests \in Nat /\ MaxTokens \in Nat /\ MaxLives \in Nat \ {0}

Requests == 1 .. MaxRequests
Tokens == 1 .. MaxTokens
Roles == {"owner", "deployer", "viewer", "none"}
Publishers == {"owner", "deployer"}
Operations == {"deploy", "switch", "issue", "revoke", "member", "delete"}

VARIABLES
  role,      \* role[u] on the project that exists
  lives,     \* times the project was created; its id
  exists,    \* the project exists
  issued,    \* tokens issued so far
  token,     \* token[t]: its issuer, its project, whether it is revoked
  expired,   \* tokens whose time is over
  request,   \* request[q]
  lock,      \* the request that holds deploymentMu, or 0
  audit      \* audit[q]: the result in the audit row of q, or "none"

facts == <<role, lives, exists, issued, token, expired>>
vars == <<facts, request, lock, audit>>

\* A request: how far its handler is, what it asks, of whom and with which token (0: the
\* user's own), the project it was authorized for, the member or token it is about, the
\* role to set, and what the handler has reported.  applied is not in the code: whether
\* the transaction of the operation was committed.
Request ==
  [step : {"new", "audited", "gated", "resolved", "locked", "ready", "done",
           "closed"},
   op : Operations, user : Users, with : 0 .. MaxTokens, project : 0 .. MaxLives,
   member : Users, about : 0 .. MaxTokens, to : Roles \ {"owner"},
   result : {"unknown", "refused", "success"}, applied : BOOLEAN]

NewRequest ==
  [step |-> "new", op |-> "deploy", user |-> Owner, with |-> 0, project |-> 0,
   member |-> Owner, about |-> 0, to |-> "none", result |-> "unknown", applied |-> FALSE]

Init ==
  /\ role \in {r \in [Users -> Roles] : \A u \in Users : r[u] = "owner" <=> u = Owner}
  /\ lives = 1 /\ exists = TRUE
  /\ issued = 0 /\ expired = {}
  /\ token = [t \in Tokens |-> [issuer |-> None, project |-> 0, revoked |-> FALSE]]
  /\ request = [q \in Requests |-> NewRequest]
  /\ lock = 0 /\ audit = [q \in Requests |-> "none"]

-----------------------------------------------------------------------------
(***************************************************************************)
(* The store                                                               *)
(***************************************************************************)
IsPublisher(u) == exists /\ role[u] \in Publishers

\* A token's row goes with its project.
Stored(t) == t \in 1 .. issued /\ exists /\ token[t].project = lives

\* AuthenticateProjectToken
Usable(t) ==
  Stored(t) /\ ~ token[t].revoked /\ t \notin expired /\ IsPublisher(token[t].issuer)

\* The role policy of an operation.
MayAsk(u, op) ==
  exists /\ role[u] \in (IF op \in {"member", "delete"} THEN {"owner"} ELSE Publishers)

\* projectAllows: the role, and the project of the token as it was authenticated.
Authorized(r) ==
  /\ MayAsk(r.user, r.op)
  /\ r.with # 0 => token[r.with].project = lives

\* recheckPublication: the current role, and the token as it is now.
Confirmed(r) == Authorized(r) /\ (r.with # 0 => Usable(r.with))

\* It is made for the exact project of the request.
Recheck(r) == exists /\ lives = r.project /\ Confirmed(r)

\* The tokens that a member's loss of the publishing role revokes, in its transaction.
Revoked(u) ==
  [t \in Tokens |-> IF Stored(t) /\ token[t].issuer = u
                    THEN [token[t] EXCEPT !.revoked = TRUE] ELSE token[t]]

-----------------------------------------------------------------------------
(***************************************************************************)
(* A request on its way to the operation                                   *)
(***************************************************************************)
To(q, step) == request' = [request EXCEPT ![q].step = step]

\* The handler returns: with what it has reported, and whether the operation was applied.
\* The rest of the request is forgotten.
Return(q, result, applied) ==
  /\ request' = [request EXCEPT ![q] =
       [NewRequest EXCEPT !.step = "done", !.result = result, !.applied = applied]]
  /\ lock' = IF lock = q THEN 0 ELSE lock

\* authMiddleware: a user, or a token that the operation admits; its project and role are
\* checked already here.  Then auditMiddleware: no operation without a durable row (a
\* request that is turned away for want of one leaves nothing behind).
Admit(q) ==
  /\ request[q].step = "new" /\ \A r \in 1 .. q - 1 : request[r].step # "new"
  /\ \E u \in Users, op \in Operations, with \in 0 .. issued, m \in Users,
        about \in 0 .. issued, to \in Roles \ {"owner"} :
       /\ with # 0 => /\ op \in {"deploy", "switch"}
                      /\ Usable(with) /\ token[with].issuer = u
       /\ op # "member" => m = Owner /\ to = "none"
       /\ op # "revoke" => about = 0
       /\ request' = [request EXCEPT ![q] =
            [NewRequest EXCEPT !.step = "audited", !.op = op, !.user = u, !.with = with,
                               !.member = m, !.about = about, !.to = to]]
  /\ audit' = [audit EXCEPT ![q] = "pending"]
  /\ UNCHANGED <<facts, lock>>

\* requireProject, or for a deployment and a deletion canAccessSubdomainProject, which
\* lets the owner pass without a project.
Passes(r) == Authorized(r) \/ (~ exists /\ r.user = Owner /\ r.op \in {"deploy", "delete"})

Resolve(q) ==
  /\ request[q].step = "audited"
  /\ IF Passes(request[q])
     THEN /\ request' = [request EXCEPT
               ![q].step = IF request[q].op = "deploy" THEN "gated" ELSE "resolved",
               ![q].project = IF exists THEN lives ELSE 0]
          /\ UNCHANGED lock
     ELSE Return(q, "refused", FALSE)
  /\ UNCHANGED <<facts, audit>>

\* The first time under the lock, a deployment finds or creates its project, is checked
\* again and reserves its version; then it lets the lock go for the upload.
Reserve(q) ==
  /\ request[q].step = "gated" /\ lock = 0
  /\ IF exists
     THEN /\ IF Confirmed(request[q])
             THEN /\ request' = [request EXCEPT ![q].step = "resolved", ![q].project = lives]
                  /\ UNCHANGED lock
             ELSE Return(q, "refused", FALSE)
          /\ UNCHANGED facts
     ELSE IF request[q].user = Owner /\ request[q].with = 0
     THEN /\ lives < MaxLives
          /\ lives' = lives + 1 /\ exists' = TRUE
          /\ request' = [request EXCEPT ![q].step = "resolved", ![q].project = lives']
          /\ UNCHANGED <<role, issued, token, expired, lock>>
     ELSE Return(q, "refused", FALSE) /\ UNCHANGED facts
  /\ UNCHANGED audit

\* Fault: only publications wait for the lock.
LocksPublication(op) == op \in {"deploy", "switch"}

\* Every operation but the issue of a token runs under deploymentMu.
Locks(op) == op # "issue"

TakeLock(q) ==
  /\ request[q].step = "resolved"
  /\ IF Locks(request[q].op) THEN lock = 0 /\ lock' = q ELSE lock' = lock
  /\ To(q, "locked")
  /\ UNCHANGED <<facts, audit>>

-----------------------------------------------------------------------------
(***************************************************************************)
(* The operations                                                          *)
(***************************************************************************)
\* An error that says nothing of the operation: a 5xx, a panic, an aborted response.
Fail(q) ==
  /\ request[q].step \in {"audited", "gated", "resolved", "locked", "ready"}
  /\ Return(q, "unknown", FALSE)
  /\ UNCHANGED <<facts, audit>>

\* Invalid input, no such version, a damaged artifact, a failed upload.
Refuse(q) ==
  /\ request[q].step \in {"gated", "resolved", "locked", "ready"}
  /\ Return(q, "refused", FALSE)
  /\ UNCHANGED <<facts, audit>>

IsPublication(r) == r.op \in {"deploy", "switch"}

\* Under the lock, after any upload or wait.
CheckAgain(q) ==
  /\ request[q].step = "locked" /\ IsPublication(request[q])
  /\ IF Recheck(request[q]) THEN To(q, "ready") /\ UNCHANGED lock
     ELSE Return(q, "refused", FALSE)
  /\ UNCHANGED <<facts, audit>>

\* A transaction was committed; its answer may be lost, or a later step fail.
Apply(q) == \E result \in {"success", "unknown"} : Return(q, result, TRUE)

Publish(q) ==
  /\ request[q].step = "ready"
  /\ Apply(q)
  /\ UNCHANGED <<facts, audit>>

\* Fault: the issuer is believed to be what he was when he was admitted.
IssuerAdmitted(r) == exists /\ lives = r.project

\* The insert selects the project and the issuer's present role.
MayIssue(r) == exists /\ lives = r.project /\ role[r.user] \in Publishers

Issue(q) ==
  /\ request[q].step = "locked" /\ request[q].op = "issue"
  /\ IF MayIssue(request[q])
     THEN /\ issued < MaxTokens /\ issued' = issued + 1
          /\ token' = [token EXCEPT ![issued'] =
               [issuer |-> request[q].user, project |-> request[q].project,
                revoked |-> FALSE]]
          /\ Apply(q)
     ELSE Return(q, "unknown", FALSE) /\ UNCHANGED <<issued, token>>
  /\ UNCHANGED <<role, lives, exists, expired, audit>>

\* The owner may revoke every token, a deployer his own; again and again.
MayRevoke(r) ==
  /\ Stored(r.about) /\ token[r.about].project = r.project
  /\ \/ r.user = Owner
     \/ r.user = token[r.about].issuer /\ role[r.user] = "deployer"

RevokeToken(q) ==
  /\ request[q].step = "locked" /\ request[q].op = "revoke"
  /\ IF MayRevoke(request[q])
     THEN token' = [token EXCEPT ![request[q].about].revoked = TRUE] /\ Apply(q)
     ELSE token' = token /\ Return(q, "refused", FALSE)
  /\ UNCHANGED <<role, lives, exists, issued, expired, audit>>

\* PutProjectMember and RemoveProjectMember (to "none").
MayChange(r) ==
  /\ exists /\ lives = r.project
  /\ r.member # Owner
  /\ r.to = "none" => role[r.member] # "none"

ChangeMember(q) ==
  LET r == request[q] IN
  /\ r.step = "locked" /\ r.op = "member"
  /\ IF MayChange(r)
     THEN /\ role' = [role EXCEPT ![r.member] = r.to]
          /\ token' = IF r.to = "deployer" THEN token ELSE Revoked(r.member)
          /\ Apply(q)
     ELSE UNCHANGED <<role, token>> /\ Return(q, "refused", FALSE)
  /\ UNCHANGED <<lives, exists, issued, expired, audit>>

\* The project is deleted by its name, whichever project has it by now, with its members
\* and tokens.
DeleteProject(q) ==
  /\ request[q].step = "locked" /\ request[q].op = "delete"
  /\ exists' = FALSE
  /\ role' = [u \in Users |-> IF u = Owner THEN "owner" ELSE "none"]
  /\ Apply(q)
  /\ UNCHANGED <<lives, issued, token, expired, audit>>

-----------------------------------------------------------------------------
(***************************************************************************)
(* The end of a request                                                    *)
(***************************************************************************)
\* Fault: what was not reported is taken for a failure.
ConclusionFromStatus(result) == IF result = "success" THEN "success" ELSE "failure"

Conclusion(result) ==
  CASE result = "success" -> "success"
    [] result = "refused" -> "failure"
    [] result = "unknown" -> "pending"

Closed(r) == [NewRequest EXCEPT !.step = "closed", !.applied = r.applied]

\* The deferred completion, after the lock is released; the write may fail.
FinishAudit(q) ==
  /\ request[q].step = "done"
  /\ audit' \in {audit, [audit EXCEPT ![q] = Conclusion(request[q].result)]}
  /\ request' = [request EXCEPT ![q] = Closed(request[q])]
  /\ UNCHANGED <<facts, lock>>

Expire(t) ==
  /\ t \in 1 .. issued /\ expired' = expired \cup {t}
  /\ UNCHANGED <<role, lives, exists, issued, token, request, lock, audit>>

\* The process dies; a transaction is committed with its step or not at all.
Crash ==
  /\ request' = [q \in Requests |->
       IF request[q].step = "new" THEN request[q] ELSE Closed(request[q])]
  /\ lock' = 0
  /\ UNCHANGED <<facts, audit>>

Next ==
  \/ \E q \in Requests :
       \/ Admit(q) \/ Resolve(q) \/ Reserve(q) \/ TakeLock(q)
       \/ Fail(q) \/ Refuse(q) \/ CheckAgain(q) \/ Publish(q) \/ Issue(q)
       \/ RevokeToken(q) \/ ChangeMember(q) \/ DeleteProject(q) \/ FinishAudit(q)
  \/ \E t \in Tokens : Expire(t)
  \/ Crash

Spec == Init /\ [][Next]_vars

-----------------------------------------------------------------------------
\* Every variable keeps its type; the owner is the only owner.
TypeOK ==
  /\ role \in [Users -> Roles] /\ \A u \in Users : role[u] = "owner" <=> u = Owner
  /\ lives \in 1 .. MaxLives /\ exists \in BOOLEAN
  /\ issued \in 0 .. MaxTokens /\ expired \subseteq 1 .. issued
  /\ token \in [Tokens -> [issuer : Users \cup {None}, project : 0 .. lives,
                           revoked : BOOLEAN]]
  /\ \A t \in 1 .. issued : token[t].issuer \in Users
  /\ request \in [Requests -> Request]
  /\ lock \in 0 .. MaxRequests
  /\ audit \in [Requests -> {"none", "pending", "success", "failure"}]

\* A token that is not revoked has an issuer who is a publisher of its project, and has
\* been one ever since: a deployer who is demoted or removed while one of his tokens is
\* being issued, and reinstated later, gets none of his old credentials back.
TokensOfPublishers ==
  \A t \in Tokens : Stored(t) /\ ~ token[t].revoked => IsPublisher(token[t].issuer)

\* Whatever happened while a publication waited for an upload or a lock: when it commits,
\* its user is a publisher of the project it was authorized for, and the token it came
\* with is not revoked.
PublishedWithPermission ==
  [][\A q \in Requests :
       request[q].step = "ready" /\ request'[q].applied =>
         /\ IsPublisher(request[q].user) /\ lives = request[q].project
         /\ request[q].with # 0 =>
              Stored(request[q].with) /\ ~ token[request[q].with].revoked]_vars

\* The audit row of a request exists before its operation is applied and never calls an
\* applied operation a failure, nor one a success that was not applied, through refused,
\* uncertain and interrupted operations, lost completions and crashes.
AuditHonest ==
  \A q \in Requests :
    /\ request[q].applied => audit[q] \in {"pending", "success"}
    /\ audit[q] = "success" => request[q].applied
=============================================================================
