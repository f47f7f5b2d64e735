-------------------- MODULE ProjectAuthorizationProofs --------------------
(***************************************************************************)
(* Project authorization is sound for every number of accounts, requests   *)
(* and tokens.                                                             *)
(*                                                                         *)
(* deploymentMu carries the argument: a publication that was checked under *)
(* it stays permitted (ReadyAllowed), because every operation that takes a *)
(* permission away needs the same lock.  The one operation without it, the *)
(* issue of a token, takes nothing away and reads the issuer's role in its *)
(* own statement.                                                          *)
(***************************************************************************)
EXTENDS ProjectAuthorization, TLAPS

Active == {"audited", "gated", "resolved", "locked", "ready"}

\* Only the issue of a token gets as far without the lock.
LockHeld ==
  \A q \in Requests :
    request[q].step \in {"locked", "ready"} /\ request[q].op # "issue" => lock = q

Allowed(r) ==
  /\ IsPublisher(r.user) /\ lives = r.project
  /\ r.with # 0 => Stored(r.with) /\ ~ token[r.with].revoked

ReadyAllowed ==
  \A q \in Requests :
    request[q].step = "ready" => IsPublication(request[q]) /\ Allowed(request[q])

\* What a handler reports is what happened, and what the audit row says is what was reported.
Reported ==
  \A q \in Requests :
    LET r == request[q] IN
    /\ r.step \notin {"done", "closed"} => ~ r.applied
    /\ r.step = "done" =>
         (r.result = "success" => r.applied) /\ (r.result = "refused" => ~ r.applied)
    /\ r.step # "new" => audit[q] # "none"
    /\ r.step # "closed" => audit[q] \in {"none", "pending"}
    /\ audit[q] = "success" => r.applied
    /\ audit[q] = "failure" => ~ r.applied

IInv == TypeOK /\ LockHeld /\ ReadyAllowed /\ TokensOfPublishers /\ Reported

LEMMA NewIsRequest == NewRequest \in Request /\ ~ NewRequest.applied
  BY AuthorizationAssumption DEF NewRequest, Request, Operations, Roles

LEMMA ResolvedIsRequest ==
  ASSUME NEW r \in Request, NEW s \in {"gated", "resolved"}, NEW p \in 0 .. MaxLives
  PROVE  LET n == [r EXCEPT !.step = s, !.project = p] IN
         n \in Request /\ n.step = s /\ n.applied = r.applied
  BY DEF Request

LEMMA InitIInv == Init => IInv
PROOF
  <1> SUFFICES ASSUME Init PROVE IInv
    OBVIOUS
  <1>1. TypeOK
    BY AuthorizationAssumption, NewIsRequest DEF Init, TypeOK, Tokens, Requests
  <1>2. LockHeld /\ ReadyAllowed /\ Reported
    BY DEF Init, NewRequest, LockHeld, ReadyAllowed, Reported
  <1>3. TokensOfPublishers
    BY DEF Init, TokensOfPublishers, Stored
  <1> QED BY <1>1, <1>2, <1>3 DEF IInv

\* Permissions do not change with requests.
LEMMA FactsFrame ==
  ASSUME TokensOfPublishers, UNCHANGED facts
  PROVE  /\ TokensOfPublishers'
         /\ \A r \in Request : Allowed(r)' <=> Allowed(r)
  BY DEF facts, TokensOfPublishers, Stored, IsPublisher, Allowed

\* A request that moves on without the lock's changing hands.
LEMMA MoveIInv ==
  ASSUME IInv, NEW q \in Requests, NEW r \in Request, UNCHANGED <<facts, lock>>,
         request' = [request EXCEPT ![q] = r],
         request[q].step \in {"new"} \cup Active, r.step \in Active, ~ r.applied,
         r.step \in {"locked", "ready"} /\ r.op # "issue" => lock = q,
         r.step = "ready" => IsPublication(r) /\ Allowed(r),
         \/ audit' = audit /\ request[q].step # "new"
         \/ audit' = [audit EXCEPT ![q] = "pending"]
  PROVE  IInv'
PROOF
  <1> USE DEF IInv
  <1>1. /\ request' \in [Requests -> Request] /\ request'[q] = r
        /\ \A d \in Requests : d # q => request'[d] = request[d]
    BY DEF TypeOK
  <1>2. TypeOK'
    BY <1>1 DEF TypeOK, facts
  <1>3. LockHeld'
    BY <1>1 DEF LockHeld
  <1>4. ReadyAllowed'
    BY <1>1, FactsFrame DEF ReadyAllowed, TypeOK
  <1>5. Reported'
    BY <1>1 DEF Reported, TypeOK, Active
  <1> QED BY <1>2, <1>3, <1>4, <1>5, FactsFrame

\* A handler returns with an honest report; what it did to the permissions is another matter.
LEMMA ReturnKeeps ==
  ASSUME IInv, NEW q \in Requests, NEW result \in {"unknown", "refused", "success"},
         NEW applied \in BOOLEAN, Return(q, result, applied), audit' = audit,
         request[q].step \in Active,
         (result = "success" => applied) /\ (result = "refused" => ~ applied)
  PROVE  /\ request' \in [Requests -> Request] /\ lock' \in 0 .. MaxRequests
         /\ request'[q].step = "done"
         /\ \A d \in Requests : d # q => request'[d] = request[d]
         /\ LockHeld' /\ Reported'
PROOF
  <1> USE DEF IInv
  <1> DEFINE r == [NewRequest EXCEPT !.step = "done", !.result = result, !.applied = applied]
  <1>1. r \in Request /\ r.step = "done" /\ r.result = result /\ r.applied = applied
    BY NewIsRequest DEF Request
  <1>2. /\ request' \in [Requests -> Request] /\ request'[q] = r
        /\ \A d \in Requests : d # q => request'[d] = request[d]
    BY <1>1 DEF Return, TypeOK
  <1>3. lock' = IF lock = q THEN 0 ELSE lock
    BY DEF Return
  <1>4. LockHeld'
    BY <1>1, <1>2, <1>3 DEF LockHeld, Requests
  <1>5. Reported'
    <2>1. audit[q] = "pending"
      BY DEF Reported, Active
    <2> QED BY <1>1, <1>2, <2>1 DEF Reported
  <1>6. lock' \in 0 .. MaxRequests
    BY <1>3, AuthorizationAssumption DEF TypeOK, Requests
  <1> QED BY <1>1, <1>2, <1>4, <1>5, <1>6

\* A handler returns without having touched the permissions.
LEMMA ReturnIInv ==
  ASSUME IInv, NEW q \in Requests, NEW result \in {"unknown", "refused", "success"},
         NEW applied \in BOOLEAN, Return(q, result, applied), UNCHANGED <<facts, audit>>,
         request[q].step \in Active,
         (result = "success" => applied) /\ (result = "refused" => ~ applied)
  PROVE  IInv'
PROOF
  <1>1. /\ request' \in [Requests -> Request] /\ lock' \in 0 .. MaxRequests
        /\ request'[q].step = "done"
        /\ \A d \in Requests : d # q => request'[d] = request[d]
        /\ LockHeld' /\ Reported'
    BY ReturnKeeps
  <1>2. TypeOK'
    BY <1>1 DEF IInv, TypeOK, facts
  <1>3. ReadyAllowed'
    BY <1>1, FactsFrame DEF IInv, ReadyAllowed, TypeOK
  <1> QED BY <1>1, <1>2, <1>3, FactsFrame DEF IInv

\* A committed operation, and what becomes of it.
LEMMA ApplyIs ==
  ASSUME NEW q \in Requests, Apply(q)
  PROVE  \E result \in {"unknown", "refused", "success"} :
           Return(q, result, TRUE) /\ result # "refused"
  BY DEF Apply

-----------------------------------------------------------------------------
LEMMA AdmitIInv == ASSUME IInv, NEW q \in Requests, Admit(q) PROVE IInv'
PROOF
  <1>1. PICK u \in Users, op \in Operations, with \in 0 .. issued, m \in Users,
             about \in 0 .. issued, to \in Roles \ {"owner"} :
       /\ with # 0 => /\ op \in {"deploy", "switch"}
                      /\ Usable(with) /\ token[with].issuer = u
       /\ op # "member" => m = Owner /\ to = "none"
       /\ op # "revoke" => about = 0
       /\ request' = [request EXCEPT ![q] =
            [NewRequest EXCEPT !.step = "audited", !.op = op, !.user = u, !.with = with,
                               !.member = m, !.about = about, !.to = to]]
    BY DEF Admit
  <1> DEFINE r == [NewRequest EXCEPT !.step = "audited", !.op = op, !.user = u,
                     !.with = with, !.member = m, !.about = about, !.to = to]
  <1>2. with \in 0 .. MaxTokens /\ about \in 0 .. MaxTokens
    BY AuthorizationAssumption DEF IInv, TypeOK
  <1>3. r \in Request /\ r.step = "audited" /\ ~ r.applied
    BY <1>2, NewIsRequest DEF Request
  <1>4. request' = [request EXCEPT ![q] = r] /\ audit' = [audit EXCEPT ![q] = "pending"]
    BY <1>1 DEF Admit
  <1> HIDE DEF r
  <1> QED BY <1>3, <1>4, MoveIInv DEF Admit, Active

LEMMA ResolveIInv == ASSUME IInv, NEW q \in Requests, Resolve(q) PROVE IInv'
PROOF
  <1>1. CASE Passes(request[q])
    <2>0. PICK next \in {"gated", "resolved"}, project \in 0 .. MaxLives :
            /\ next = IF request[q].op = "deploy" THEN "gated" ELSE "resolved"
            /\ project = IF exists THEN lives ELSE 0
      BY AuthorizationAssumption DEF IInv, TypeOK
    <2> DEFINE r == [request[q] EXCEPT !.step = next, !.project = project]
    <2>1. request' = [request EXCEPT ![q] = r] /\ UNCHANGED <<facts, lock, audit>>
      BY <1>1, <2>0 DEF Resolve
    <2>2. r \in Request /\ r.step \in {"gated", "resolved"} /\ r.applied = request[q].applied
      <3>1. request[q] \in Request
        BY DEF IInv, TypeOK
      <3>2. next \in {"gated", "resolved"} /\ project \in 0 .. MaxLives
        OBVIOUS
      <3> QED BY ONLY <3>1, <3>2 DEF Request
    <2>3. request[q].step = "audited" /\ ~ request[q].applied
      BY DEF Resolve, IInv, Reported
    <2> QED BY <2>1, <2>2, <2>3, MoveIInv DEF Active
  <1>2. CASE ~ Passes(request[q])
    BY <1>2, ReturnIInv DEF Resolve, Active
  <1> QED BY <1>1, <1>2

LEMMA ReserveIInv == ASSUME IInv, NEW q \in Requests, Reserve(q) PROVE IInv'
PROOF
  <1> USE DEF IInv
  <1>1. request[q].step = "gated" /\ ~ request[q].applied /\ request[q] \in Request
    BY DEF Reserve, Reported, TypeOK
  <1>2. CASE Return(q, "refused", FALSE) /\ UNCHANGED facts
    BY <1>1, <1>2, ReturnIInv DEF Reserve, Active
  <1>3. CASE exists /\ Confirmed(request[q])
    <2> DEFINE r == [request[q] EXCEPT !.step = "resolved", !.project = lives]
    <2>1. request' = [request EXCEPT ![q] = r] /\ UNCHANGED <<facts, lock, audit>>
      BY <1>3 DEF Reserve
    <2>2. r \in Request /\ r.step = "resolved" /\ ~ r.applied
      <3>1. lives \in 0 .. MaxLives
        BY AuthorizationAssumption DEF TypeOK
      <3> QED BY <1>1, <3>1, ResolvedIsRequest
    <2> QED BY <1>1, <2>1, <2>2, MoveIInv DEF Active
  <1>4. CASE ~ exists /\ request[q].user = Owner /\ request[q].with = 0
    <2> DEFINE r == [request[q] EXCEPT !.step = "resolved", !.project = lives']
    <2>1. /\ lives < MaxLives /\ lives' = lives + 1 /\ exists' = TRUE
          /\ request' = [request EXCEPT ![q] = r]
          /\ UNCHANGED <<role, issued, token, expired, lock, audit>>
      BY <1>4 DEF Reserve
    <2>2. r \in Request /\ r.step = "resolved" /\ ~ r.applied
      <3>1. lives' \in 0 .. MaxLives
        BY <2>1, AuthorizationAssumption DEF TypeOK
      <3> QED BY <1>1, <3>1, ResolvedIsRequest
    <2>3. /\ request' \in [Requests -> Request] /\ request'[q] = r
          /\ \A d \in Requests : d # q => request'[d] = request[d]
      BY <2>1, <2>2 DEF TypeOK
    <2>4. TypeOK'
      BY <2>1, <2>3, AuthorizationAssumption DEF TypeOK
    <2>5. LockHeld' /\ Reported'
      BY <1>1, <2>1, <2>2, <2>3 DEF LockHeld, Reported
    <2>6. ReadyAllowed'
      BY <1>4, <2>2, <2>3 DEF ReadyAllowed, Allowed, IsPublisher
    <2>7. TokensOfPublishers'
      BY <2>1 DEF TokensOfPublishers, Stored, TypeOK
    <2> QED BY <2>4, <2>5, <2>6, <2>7
  <1> QED BY <1>2, <1>3, <1>4 DEF Reserve

LEMMA TakeLockIInv == ASSUME IInv, NEW q \in Requests, TakeLock(q) PROVE IInv'
PROOF
  <1> USE DEF IInv
  <1>1. /\ request[q].step = "resolved" /\ request' = [request EXCEPT ![q].step = "locked"]
        /\ lock' = IF Locks(request[q].op) THEN q ELSE lock
        /\ Locks(request[q].op) => lock = 0
        /\ UNCHANGED <<facts, audit>>
    BY DEF TakeLock, To
  <1>2. /\ request' \in [Requests -> Request]
        /\ request'[q].step = "locked" /\ request'[q].op = request[q].op
        /\ request'[q].applied = request[q].applied
        /\ \A d \in Requests : d # q => request'[d] = request[d]
    BY <1>1 DEF TypeOK, Request
  <1>3. TypeOK'
    BY <1>1, <1>2, AuthorizationAssumption DEF TypeOK, Requests, facts
  <1>4. LockHeld'
    BY <1>1, <1>2, AuthorizationAssumption DEF LockHeld, Locks, Requests
  <1>5. ReadyAllowed'
    BY <1>1, <1>2, FactsFrame DEF ReadyAllowed, TypeOK
  <1>6. Reported'
    BY <1>1, <1>2 DEF Reported
  <1> QED BY <1>1, <1>3, <1>4, <1>5, <1>6, FactsFrame

\* Fail, Refuse, CheckAgain and Publish change no permission.
LEMMA PublishingIInv ==
  ASSUME IInv, NEW q \in Requests, Fail(q) \/ Refuse(q) \/ CheckAgain(q) \/ Publish(q)
  PROVE  IInv'
PROOF
  <1>1. CASE Fail(q)
    BY <1>1, ReturnIInv DEF Fail, Active
  <1>2. CASE Refuse(q)
    BY <1>2, ReturnIInv DEF Refuse, Active
  <1>3. CASE CheckAgain(q)
    <2>1. CASE Recheck(request[q])
      <3> DEFINE r == [request[q] EXCEPT !.step = "ready"]
      <3>1. /\ request[q].step = "locked" /\ IsPublication(request[q])
            /\ request' = [request EXCEPT ![q] = r] /\ UNCHANGED <<facts, lock, audit>>
        BY <1>3, <2>1 DEF CheckAgain, To
      <3>2. /\ r \in Request /\ r.step = "ready" /\ r.applied = request[q].applied
            /\ r.op = request[q].op /\ r.user = request[q].user
            /\ r.project = request[q].project /\ r.with = request[q].with
        BY DEF IInv, TypeOK, Request
      <3>3. Allowed(r) /\ IsPublication(r)
        BY <2>1, <3>1, <3>2 DEF Recheck, Confirmed, Authorized, MayAsk, IsPublication, Usable,
           Allowed, IsPublisher
      <3>4. lock = q /\ ~ r.applied
        BY <3>1, <3>2 DEF IInv, LockHeld, Reported, IsPublication
      <3> QED BY <3>1, <3>2, <3>3, <3>4, MoveIInv DEF Active
    <2>2. CASE ~ Recheck(request[q])
      BY <1>3, <2>2, ReturnIInv DEF CheckAgain, Active
    <2> QED BY <2>1, <2>2
  <1>4. CASE Publish(q)
    <2>1. PICK result \in {"unknown", "refused", "success"} :
            Return(q, result, TRUE) /\ result # "refused"
      BY <1>4, ApplyIs DEF Publish
    <2> QED BY <1>4, <2>1, ReturnIInv DEF Publish, Active
  <1> QED BY <1>1, <1>2, <1>3, <1>4

LEMMA IssueIInv == ASSUME IInv, NEW q \in Requests, Issue(q) PROVE IInv'
PROOF
  <1> USE DEF IInv
  <1>1. request[q].step = "locked" /\ request[q] \in Request
    BY DEF Issue, TypeOK
  <1>2. CASE MayIssue(request[q])
    <2> DEFINE new == [issuer |-> request[q].user, project |-> request[q].project,
                       revoked |-> FALSE]
    <2>1. /\ issued < MaxTokens /\ issued' = issued + 1
          /\ token' = [token EXCEPT ![issued'] = new]
          /\ UNCHANGED <<role, lives, exists, expired, audit>>
      BY <1>2 DEF Issue
    <2>2. PICK result \in {"unknown", "refused", "success"} :
            Return(q, result, TRUE) /\ result # "refused"
      BY <1>2, ApplyIs DEF Issue
    <2>3. /\ request' \in [Requests -> Request] /\ lock' \in 0 .. MaxRequests
          /\ request'[q].step = "done"
          /\ \A d \in Requests : d # q => request'[d] = request[d]
          /\ LockHeld' /\ Reported'
      BY <1>1, <2>1, <2>2, ReturnKeeps DEF Active
    <2>4. /\ issued' \in Tokens /\ token'[issued'] = new
          /\ \A t \in Tokens : t # issued' => token'[t] = token[t]
          /\ exists /\ lives = request[q].project /\ role[request[q].user] \in Publishers
          /\ request[q].user \in Users
      BY <1>1, <1>2, <2>1, AuthorizationAssumption DEF TypeOK, Tokens, MayIssue, Request
    <2>5. new \in [issuer : Users \cup {None}, project : 0 .. lives, revoked : BOOLEAN]
      BY <2>4, AuthorizationAssumption DEF TypeOK
    <2>6. TypeOK'
      <3>1. token' \in [Tokens -> [issuer : Users \cup {None}, project : 0 .. lives',
                                   revoked : BOOLEAN]]
        BY <2>1, <2>5 DEF TypeOK
      <3>2. issued' \in 0 .. MaxTokens /\ expired' \subseteq 1 .. issued'
        BY <2>1, AuthorizationAssumption DEF TypeOK
      <3>3. \A t \in 1 .. issued' : token'[t].issuer \in Users
        BY <2>1, <2>4, AuthorizationAssumption DEF TypeOK, Tokens
      <3> QED BY <2>1, <2>3, <3>1, <3>2, <3>3 DEF TypeOK
    <2>7. TokensOfPublishers'
      BY <2>1, <2>4, AuthorizationAssumption DEF TokensOfPublishers, Stored, IsPublisher,
         TypeOK, Tokens
    <2>8. ASSUME NEW d \in Requests, request'[d].step = "ready"
          PROVE  (IsPublication(request[d]) /\ Allowed(request[d]))'
      <3>1. d # q /\ request'[d] = request[d]
        BY <2>3, <2>8
      <3>2. IsPublication(request[d]) /\ Allowed(request[d])
        BY <2>8, <3>1 DEF ReadyAllowed
      <3>3. request[d].with # 0 => request[d].with \in 1 .. issued
        BY <3>2 DEF Allowed, Stored
      <3>4. request[d].with # 0 =>
              request[d].with \in 1 .. issued' /\ token'[request[d].with] = token[request[d].with]
        BY <2>1, <2>4, <3>3, AuthorizationAssumption DEF TypeOK, Tokens
      <3> QED BY <2>1, <3>1, <3>2, <3>4 DEF IsPublication, Allowed, IsPublisher, Stored
    <2> QED BY <2>3, <2>6, <2>7, <2>8 DEF ReadyAllowed
  <1>3. CASE ~ MayIssue(request[q])
    BY <1>1, <1>3, ReturnIInv DEF Issue, facts, Active
  <1> QED BY <1>2, <1>3

\* Who takes a permission away holds the lock, so no publication is past its check.
LEMMA HolderAlone ==
  ASSUME IInv, NEW q \in Requests, request[q].step = "locked", request[q].op # "issue"
  PROVE  \A d \in Requests : request[d].step # "ready"
  BY DEF IInv, LockHeld, ReadyAllowed, IsPublication

LEMMA RevokingIInv ==
  ASSUME IInv, NEW q \in Requests, RevokeToken(q) \/ ChangeMember(q) \/ DeleteProject(q)
  PROVE  IInv'
PROOF
  <1> USE DEF IInv
  <1>1. /\ request[q].step = "locked" /\ request[q].op # "issue" /\ request[q] \in Request
        /\ audit' = audit /\ UNCHANGED <<lives, issued, expired>>
    BY DEF RevokeToken, ChangeMember, DeleteProject, TypeOK
  <1>2. \A d \in Requests : request[d].step # "ready"
    BY <1>1, HolderAlone
  <1>3. ASSUME UNCHANGED facts, Return(q, "refused", FALSE) PROVE IInv'
    BY <1>1, <1>3, ReturnIInv DEF Active
  <1>4. ASSUME Apply(q),
               /\ role' \in [Users -> Roles] /\ \A u \in Users : role'[u] = "owner" <=> u = Owner
               /\ exists' \in BOOLEAN
               /\ token' \in [Tokens -> [issuer : Users \cup {None}, project : 0 .. lives,
                                         revoked : BOOLEAN]]
               /\ \A t \in Tokens : token'[t].issuer = token[t].issuer
               /\ TokensOfPublishers'
        PROVE  IInv'
    <2>1. PICK result \in {"unknown", "refused", "success"} :
            Return(q, result, TRUE) /\ result # "refused"
      BY <1>4, ApplyIs
    <2>2. /\ request' \in [Requests -> Request] /\ lock' \in 0 .. MaxRequests
          /\ request'[q].step = "done"
          /\ \A d \in Requests : d # q => request'[d] = request[d]
          /\ LockHeld' /\ Reported'
      BY <1>1, <2>1, ReturnKeeps DEF Active
    <2>3. ReadyAllowed'
      BY <1>2, <2>2 DEF ReadyAllowed
    <2>4. TypeOK'
      BY <1>1, <1>4, <2>2, AuthorizationAssumption DEF TypeOK, Tokens
    <2> QED BY <1>4, <2>2, <2>3, <2>4
  <1>5. CASE RevokeToken(q)
    <2>1. CASE MayRevoke(request[q])
      <3> DEFINE t == request[q].about
      <3>1. /\ token' = [token EXCEPT ![t].revoked = TRUE] /\ Apply(q)
            /\ UNCHANGED <<role, exists>>
        BY <1>5, <2>1 DEF RevokeToken
      <3> t \in Tokens
        BY <2>1, AuthorizationAssumption DEF MayRevoke, Stored, TypeOK, Tokens
      <3>2. /\ token' \in [Tokens -> [issuer : Users \cup {None}, project : 0 .. lives,
                                      revoked : BOOLEAN]]
            /\ \A s \in Tokens : /\ token'[s].issuer = token[s].issuer
                                 /\ token'[s].project = token[s].project
                                 /\ ~ token'[s].revoked => ~ token[s].revoked
        BY <3>1 DEF TypeOK
      <3>3. TokensOfPublishers'
        BY <1>1, <3>1, <3>2 DEF TokensOfPublishers, Stored, IsPublisher
      <3> QED BY <1>4, <3>1, <3>2, <3>3 DEF TypeOK
    <2>2. CASE ~ MayRevoke(request[q])
      BY <1>3, <1>5, <2>2 DEF RevokeToken, facts
    <2> QED BY <2>1, <2>2
  <1>6. CASE ChangeMember(q)
    <2> DEFINE m == request[q].member  to == request[q].to
    <2>1. CASE MayChange(request[q])
      <3>1. /\ m \in Users /\ m # Owner /\ to \in Roles /\ Apply(q) /\ UNCHANGED exists
            /\ role' = [role EXCEPT ![m] = to]
            /\ token' = IF to = "deployer" THEN token ELSE Revoked(m)
        BY <1>1, <1>6, <2>1 DEF ChangeMember, MayChange, Request
      <3>2. to # "owner"
        BY <1>1 DEF Request
      <3>3. /\ role' \in [Users -> Roles] /\ \A u \in Users : role'[u] = "owner" <=> u = Owner
            /\ \A u \in Users : u # m => role'[u] = role[u]
        BY <3>1, <3>2 DEF TypeOK
      <3>4. /\ token' \in [Tokens -> [issuer : Users \cup {None}, project : 0 .. lives,
                                      revoked : BOOLEAN]]
            /\ \A s \in Tokens :
                 /\ token'[s].issuer = token[s].issuer /\ token'[s].project = token[s].project
                 /\ ~ token'[s].revoked => ~ token[s].revoked
                 /\ Stored(s) /\ ~ token'[s].revoked /\ token[s].issuer = m => to = "deployer"
        BY <3>1 DEF TypeOK, Revoked
      <3>5. TokensOfPublishers'
        BY <1>1, <3>1, <3>3, <3>4 DEF TokensOfPublishers, Stored, IsPublisher, Publishers,
           TypeOK
      <3> QED BY <1>4, <3>1, <3>3, <3>4, <3>5 DEF TypeOK
    <2>2. CASE ~ MayChange(request[q])
      BY <1>3, <1>6, <2>2 DEF ChangeMember, facts
    <2> QED BY <2>1, <2>2
  <1>7. CASE DeleteProject(q)
    <2>1. TokensOfPublishers'
      BY <1>7 DEF DeleteProject, TokensOfPublishers, Stored
    <2> QED BY <1>4, <1>7, <2>1, AuthorizationAssumption DEF DeleteProject, TypeOK, Roles
  <1> QED BY <1>5, <1>6, <1>7

\* The end of a request, an expiry, a crash.
LEMMA ClosingIInv ==
  ASSUME IInv, (\E q \in Requests : FinishAudit(q)) \/ (\E t \in Tokens : Expire(t)) \/ Crash
  PROVE  IInv'
PROOF
  <1> USE DEF IInv
  <1>1. \A r \in Request :
          Closed(r) \in Request /\ Closed(r).step = "closed" /\ Closed(r).applied = r.applied
    BY NewIsRequest DEF Closed, Request
  <1>2. ASSUME NEW q \in Requests, FinishAudit(q) PROVE IInv'
    <2>1. /\ request[q].step = "done" /\ request[q] \in Request
          /\ UNCHANGED <<facts, lock>>
      BY <1>2 DEF FinishAudit, TypeOK
    <2>2. /\ request' \in [Requests -> Request] /\ request'[q].step = "closed"
          /\ request'[q].applied = request[q].applied
          /\ \A d \in Requests : d # q => request'[d] = request[d]
      BY <1>1, <1>2, <2>1 DEF FinishAudit, TypeOK
    <2>3. /\ audit' \in [Requests -> {"none", "pending", "success", "failure"}]
          /\ audit'[q] \in {audit[q], Conclusion(request[q].result)}
          /\ \A d \in Requests : d # q => audit'[d] = audit[d]
      BY <1>2, <2>1 DEF FinishAudit, Conclusion, TypeOK, Request
    <2>4. Reported'
      BY <2>1, <2>2, <2>3 DEF Reported, Conclusion, Request
    <2>5. TypeOK'
      BY <2>1, <2>2, <2>3 DEF TypeOK, facts
    <2>6. LockHeld' /\ ReadyAllowed'
      BY <2>1, <2>2, FactsFrame DEF LockHeld, ReadyAllowed, TypeOK
    <2> QED BY <2>1, <2>4, <2>5, <2>6, FactsFrame
  <1>3. ASSUME NEW t \in Tokens, Expire(t) PROVE IInv'
    <2>1. TypeOK'
      BY <1>3 DEF Expire, TypeOK
    <2>2. LockHeld' /\ Reported'
      BY <1>3 DEF Expire, LockHeld, Reported
    <2>3. ReadyAllowed' /\ TokensOfPublishers'
      BY <1>3 DEF Expire, ReadyAllowed, TokensOfPublishers, IsPublication, Allowed,
         IsPublisher, Stored
    <2> QED BY <2>1, <2>2, <2>3
  <1>4. CASE Crash
    <2>1. /\ request' \in [Requests -> Request]
          /\ \A q \in Requests :
               IF request[q].step = "new" THEN request'[q] = request[q]
               ELSE request'[q].step = "closed" /\ request'[q].applied = request[q].applied
      BY <1>1, <1>4 DEF Crash, TypeOK
    <2>2. lock' = 0 /\ UNCHANGED <<facts, audit>>
      BY <1>4 DEF Crash
    <2>3. TypeOK' /\ LockHeld' /\ ReadyAllowed'
      BY <2>1, <2>2, AuthorizationAssumption DEF TypeOK, LockHeld, ReadyAllowed, facts
    <2>4. Reported'
      BY <2>1, <2>2 DEF Reported
    <2> QED BY <2>2, <2>3, <2>4, FactsFrame
  <1> QED BY <1>2, <1>3, <1>4

LEMMA StutterIInv == ASSUME IInv, UNCHANGED vars PROVE IInv'
  BY FactsFrame DEF IInv, vars, facts, TypeOK, LockHeld, ReadyAllowed, Reported

LEMMA NextIInv == IInv /\ [Next]_vars => IInv'
PROOF
  <1> SUFFICES ASSUME IInv, [Next]_vars PROVE IInv'
    OBVIOUS
  <1>1. ASSUME NEW q \in Requests, Admit(q) \/ Resolve(q) \/ Reserve(q) \/ TakeLock(q)
        PROVE  IInv'
    BY <1>1, AdmitIInv, ResolveIInv, ReserveIInv, TakeLockIInv
  <1>2. ASSUME NEW q \in Requests, Fail(q) \/ Refuse(q) \/ CheckAgain(q) \/ Publish(q)
        PROVE  IInv'
    BY <1>2, PublishingIInv
  <1>3. ASSUME NEW q \in Requests, Issue(q) PROVE IInv'
    BY <1>3, IssueIInv
  <1>4. ASSUME NEW q \in Requests, RevokeToken(q) \/ ChangeMember(q) \/ DeleteProject(q)
        PROVE  IInv'
    BY <1>4, RevokingIInv
  <1>5. ASSUME (\E q \in Requests : FinishAudit(q)) \/ (\E t \in Tokens : Expire(t)) \/ Crash
        PROVE  IInv'
    BY <1>5, ClosingIInv
  <1> QED BY <1>1, <1>2, <1>3, <1>4, <1>5, StutterIInv DEF Next

-----------------------------------------------------------------------------
THEOREM Inductive == Spec => []IInv
  BY InitIInv, NextIInv, PTL DEF Spec

\* Every variable keeps its type, and the owner is the only owner.
THEOREM AuthorizationTypes == Spec => []TypeOK
  BY Inductive, PTL DEF IInv

\* Every usable token belongs to a publisher, whatever the order of issues, role changes
\* and deletions (store/project_tokens.go: the insert reads the role; store/members.go:
\* the loss of the role revokes).
THEOREM TokensBelongToPublishers == Spec => []TokensOfPublishers
  BY Inductive, PTL DEF IInv

\* The audit trail never contradicts what was committed (server/audit.go).
THEOREM AuditIsHonest == Spec => []AuditHonest
PROOF
  <1>1. IInv => AuditHonest
    <2> SUFFICES ASSUME IInv, NEW q \in Requests
                 PROVE  /\ request[q].applied => audit[q] \in {"pending", "success"}
                        /\ audit[q] = "success" => request[q].applied
      BY DEF AuditHonest
    <2>1. audit[q] \in {"none", "pending", "success", "failure"}
      BY DEF IInv, TypeOK
    <2> QED BY <2>1 DEF IInv, Reported
  <1> QED BY <1>1, Inductive, PTL

\* A publication commits only with the permission of that moment (recheckPublication
\* under deploymentMu), for every number of requests that change permissions.
THEOREM PublicationsArePermitted == Spec => PublishedWithPermission
PROOF
  <1>1. IInv /\ [Next]_vars =>
          [\A q \in Requests :
             request[q].step = "ready" /\ request'[q].applied =>
               /\ IsPublisher(request[q].user) /\ lives = request[q].project
               /\ request[q].with # 0 =>
                    Stored(request[q].with) /\ ~ token[request[q].with].revoked]_vars
    BY DEF IInv, ReadyAllowed, Allowed
  <1> QED BY <1>1, Inductive, PTL DEF Spec, PublishedWithPermission
=============================================================================
