--------------------------- MODULE ConsoleSession ---------------------------
(***************************************************************************)
(* Console sessions: the tabs of one browser, the cookie they share, and   *)
(* the session rows of the server.                                         *)
(*                                                                         *)
(* A tab shows a session and keeps its CSRF value in memory.  The cookie   *)
(* that authenticates a request is taken from the jar when it is sent, and *)
(* changes when an answer arrives.  Another tab may have signed in since,  *)
(* so what a tab shows and what its requests carry may differ, and answers *)
(* may arrive after the tab has gone on.                                   *)
(*                                                                         *)
(* A session is numbered; the number stands for the raw credential, the    *)
(* digest in its row and the CSRF value, which are derived from each other *)
(* one to one.                                                             *)
(***************************************************************************)
EXTENDS Integers, FiniteSets

CONSTANTS
  Tabs,         \* tabs of the browser
  Users,        \* team accounts
  Checking,     \* what a tab shows before it knows ("undefined" in App)
  None,         \* no session, no user; a tab that shows None shows the login form
  MaxSession,   \* bound: sessions ever created
  MaxRequests   \* bound: requests in flight

ASSUME SessionAssumption ==
  /\ MaxSession \in Nat /\ MaxRequests \in Nat
  /\ None \notin Nat /\ Checking \notin Nat /\ Checking # None
  /\ None \notin Users

Sessions == 1 .. MaxSession

VARIABLES
  created,   \* sessions created so far
  owner,     \* owner[s]: the user of session s
  live,      \* sessions that have a row
  expired,   \* sessions whose 8 hours are over, whether or not the row is still there
  cookie,    \* the jar: the session of __Host-droply_console, or None
  view,      \* view[t]: Checking, None, or the session the workspace of t shows
  message,   \* message[t]: the login form of t explains itself and offers another check
  busy,      \* busy[t]: the lock of the mounted form, or of the workspace's logout button
  requests   \* requests in flight

rows == <<created, owner, live, expired>>
page == <<view, message, busy>>
vars == <<rows, cookie, page, requests>>

Kinds == {"check", "login", "logout", "read", "write"}

\* A request: who sent it, with which cookie, under which displayed session, as which
\* user (of a login, the one signing in; otherwise the one displayed), who waits for
\* its answer (a component, the page after the component is gone, or nobody), and
\* the answer with the session it grants.
Request == [tab : Tabs, kind : Kinds, cookie : Sessions \cup {None},
            view : Sessions \cup {None}, user : Users \cup {None},
            held : {"component", "page", "gone"},
            reply : {"pending", "ok", "unauthorized", "forbidden", "failed"},
            grant : Sessions \cup {None}]

Init ==
  /\ created = 0 /\ owner = [s \in Sessions |-> None]
  /\ live = {} /\ expired = {} /\ cookie = None
  /\ view = [t \in Tabs |-> Checking]
  /\ message = [t \in Tabs |-> FALSE] /\ busy = [t \in Tabs |-> FALSE]
  /\ requests = {[tab |-> t, kind |-> "check", cookie |-> None, view |-> None, user |-> None,
                  held |-> "page", reply |-> "pending", grant |-> None] : t \in Tabs}

-----------------------------------------------------------------------------
(***************************************************************************)
(* The page                                                                *)
(***************************************************************************)
Shown(t) == IF view[t] \in Sessions THEN view[t] ELSE None
UserOf(s) == IF s \in Sessions THEN owner[s] ELSE None

New(t, kind, user, held) ==
  [tab |-> t, kind |-> kind, cookie |-> cookie, view |-> Shown(t), user |-> user,
   held |-> held, reply |-> "pending", grant |-> None]

Send(t, kind, user, held) ==
  /\ Cardinality(requests) < MaxRequests
  /\ requests' = requests \cup {New(t, kind, user, held)}

\* Of the requests reqs the dead ones have no reader any more.  A read or a check
\* changes nothing and is forgotten; of the others the server may still do what they ask.
Cancel(reqs, dead) ==
  (reqs \ dead)
    \cup {[r EXCEPT !.held = "gone"] : r \in {q \in dead : q.kind \notin {"read", "check"}}}

\* Requests of the mounted component of t: the reads and writes, which carry its abort
\* signal, and the login or logout, which has none.
Signalled(reqs, t) ==
  {r \in reqs : r.tab = t /\ r.held = "component" /\ r.kind \in {"read", "write"}}
Unsignalled(reqs, t) ==
  {r \in reqs : r.tab = t /\ r.held = "component" /\ r.kind \in {"login", "logout"}}

\* Fault: an unmounted component cancels nothing.
UnmountOnly(reqs, t) == IF t \in Tabs THEN reqs ELSE {}

\* The component of t is unmounted: its effects abort their requests, and its login or
\* logout is left to the closures of the page.
Unmount(reqs, t) ==
  (Cancel(reqs, Signalled(reqs, t)) \ Unsignalled(reqs, t))
    \cup {[r EXCEPT !.held = "page"] : r \in Unsignalled(reqs, t)}

\* setSession(v).  The workspace is keyed by the CSRF value: another session remounts
\* it.  The same session again only renews the API object, whose effects start over.
Show(t, v, lock, reqs) ==
  /\ view' = [view EXCEPT ![t] = v]
  /\ IF v # view[t]
     THEN busy' = [busy EXCEPT ![t] = FALSE] /\ requests' = Unmount(reqs, t)
     ELSE /\ busy' = [busy EXCEPT ![t] = lock]
          /\ requests' = IF v \in Sessions THEN Cancel(reqs, Signalled(reqs, t)) ELSE reqs

\* A page starts to check: nothing else is asked of it.
Check(t, reqs) ==
  /\ view' = [view EXCEPT ![t] = Checking]
  /\ busy' = [busy EXCEPT ![t] = FALSE] /\ message' = [message EXCEPT ![t] = FALSE]
  /\ requests' = reqs \cup {[New(t, "check", None, "page") EXCEPT !.view = None]}
  /\ Cardinality(requests) < MaxRequests
  /\ UNCHANGED <<rows, cookie>>

\* The page is loaded; whatever it still waited for is cancelled.  A page that is still
\* checking is not loaded again.
Load(t) ==
  /\ view[t] # Checking
  /\ Check(t, Cancel(requests, {r \in requests : r.tab = t}))

\* "Check again": the form goes away, a login it may still wait for does not; a check
\* still under way is aborted.
Recheck(t) ==
  /\ view[t] = None /\ message[t]
  /\ Check(t, {r \in Unmount(requests, t) : ~ (r.tab = t /\ r.kind = "check")})

Login(t, u) ==
  /\ view[t] = None /\ ~ busy[t]
  /\ busy' = [busy EXCEPT ![t] = TRUE]
  /\ Send(t, "login", u, "component")
  /\ UNCHANGED <<rows, cookie, view, message>>

\* The project list, the panels of a project.
Read(t) ==
  /\ view[t] \in Sessions
  /\ Send(t, "read", UserOf(view[t]), "component")
  /\ UNCHANGED <<rows, cookie, page>>

Mutating(t) ==
  \E r \in requests : r.tab = t /\ r.kind = "write" /\ r.held = "component"

\* A confirmed mutation.  Nothing stops it while a logout is in flight.
Write(t) ==
  /\ view[t] \in Sessions /\ ~ Mutating(t)
  /\ Send(t, "write", UserOf(view[t]), "component")
  /\ UNCHANGED <<rows, cookie, page>>

Logout(t) ==
  /\ view[t] \in Sessions /\ ~ busy[t] /\ ~ Mutating(t)
  /\ busy' = [busy EXCEPT ![t] = TRUE]
  /\ Send(t, "logout", UserOf(view[t]), "component")
  /\ UNCHANGED <<rows, cookie, view, message>>

-----------------------------------------------------------------------------
(***************************************************************************)
(* The server                                                              *)
(***************************************************************************)
Valid(s) == s \in live /\ s \notin expired

\* Fault: the cookie alone authenticates a mutation.
CsrfPresent(r) == r.view \in Sessions

\* The CSRF value of a request belongs to the session of its cookie.
CsrfMatches(r) == r.view = r.cookie

\* authenticateConsoleSession: the refusal of a request, if any.
Refusal(r) ==
  IF ~ Valid(r.cookie) THEN "unauthorized"
  ELSE IF r.kind \in {"write", "logout"} /\ ~ CsrfMatches(r) THEN "forbidden"
  ELSE "none"

Reply(r, reply, grant) ==
  requests' = (requests \ {r}) \cup {[r EXCEPT !.reply = reply, !.grant = grant]}

AnswerCheck(r) ==
  /\ r.kind = "check" /\ r.reply = "pending"
  /\ IF Refusal(r) = "none" THEN Reply(r, "ok", r.cookie) ELSE Reply(r, "unauthorized", None)
  /\ UNCHANGED <<rows, cookie, page>>

\* A session is created, expired rows are purged, and the session the request carried
\* is revoked; an error of that last statement is ignored.
SignIn(r) ==
  /\ r.kind = "login" /\ r.reply = "pending" /\ created < MaxSession
  /\ created' = created + 1
  /\ owner' = [owner EXCEPT ![created'] = r.user]
  /\ \E revoked \in {{}, {r.cookie}} :
       live' = ((live \ expired) \cup {created'}) \ revoked
  /\ Reply(r, "ok", created')
  /\ UNCHANGED <<expired, cookie, page>>

\* Wrong credentials, too many attempts, no row.
RefuseLogin(r) ==
  /\ r.kind = "login" /\ r.reply = "pending"
  /\ Reply(r, "failed", None)
  /\ UNCHANGED <<rows, cookie, page>>

\* Fault: the logout only clears the cookie.
RevokeNothing(s) == live

Revoked(s) == live \ {s}

SignOut(r) ==
  /\ r.kind = "logout" /\ r.reply = "pending"
  /\ IF Refusal(r) = "none"
     THEN \/ live' = Revoked(r.cookie) /\ Reply(r, "ok", None)
          \/ live' = live /\ Reply(r, "failed", None)
     ELSE live' = live /\ Reply(r, Refusal(r), None)
  /\ UNCHANGED <<created, owner, expired, cookie, page>>

\* Any other request, which is served as the user of the cookie's session.
Serve(r) ==
  /\ r.kind \in {"read", "write"} /\ r.reply = "pending"
  /\ Reply(r, IF Refusal(r) = "none" THEN "ok" ELSE Refusal(r), None)
  /\ UNCHANGED <<rows, cookie, page>>

Answer(r) == AnswerCheck(r) \/ SignIn(r) \/ RefuseLogin(r) \/ SignOut(r) \/ Serve(r)

\* The connection fails, before the server acted or after.
Lose(r) ==
  /\ r.reply # "failed"
  /\ Reply(r, "failed", None)
  /\ UNCHANGED <<rows, cookie, page>>

\* Eight hours pass.
Expire(s) ==
  /\ s \in live /\ expired' = expired \cup {s}
  /\ UNCHANGED <<created, owner, live, cookie, page, requests>>

\* The browser drops the cookie at its Max-Age.
DropCookie ==
  /\ cookie \in expired /\ cookie' = None
  /\ UNCHANGED <<rows, page, requests>>

-----------------------------------------------------------------------------
(***************************************************************************)
(* Answers arrive                                                          *)
(***************************************************************************)
\* The jar after the Set-Cookie of an answer.
Jar(r) ==
  IF r.reply # "ok" THEN cookie
  ELSE IF r.kind = "login" THEN r.grant
  ELSE IF r.kind = "logout" THEN None
  ELSE cookie

Rest(r) == requests \ {r}

\* Nobody waits any more: the browser has seen the Set-Cookie, or has not.
Discard(r) ==
  /\ r.held = "gone" /\ r.reply # "pending"
  /\ cookie' \in {cookie, Jar(r)}
  /\ requests' = Rest(r)
  /\ UNCHANGED <<rows, page>>

\* The lock of a form or button is released if it is still the one that sent the request.
Unlocked(r) == busy[r.tab] /\ r.held = "page"

\* onExpired, which every API object but the login's and the check's has.
Expel(r) ==
  /\ Show(r.tab, None, Unlocked(r), Rest(r))
  /\ message' = [message EXCEPT ![r.tab] = TRUE]

Arrives(r, kind) == r.kind = kind /\ r.held # "gone" /\ r.reply # "pending"

\* Fault: only an answer of the server ends the check.
AfterCheckAnswered(r) == IF r.reply = "failed" THEN Checking ELSE r.grant

AfterCheck(r) == r.grant

EndCheck(r) ==
  /\ Arrives(r, "check")
  /\ Show(r.tab, AfterCheck(r), busy[r.tab], Rest(r))
  /\ message' = IF r.reply = "failed" THEN [message EXCEPT ![r.tab] = TRUE] ELSE message
  /\ UNCHANGED <<rows, cookie>>

EndLogin(r) ==
  /\ Arrives(r, "login")
  /\ cookie' = Jar(r)
  /\ IF r.reply = "ok"
     THEN /\ Show(r.tab, r.grant, Unlocked(r), Rest(r))
          /\ message' = [message EXCEPT ![r.tab] = FALSE]
     ELSE /\ busy' = [busy EXCEPT ![r.tab] = Unlocked(r)]
          /\ requests' = Rest(r) /\ UNCHANGED <<view, message>>
  /\ UNCHANGED rows

EndLogout(r) ==
  /\ Arrives(r, "logout")
  /\ cookie' = Jar(r)
  /\ CASE r.reply = "ok" ->
            /\ Show(r.tab, None, Unlocked(r), Rest(r))
            /\ message' = [message EXCEPT ![r.tab] = FALSE]
       [] r.reply = "unauthorized" ->
            Expel(r)
       [] OTHER ->
            /\ busy' = [busy EXCEPT ![r.tab] = Unlocked(r)]
            /\ requests' = Rest(r) /\ UNCHANGED <<view, message>>
  /\ UNCHANGED rows

EndRequest(r) ==
  /\ Arrives(r, "read") \/ Arrives(r, "write")
  /\ IF r.reply = "unauthorized"
     THEN Expel(r)
     ELSE requests' = Rest(r) /\ UNCHANGED page
  /\ UNCHANGED <<rows, cookie>>

Arrive(r) == EndCheck(r) \/ EndLogin(r) \/ EndLogout(r) \/ EndRequest(r)

Next ==
  \/ \E t \in Tabs :
       \/ Load(t) \/ Recheck(t) \/ Read(t) \/ Write(t) \/ Logout(t)
       \/ \E u \in Users : Login(t, u)
  \/ \E r \in requests : Answer(r) \/ Lose(r) \/ Discard(r) \/ Arrive(r)
  \/ \E s \in Sessions : Expire(s)
  \/ DropCookie

Spec == Init /\ [][Next]_vars

-----------------------------------------------------------------------------
\* Every variable keeps its type, and every session that a cookie, a tab or an answer
\* names has been created for a user.
TypeOK ==
  /\ created \in 0 .. MaxSession
  /\ owner \in [Sessions -> Users \cup {None}]
  /\ \A s \in 1 .. created : owner[s] \in Users
  /\ live \subseteq 1 .. created /\ expired \subseteq 1 .. created
  /\ cookie \in 1 .. created \cup {None}
  /\ view \in [Tabs -> 1 .. created \cup {None, Checking}]
  /\ message \in [Tabs -> BOOLEAN] /\ busy \in [Tabs -> BOOLEAN]
  /\ requests \subseteq Request
  /\ \A r \in requests : {r.cookie, r.view, r.grant} \subseteq 1 .. created \cup {None}

\* A mutation the server accepts is executed as the user whom the sending tab displayed,
\* even when another tab has signed in as somebody else and the shared cookie is theirs.
WritesAsShown ==
  \A r \in requests : r.kind = "write" /\ r.reply = "ok" => UserOf(r.cookie) = r.user

\* When a logout is confirmed, the session that the tab showed has no row any more:
\* "logging out revokes at once", for every tab and for what is still in flight.
LogoutIsFinal ==
  \A r \in requests : r.kind = "logout" /\ r.reply = "ok" => r.view \notin live

\* A displayed session is ended by a reload, by the answer of a check or a logout, or by
\* a refusal of a request sent under that very session: an answer about an earlier
\* session, cancelled when the tab went on, does not throw a user out.
StaleAnswersHarmless ==
  [][\A t \in Tabs : view[t] \in Sessions /\ view'[t] = None =>
       \E r \in requests \ requests' :
         /\ r.tab = t /\ r.reply # "pending"
         /\ r.kind \in {"check", "logout"} \/ r.view = view[t]]_vars

\* A page that checks, a form or a logout button that is locked, waits for a request that
\* is still in flight and whose answer it will hear: none of them is stuck, whatever
\* answers, failures and remounts came before.
NobodyStuck ==
  \A t \in Tabs :
    /\ view[t] = Checking =>
         \E r \in requests : r.tab = t /\ r.kind = "check" /\ r.held = "page"
    /\ busy[t] =>
         \E r \in requests : r.tab = t /\ r.held = "component" /\
           r.kind = IF view[t] = None THEN "login" ELSE "logout"
=============================================================================
