---------------------------- MODULE VisitorAccess ----------------------------
(***************************************************************************)
(* One visitor of a protected site: the access rules, the login form, the  *)
(* signed cookies, and the WeCom login with its one-time states, its       *)
(* exchange over the network and the marker that breaks redirect loops,    *)
(* while owners change rules and delete and re-create the project.         *)
(*                                                                         *)
(* The site is a project on its subdomain's host.  A project rule          *)
(* overrides the rule of the subdomain.  A cookie is signed over the       *)
(* secret part of the rule it was issued under: the password hash, or the  *)
(* list of allowed WeCom users.                                            *)
(***************************************************************************)
EXTENDS Integers, FiniteSets, Sequences

CONSTANTS
  Visitor,     \* the WeCom user the visitor is
  Settings,    \* what owners may ask a rule to be
  Central,     \* whether WeCom calls back on another host than the site's
  None,        \* no rule
  MaxHash,     \* bound: passwords ever set; each is known by the number of its hash
  MaxLives,    \* bound: times the project exists
  MaxState     \* bound: OAuth states ever generated

Levels == {"project", "subdomain"}
Ips == {"none", "visitor", "others"}
\* The empty allow-list allows every member.
Lists == {{}} \cup {setting.allowed : setting \in Settings}
States == 1 .. MaxState
Failures == {"none", "unknown", "known"}

Rule == [ips : Ips, hash : 0 .. MaxHash, wecom : BOOLEAN, allowed : Lists]
Cookie == [scope : {"host", "parent"}, level : Levels, method : {"pwd", "wework"},
           hash : 0 .. MaxHash, allowed : Lists]
\* A page; a form shows what it offers, and has the lock of its submission.
Page == [shows : {"nothing", "form", "content", "error", "wecom", "authorize"},
         password : BOOLEAN, wecom : BOOLEAN, locked : BOOLEAN]

\* setAccess: a rule has an allowed address, a password or WeCom, and an allow-list only
\* with WeCom.
ASSUME VisitorAssumption ==
  /\ Central \in BOOLEAN /\ MaxHash \in Nat /\ MaxLives \in Nat \ {0} /\ MaxState \in Nat
  /\ None \notin Rule
  /\ \A setting \in Settings :
       /\ setting.ips \in Ips /\ setting.password \in BOOLEAN /\ setting.wecom \in BOOLEAN
       /\ setting.ips # "none" \/ setting.password \/ setting.wecom
       /\ setting.wecom \/ setting.allowed = {}

VARIABLES
  rule,        \* rule[l]: the rule of level l, or None
  hashes,      \* passwords set so far
  lives,       \* times the project was created; its id
  exists,      \* the project exists
  generated,   \* OAuth states generated so far
  states,      \* states[s]: the project id of a state the server holds, or 0
  expired,     \* states older than ten minutes
  callbacks,   \* states whose callback is waiting for its exchange, with their project
  spent,       \* states that got as far as an exchange
  jar,         \* the cookies the browser sends to the site, the oldest first
  marked,      \* the browser sends the marker of a failed attempt to the site
  page,        \* what the visitor sees; "authorize" when the browser has been told to
               \* start the WeCom login, "nothing" when it has been told to visit the site
  posts,       \* submissions in flight: the hash each one's password has
  stopped,     \* the visitor has stopped the navigation of the form he sees
  cached,      \* a form in the back/forward cache, or "nothing"
  proven,      \* passwords the visitor has given rightly; 0 for his WeCom identity
  failed       \* how WeCom logins of the visitor have failed within the last minute,
               \* since one succeeded, at worst with a state the server knew; not
               \* counting those that are never marked (Decline, a replaced project)

site == <<rule, hashes, lives, exists>>
oauth == <<generated, states, expired, callbacks, spent>>
display == <<page, posts, stopped, cached>>
browser == <<jar, marked, display>>
ghosts == <<proven, failed>>
vars == <<site, oauth, browser, ghosts>>

Plain(shows) == [shows |-> shows, password |-> FALSE, wecom |-> FALSE, locked |-> FALSE]

Init ==
  /\ rule = [l \in Levels |-> None] /\ hashes = 0 /\ lives = 1 /\ exists = TRUE
  /\ generated = 0 /\ states = [s \in States |-> 0] /\ expired = {}
  /\ callbacks = {} /\ spent = {}
  /\ jar = <<>> /\ marked = FALSE /\ page = Plain("nothing") /\ posts = {} /\ stopped = FALSE
  /\ cached = Plain("nothing")
  /\ proven = {} /\ failed = "none"

-----------------------------------------------------------------------------
(***************************************************************************)
(* Owners                                                                  *)
(***************************************************************************)
\* A rule is replaced as a whole; a password always gets a new hash, its own salt's.
PutRule(l) ==
  /\ l = "project" => exists
  /\ \E setting \in Settings :
       /\ hashes' = hashes + (IF setting.password THEN 1 ELSE 0)
       /\ rule' = [rule EXCEPT ![l] =
            [ips |-> setting.ips, hash |-> IF setting.password THEN hashes' ELSE 0,
             wecom |-> setting.wecom, allowed |-> setting.allowed]]
  /\ hashes' <= MaxHash
  /\ UNCHANGED <<lives, exists, oauth, browser, ghosts>>

DeleteRule(l) ==
  /\ rule[l] # None
  /\ rule' = [rule EXCEPT ![l] = None]
  /\ UNCHANGED <<hashes, lives, exists, oauth, browser, ghosts>>

\* The project's rule goes with it.
DeleteProject ==
  /\ exists /\ exists' = FALSE
  /\ rule' = [rule EXCEPT !["project"] = None]
  /\ UNCHANGED <<hashes, lives, oauth, browser, ghosts>>

CreateProject ==
  /\ ~ exists /\ lives < MaxLives
  /\ exists' = TRUE /\ lives' = lives + 1
  /\ UNCHANGED <<rule, hashes, oauth, browser, ghosts>>

-----------------------------------------------------------------------------
(***************************************************************************)
(* The site's decision                                                     *)
(***************************************************************************)
\* FindAccessRuleForSite: the level whose rule applies, and that rule.
Level == IF rule["project"] # None THEN "project" ELSE "subdomain"
Applies == rule[Level]

Allows(list) == list = {} \/ Visitor \in list

\* Fault: the signature does not cover the password hash.
SignedForPassword(c) == Applies.hash > 0 /\ c.method = "pwd"

\* The signature of a cookie covers the hash of the rule's present password, or its
\* present allow-list.
Signed(c) ==
  \/ c.method = "pwd" /\ Applies.hash > 0 /\ c.hash = Applies.hash
  \/ c.method = "wework" /\ Applies.wecom /\ Allows(Applies.allowed)
       /\ c.allowed = Applies.allowed

\* validateV2Cookie, for the first cookie of that name the browser sends.
Accepted ==
  /\ jar # <<>>
  /\ Head(jar).level = "subdomain" => Level = "subdomain"
  /\ Signed(Head(jar))

\* A rule with WeCom only is not worth a login page, unless an attempt has just failed.
Redirects == Applies.hash = 0 /\ Applies.wecom /\ ~ marked

\* renderLoginPage.
FormOf(r) == [shows |-> "form", password |-> r.hash > 0, wecom |-> r.wecom, locked |-> FALSE]

\* siteHandler.
Decision ==
  IF ~ exists THEN Plain("error")
  ELSE IF Applies = None \/ Applies.ips = "visitor" THEN Plain("content")
  ELSE IF Applies.hash = 0 /\ ~ Applies.wecom THEN Plain("error")
  ELSE IF Accepted THEN Plain("content")
  ELSE IF Redirects THEN Plain("authorize")
  ELSE FormOf(Applies)

\* Another page is shown; the form it replaces may stay in the back/forward cache.
Go(to) ==
  /\ page' = to /\ posts' = {} /\ stopped' = FALSE
  /\ cached' = IF page.shows = "form" THEN page ELSE cached

\* The visitor asks for the site, or is redirected there.
Visit ==
  /\ Go(Decision)
  /\ UNCHANGED <<site, oauth, jar, marked, ghosts>>

-----------------------------------------------------------------------------
(***************************************************************************)
(* The login form                                                          *)
(***************************************************************************)
Unlocked == page.password /\ ~ page.locked

\* The visitor submits a password: that of some hash, or a wrong one.
Submit(hash) ==
  /\ Unlocked
  /\ page' = [page EXCEPT !.locked = TRUE]
  /\ posts' = posts \cup {hash} /\ stopped' = FALSE
  /\ UNCHANGED <<site, oauth, jar, marked, cached, ghosts>>

\* The visitor stops the navigation; nothing tells the form.
Stop ==
  /\ posts # {} /\ posts' = {} /\ stopped' = TRUE
  /\ UNCHANGED <<site, oauth, jar, marked, page, cached, ghosts>>

\* A cookie of one scope replaces its like and keeps its place.
SetCookie(c) ==
  LET same == {k \in DOMAIN jar : jar[k].scope = c.scope}
  IN  IF same = {} THEN Append(jar, c) ELSE [k \in DOMAIN jar |-> IF k \in same THEN c ELSE jar[k]]

\* siteLoginHandler.  Too many attempts, or no password to compare with, is an error.
AnswerPost(hash) ==
  /\ hash \in posts
  /\ \/ Go(Plain("error")) /\ UNCHANGED <<jar, proven>>
     \/ /\ Applies # None /\ Applies.hash > 0 /\ hash # Applies.hash
        /\ Go(FormOf(Applies)) /\ UNCHANGED <<jar, proven>>
     \/ /\ Applies # None /\ Applies.hash > 0 /\ hash = Applies.hash
        /\ jar' = SetCookie([scope |-> "host", level |-> Level, method |-> "pwd",
                             hash |-> hash, allowed |-> {}])
        /\ proven' = proven \cup {hash}
        /\ Go(Plain("nothing"))
  /\ UNCHANGED <<site, oauth, marked, failed>>

\* Fault: the form comes back as it left.
RestoredAsLeft == cached

Restored == [cached EXCEPT !.locked = FALSE]

\* Back to a form the browser has kept: pageshow with persisted.
Back ==
  /\ cached.shows = "form" /\ page.shows # "form"
  /\ page' = Restored /\ cached' = Plain("nothing") /\ posts' = {} /\ stopped' = FALSE
  /\ UNCHANGED <<site, oauth, jar, marked, ghosts>>

\* A cookie, or its signature, lasts for the session's time.
ExpireCookie ==
  /\ jar # <<>>
  /\ \E k \in DOMAIN jar : jar' = SubSeq(jar, 1, k - 1) \o SubSeq(jar, k + 1, Len(jar))
  /\ UNCHANGED <<site, oauth, marked, display, ghosts>>

-----------------------------------------------------------------------------
(***************************************************************************)
(* The WeCom login                                                         *)
(***************************************************************************)
\* weworkAuthHandler, from the redirect or from the form's link.  A new state is kept
\* and expired ones are dropped.
Authorize ==
  /\ page.shows = "authorize" \/ (page.wecom /\ ~ page.locked)
  /\ IF exists /\ Applies # None /\ Applies.wecom
     THEN /\ generated < MaxState /\ generated' = generated + 1
          /\ states' = [s \in States |-> IF s = generated' THEN lives
                                         ELSE IF s \in expired THEN 0 ELSE states[s]]
          /\ Go(Plain("wecom"))
     ELSE Go(Plain("error")) /\ UNCHANGED <<generated, states>>
  /\ UNCHANGED <<site, expired, callbacks, spent, jar, marked, ghosts>>

ExpireState(s) ==
  /\ states[s] # 0 /\ s \notin expired /\ expired' = expired \cup {s}
  /\ UNCHANGED <<site, generated, states, callbacks, spent, browser, ghosts>>

\* The server restarts: its states are in memory.
Restart ==
  /\ states' = [s \in States |-> 0] /\ callbacks' = {}
  /\ UNCHANGED <<site, generated, expired, spent, browser, ghosts>>

\* Fault: a state is read and left where it is.
Peek(s) == states

Take(s) == [states EXCEPT ![s] = 0]

Worse(known) == IF known \/ failed = "known" THEN "known" ELSE "unknown"

\* Fault: an exchange that fails leaves no marker.
MarkNothing(known) == failed' = Worse(known) /\ marked' = marked

\* markWeWorkAttemptFailed.  The marker is meant for the site's host; without a state
\* its host is not known, and the marker stays on the host of the callback.
Mark(known) ==
  /\ marked' = (marked \/ known \/ ~ Central)
  /\ failed' = Worse(known)

Reads(s) == s <= generated /\ states[s] # 0 /\ s \notin expired

\* WeCom sends the browser back without a code: the visitor has declined.  The state is
\* left where it is.
Decline ==
  /\ generated > 0
  /\ Go(Plain("error"))
  /\ UNCHANGED <<site, oauth, jar, marked, ghosts>>

\* WeCom sends the browser back with a code and a state; the browser may open the same
\* address again at any time.  The page waits for the answer, which may come late.
Callback(s) ==
  /\ s <= generated
  /\ states' = Take(s)
  /\ IF Reads(s)
     THEN /\ callbacks' = callbacks \cup {[state |-> s, project |-> states[s]]}
          /\ spent' = spent \cup {s}
          /\ UNCHANGED <<marked, failed, display>>
     ELSE Mark(FALSE) /\ Go(Plain("error")) /\ UNCHANGED <<callbacks, spent>>
  /\ UNCHANGED <<site, generated, expired, jar, proven>>

\* The project the state was made for.
Same(c) == exists /\ lives = c.project
Admits == Applies # None /\ Applies.wecom /\ Allows(Applies.allowed)

\* The exchange fails; or afterwards, under the lock, the project is not the one of the
\* state any more, or its rule does not admit the visitor.
FailCallback(c) ==
  /\ callbacks' = callbacks \ {c}
  /\ \/ Mark(TRUE)
     \/ ~ Same(c) /\ UNCHANGED <<marked, failed>>
  /\ Go(Plain("error"))
  /\ UNCHANGED <<site, generated, states, expired, spent, jar, proven>>

\* The cookie is set, the marker cleared.
FinishCallback(c) ==
  /\ Same(c) /\ Admits
  /\ callbacks' = callbacks \ {c}
  /\ jar' = SetCookie([scope |-> IF Central THEN "parent" ELSE "host", level |-> Level,
                       method |-> "wework", hash |-> 0, allowed |-> Applies.allowed])
  /\ marked' = FALSE /\ failed' = "none" /\ proven' = proven \cup {0}
  /\ Go(Plain("nothing"))
  /\ UNCHANGED <<site, generated, states, expired, spent>>

\* A minute after the last failure the marker is gone.
Forget ==
  /\ failed # "none" \/ marked
  /\ failed' = "none" /\ marked' = FALSE
  /\ UNCHANGED <<site, oauth, jar, display, proven>>

Next ==
  \/ \E l \in Levels : PutRule(l) \/ DeleteRule(l)
  \/ DeleteProject \/ CreateProject
  \/ Visit \/ Stop \/ Back \/ ExpireCookie
  \/ Authorize \/ Decline \/ Restart \/ Forget
  \/ \E hash \in 0 .. hashes : Submit(hash) \/ AnswerPost(hash)
  \/ \E s \in States : ExpireState(s) \/ Callback(s)
  \/ \E c \in callbacks : FailCallback(c) \/ FinishCallback(c)

Spec == Init /\ [][Next]_vars

-----------------------------------------------------------------------------
\* Every variable keeps its type; every rule, cookie, state and callback comes from a
\* password, state and project that have existed.
TypeOK ==
  /\ rule \in [Levels -> Rule \cup {None}] /\ hashes \in 0 .. MaxHash
  /\ lives \in 1 .. MaxLives /\ exists \in BOOLEAN
  /\ generated \in 0 .. MaxState /\ states \in [States -> 0 .. lives]
  /\ expired \subseteq 1 .. generated /\ spent \subseteq 1 .. generated
  /\ callbacks \subseteq [state : 1 .. generated, project : 1 .. lives]
  /\ jar \in Seq(Cookie) /\ marked \in BOOLEAN
  /\ page \in Page /\ cached \in Page
  /\ posts \subseteq 0 .. hashes /\ stopped \in BOOLEAN
  /\ proven \subseteq 0 .. hashes /\ failed \in Failures
  /\ \A l \in Levels : rule[l] # None => rule[l].hash <= hashes

\* Whatever rule is set, replaced, removed or overridden after a visitor has logged in:
\* the site gives him its content only while no rule applies, his address is allowed, he
\* has given the very password that is in force, or WeCom has named him and he is on the
\* list that is in force.
ServedAuthorized ==
  Decision.shows = "content" =>
    \/ Applies = None
    \/ Applies.ips = "visitor"
    \/ Applies.hash > 0 /\ Applies.hash \in proven
    \/ 0 \in proven /\ Admits

\* A state is exchanged at most once: what the server still holds, through concurrent
\* callbacks, a reloaded callback address, a cleanup or a restart, has never been.
StateUsedOnce == \A s \in spent : states[s] = 0

\* The login form has at most one submission in flight, and can be used whenever none is,
\* also when the browser restores the page that had been submitted; only a navigation
\* the visitor himself stopped leaves it locked.
FormUsable ==
  /\ Cardinality(posts) <= 1
  /\ page.shows = "form" /\ posts = {} /\ ~ stopped => ~ page.locked

\* After an attempt that has failed at its exchange or its rule, or by an unknown state
\* on the site's own host, the visitor is shown the form "instead of being looped back
\* into another OAuth attempt", for a minute (docs/wework.md:175), however failures and
\* successes of concurrent callbacks follow each other.  The other failures leave no
\* marker on the site's host: a callback without a code, a project that has been
\* replaced, and an unknown state at a central callback.
NoLoopBack ==
  failed = "known" \/ (failed = "unknown" /\ ~ Central) => Decision.shows # "authorize"
=============================================================================
