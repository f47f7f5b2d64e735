------------------------ MODULE ConsoleSessionProofs ------------------------
(***************************************************************************)
(* Console sessions, for any number of tabs, users, sessions and requests: *)
(* a mutation runs as the user its tab shows, a confirmed logout is final, *)
(* no stale answer throws a user out, and no page waits in vain.           *)
(***************************************************************************)
EXTENDS ConsoleSession, TLAPS

Known == 1 .. created \cup {None}

\* What is known of one request: who asks, under which session, and what an answer means.
SoundRequest(r) ==
  /\ r.kind = "login" => r.user \in Users /\ (r.reply = "ok" => r.grant \in 1 .. created)
  /\ r.kind \in {"read", "write", "logout"} => r.view \in 1 .. created /\ r.user = owner[r.view]
  /\ r.kind \in {"write", "logout"} /\ r.reply = "ok" => r.view = r.cookie
  /\ r.kind = "logout" /\ r.reply = "ok" => r.view \notin live
  /\ r.kind \in {"read", "write"} => r.held # "page"
  /\ r.kind = "check" => r.held # "component"

\* A mounted component waits only for requests of what its tab shows.
MountedRequest(r) ==
  r.held = "component" =>
    IF r.kind = "login" THEN view[r.tab] = None ELSE r.view = view[r.tab]

Sound == \A r \in requests : SoundRequest(r)
Mounted == \A r \in requests : MountedRequest(r)

IInv == TypeOK /\ Sound /\ Mounted /\ NobodyStuck

\* Two requests that differ at most in who waits for the answer.
Alike(r, q) ==
  /\ r.tab = q.tab /\ r.kind = q.kind /\ r.cookie = q.cookie /\ r.view = q.view
  /\ r.user = q.user /\ r.reply = q.reply /\ r.grant = q.grant

\* The two halves of the type invariant: the server and the pages, and the requests.
BaseTypes ==
  /\ created \in 0 .. MaxSession
  /\ owner \in [Sessions -> Users \cup {None}]
  /\ \A s \in 1 .. created : owner[s] \in Users
  /\ live \subseteq 1 .. created /\ expired \subseteq 1 .. created
  /\ cookie \in Known
  /\ view \in [Tabs -> Known \cup {Checking}]
  /\ message \in [Tabs -> BOOLEAN] /\ busy \in [Tabs -> BOOLEAN]
TypedRequest(r) == r \in Request /\ r.cookie \in Known /\ r.view \in Known /\ r.grant \in Known

LEMMA Typing == TypeOK <=> BaseTypes /\ \A r \in requests : TypedRequest(r)
  BY SessionAssumption DEF TypeOK, BaseTypes, TypedRequest, Known, Sessions

LEMMA TypingNext == ASSUME BaseTypes', \A r \in requests' : TypedRequest(r)' PROVE TypeOK'
  BY SessionAssumption DEF TypeOK, BaseTypes, TypedRequest, Known, Sessions

\* Sessions are counted in numbers; None and Checking are none of them.
LEMMA Sorts ==
  ASSUME TypeOK
  PROVE  /\ created \in Nat /\ 1 .. created \subseteq Sessions
         /\ None \notin 1 .. created /\ Checking \notin Known /\ None \notin Sessions
         /\ Checking \notin Sessions
  BY SessionAssumption DEF TypeOK, Known, Sessions

-----------------------------------------------------------------------------
(***************************************************************************)
(* Lemmas on the operators the pages are built from                        *)
(***************************************************************************)
\* A request whose waiter changes is the same request otherwise.
LEMMA HeldAlike ==
  ASSUME NEW q \in Request, NEW h \in {"component", "page", "gone"}
  PROVE  /\ [q EXCEPT !.held = h] \in Request
         /\ [q EXCEPT !.held = h].held = h
         /\ Alike([q EXCEPT !.held = h], q)
  BY DEF Request, Alike

\* Cancelled reads and checks are forgotten; the others have no waiter any more.
LEMMA CancelEffect ==
  ASSUME NEW reqs, reqs \subseteq Request, NEW dead, dead \subseteq reqs, NEW r \in Cancel(reqs, dead)
  PROVE  /\ r \in Request
         /\ \/ r \in reqs /\ r \notin dead
            \/ \E q \in dead : Alike(r, q) /\ r.held = "gone" /\ q.kind \notin {"read", "check"}
PROOF
  <1>1. CASE r \in reqs /\ r \notin dead
    BY <1>1
  <1>2. ASSUME NEW q \in dead, q.kind \notin {"read", "check"}, r = [q EXCEPT !.held = "gone"]
        PROVE  r \in Request /\ Alike(r, q) /\ r.held = "gone"
    BY <1>2, HeldAlike
  <1> QED BY <1>1, <1>2 DEF Cancel

\* An unmounted component waits for nothing any more; everybody else goes on waiting.
LEMMA UnmountEffect ==
  ASSUME NEW reqs, reqs \subseteq Request, NEW t \in Tabs
  PROVE  /\ \A r \in Unmount(reqs, t) :
              /\ r \in Request
              /\ \/ /\ r \in reqs
                    /\ r.tab = t /\ r.held = "component" => r.kind = "check"
                 \/ \E q \in reqs :
                      /\ Alike(r, q) /\ q.tab = t
                      /\ r.held = "gone" \/ (r.held = "page" /\ q.kind \in {"login", "logout"})
                      /\ q.kind # "check" /\ q.held = "component"
         /\ \A q \in reqs : q.tab # t \/ q.held # "component" => q \in Unmount(reqs, t)
PROOF
  <1> DEFINE kept == Cancel(reqs, Signalled(reqs, t))
  <1>1. Signalled(reqs, t) \subseteq reqs /\ Unsignalled(reqs, t) \subseteq reqs
    BY DEF Signalled, Unsignalled
  <1>2. ASSUME NEW r \in Unmount(reqs, t)
        PROVE  /\ r \in Request
               /\ \/ /\ r \in reqs
                     /\ r.tab = t /\ r.held = "component" => r.kind = "check"
                  \/ \E q \in reqs :
                       /\ Alike(r, q) /\ q.tab = t
                       /\ r.held = "gone" \/ (r.held = "page" /\ q.kind \in {"login", "logout"})
                       /\ q.kind # "check" /\ q.held = "component"
    <2>1. CASE r \in kept /\ r \notin Unsignalled(reqs, t)
      <3>1. r \in Request
        BY <1>1, <2>1, CancelEffect
      <3>2. CASE r \in reqs /\ r \notin Signalled(reqs, t)
        <4>1. r.kind \in Kinds
          BY <3>1 DEF Request
        <4> QED BY <2>1, <3>1, <3>2, <4>1 DEF Signalled, Unsignalled, Kinds
      <3>3. ASSUME NEW q \in Signalled(reqs, t), Alike(r, q), r.held = "gone"
            PROVE  q \in reqs /\ q.tab = t /\ q.kind # "check" /\ q.held = "component"
        BY <3>3 DEF Signalled
      <3> QED BY <1>1, <2>1, <3>1, <3>2, <3>3, CancelEffect
    <2>2. ASSUME NEW q \in Unsignalled(reqs, t), r = [q EXCEPT !.held = "page"]
          PROVE  /\ r \in Request /\ q \in reqs /\ Alike(r, q) /\ q.tab = t
                 /\ r.held = "page" /\ q.kind \in {"login", "logout"} /\ q.kind # "check"
                 /\ q.held = "component"
      BY <1>1, <2>2, HeldAlike DEF Unsignalled
    <2> QED BY <2>1, <2>2 DEF Unmount
  <1>3. ASSUME NEW q \in reqs, q.tab # t \/ q.held # "component"
        PROVE  q \in Unmount(reqs, t)
    BY <1>3 DEF Unmount, Cancel, Signalled, Unsignalled
  <1> QED BY <1>2, <1>3

\* What holds of a request holds of one that only has another waiter.
LEMMA AlikeSound ==
  ASSUME NEW q \in requests, NEW r \in Request, TypedRequest(q), SoundRequest(q), Alike(r, q),
         r.held = "gone" \/ (r.held = "page" /\ q.kind \in {"login", "logout"}),
         UNCHANGED rows
  PROVE  TypedRequest(r)' /\ SoundRequest(r)' /\ MountedRequest(r)'
  BY DEF TypedRequest, SoundRequest, MountedRequest, Alike, Known, rows

\* A new request is sound: the tab that sends it shows who it is for.
LEMMA NewSound ==
  ASSUME BaseTypes, NEW t \in Tabs, NEW kind \in Kinds, NEW user \in Users \cup {None},
         NEW held \in {"component", "page", "gone"}
  PROVE  LET r == New(t, kind, user, held)
         IN  /\ TypedRequest(r) /\ r.tab = t /\ r.kind = kind /\ r.user = user /\ r.held = held
             /\ r.view = Shown(t) /\ r.reply = "pending"
PROOF
  <1> DEFINE r == New(t, kind, user, held)
  <1>1. cookie \in Known /\ Shown(t) \in Known /\ Known \subseteq Sessions \cup {None}
    BY SessionAssumption DEF BaseTypes, Shown, Known, Sessions
  <1>2. r \in Request
    BY <1>1 DEF New, Request, Kinds
  <1>3. r.cookie = cookie /\ r.grant = None
    BY DEF New
  <1> QED BY <1>1, <1>2, <1>3 DEF New, TypedRequest, Known

-----------------------------------------------------------------------------
(***************************************************************************)
(* What the pages do                                                       *)
(***************************************************************************)
\* Showing a session, or the login form, in t, when the requests reqs remain: whoever
\* waited in another tab goes on, and the lock of t is kept only with its request.
LEMMA ShowIInv ==
  ASSUME IInv, NEW t \in Tabs, NEW v \in Known, NEW lock \in BOOLEAN,
         NEW reqs, reqs \subseteq requests,
         Show(t, v, lock, reqs), UNCHANGED rows, cookie' \in Known,
         message' \in [Tabs -> BOOLEAN],
         lock => busy[t],
         \A q \in requests :
           \/ q.tab # t
           \/ lock /\ q.held = "component" /\ q.kind \in {"login", "logout"}
           => q \in reqs
  PROVE  IInv'
PROOF
  <1> USE DEF IInv
  <1>0. BaseTypes /\ reqs \subseteq Request /\ \A r \in requests : TypedRequest(r) /\ SoundRequest(r)
    BY Typing DEF Sound, TypedRequest
  <1>1. view' \in [Tabs -> Known \cup {Checking}] /\ busy' \in [Tabs -> BOOLEAN]
        /\ view'[t] = v /\ \A u \in Tabs \ {t} : view'[u] = view[u] /\ busy'[u] = busy[u]
    BY <1>0 DEF Show, BaseTypes
  <1>2. BaseTypes'
    BY <1>0, <1>1 DEF BaseTypes, rows, Known
  <1>3. ASSUME NEW r \in requests' PROVE TypedRequest(r)' /\ SoundRequest(r)' /\ MountedRequest(r)'
    <2>1. ASSUME r \in reqs, r.tab = t /\ r.held = "component" => v = view[t]
          PROVE  TypedRequest(r)' /\ SoundRequest(r)' /\ MountedRequest(r)'
      <3>1. TypedRequest(r) /\ SoundRequest(r) /\ MountedRequest(r) /\ r.tab \in Tabs
        BY <1>0, <2>1 DEF Mounted, TypedRequest, Request
      <3>2. r.held = "component" => view'[r.tab] = view[r.tab]
        BY <1>1, <2>1, <3>1
      <3>3. TypedRequest(r)' /\ SoundRequest(r)'
        BY <3>1 DEF TypedRequest, SoundRequest, Known, rows
      <3>4. MountedRequest(r)'
        BY <3>1, <3>2 DEF MountedRequest
      <3> QED BY <3>3, <3>4
    <2>2. CASE v # view[t]
      <3>1. requests' = Unmount(reqs, t)
        BY <2>2 DEF Show
      <3>2. CASE r \in reqs /\ (r.tab = t /\ r.held = "component" => r.kind = "check")
        <4>1. SoundRequest(r)
          BY <1>0, <3>2
        <4> QED BY <2>1, <3>2, <4>1 DEF SoundRequest
      <3>3. ASSUME NEW q \in reqs, Alike(r, q), r \in Request,
                   r.held = "gone" \/ (r.held = "page" /\ q.kind \in {"login", "logout"})
            PROVE  TypedRequest(r)' /\ SoundRequest(r)' /\ MountedRequest(r)'
        BY <1>0, <3>3, AlikeSound
      <3> QED BY <1>0, <3>1, <3>2, <3>3, UnmountEffect
    <2>3. CASE v = view[t]
      <3>1. CASE requests' = reqs
        BY <2>1, <2>3, <3>1
      <3>2. CASE requests' = Cancel(reqs, Signalled(reqs, t))
        <4>1. Signalled(reqs, t) \subseteq reqs
          BY DEF Signalled
        <4>2. CASE r \in reqs
          BY <2>1, <2>3, <4>2
        <4>3. ASSUME NEW q \in reqs, Alike(r, q), r \in Request, r.held = "gone"
              PROVE  TypedRequest(r)' /\ SoundRequest(r)' /\ MountedRequest(r)'
          BY <1>0, <4>3, AlikeSound
        <4> QED BY <1>0, <3>2, <4>1, <4>2, <4>3, CancelEffect
      <3> QED BY <2>3, <3>1, <3>2 DEF Show
    <2> QED BY <2>2, <2>3
  <1>4. \A q \in reqs : (q.tab # t \/ q.held # "component" \/ (v = view[t] /\ q.kind \in {"login", "logout"}))
          => q \in requests'
    <2>1. CASE v # view[t]
      BY <1>0, <2>1, UnmountEffect DEF Show
    <2>2. CASE v = view[t]
      BY <2>2 DEF Show, Cancel, Signalled
    <2> QED BY <2>1, <2>2
  <1>5. NobodyStuck'
    <2>1. ASSUME NEW u \in Tabs, u # t
          PROVE  /\ view'[u] = Checking =>
                      \E r \in requests' : r.tab = u /\ r.kind = "check" /\ r.held = "page"
                 /\ busy'[u] =>
                      \E r \in requests' : r.tab = u /\ r.held = "component" /\
                        r.kind = IF view'[u] = None THEN "login" ELSE "logout"
      <3>1. \A q \in requests : q.tab = u => q \in requests'
        BY <1>4, <2>1
      <3>2. view'[u] = view[u] /\ busy'[u] = busy[u]
        BY <1>1, <2>1
      <3> QED BY <3>1, <3>2 DEF NobodyStuck
    <2>2. view'[t] # Checking
      BY <1>1, Sorts
    <2>3. ASSUME busy'[t]
          PROVE  \E r \in requests' : r.tab = t /\ r.held = "component" /\
                   r.kind = IF view'[t] = None THEN "login" ELSE "logout"
      <3>1. v = view[t] /\ lock
        BY <1>0, <2>3 DEF Show, BaseTypes
      <3>2. PICK r \in requests : r.tab = t /\ r.held = "component" /\
                   r.kind = IF view[t] = None THEN "login" ELSE "logout"
        BY <3>1 DEF NobodyStuck
      <3>3. r.kind \in {"login", "logout"}
        BY <3>2
      <3>4. r \in requests'
        BY <1>4, <3>1, <3>2, <3>3
      <3> QED BY <1>1, <3>1, <3>2, <3>4
    <2> QED BY <2>1, <2>2, <2>3 DEF NobodyStuck
  <1> QED BY <1>2, <1>3, <1>5, TypingNext DEF Sound, Mounted

\* A page that starts to check: of its own requests only those without a component remain.
LEMMA CheckIInv ==
  ASSUME IInv, NEW t \in Tabs, NEW reqs, Check(t, reqs),
         \A r \in reqs : /\ TypedRequest(r) /\ SoundRequest(r) /\ MountedRequest(r)
                         /\ r.tab = t => r.held # "component",
         \A q \in requests : q.tab # t => q \in reqs
  PROVE  IInv'
PROOF
  <1> USE DEF IInv
  <1> DEFINE new == [New(t, "check", None, "page") EXCEPT !.view = None]
  <1>0. BaseTypes /\ \A r \in requests : TypedRequest(r) /\ SoundRequest(r)
    BY Typing DEF Sound
  <1>1. /\ view' = [view EXCEPT ![t] = Checking] /\ busy' = [busy EXCEPT ![t] = FALSE]
        /\ message' = [message EXCEPT ![t] = FALSE]
        /\ requests' = reqs \cup {new} /\ UNCHANGED <<rows, cookie>>
    BY DEF Check
  <1>2. BaseTypes'
    BY <1>0, <1>1 DEF BaseTypes, rows, Known
  <1>3. /\ view'[t] = Checking /\ busy'[t] = FALSE
        /\ \A u \in Tabs \ {t} : view'[u] = view[u] /\ busy'[u] = busy[u]
    BY <1>0, <1>1 DEF BaseTypes
  <1>4. TypedRequest(new) /\ SoundRequest(new) /\ new.tab = t /\ new.kind = "check" /\ new.held = "page"
    <2>1. LET r == New(t, "check", None, "page")
          IN  TypedRequest(r) /\ r.tab = t /\ r.kind = "check" /\ r.held = "page"
      BY <1>0, NewSound DEF Kinds
    <2>2. None \in Known /\ Known \subseteq Sessions \cup {None}
      BY Sorts DEF Known
    <2> QED BY <2>1, <2>2 DEF TypedRequest, SoundRequest, Request
  <1>5. ASSUME NEW r \in requests' PROVE TypedRequest(r)' /\ SoundRequest(r)' /\ MountedRequest(r)'
    <2>1. CASE r = new
      BY <1>1, <1>4, <2>1 DEF TypedRequest, SoundRequest, MountedRequest, Known, rows
    <2>2. CASE r \in reqs
      <3>1. TypedRequest(r) /\ SoundRequest(r) /\ MountedRequest(r) /\ r.tab \in Tabs
        BY <2>2 DEF TypedRequest, Request
      <3>2. r.held = "component" => view'[r.tab] = view[r.tab]
        BY <1>3, <2>2, <3>1
      <3> QED BY <1>1, <3>1, <3>2 DEF TypedRequest, SoundRequest, MountedRequest, Known, rows
    <2> QED BY <1>1, <2>1, <2>2
  <1>6. NobodyStuck'
    <2>1. ASSUME NEW u \in Tabs, u # t
          PROVE  /\ view'[u] = Checking =>
                      \E r \in requests' : r.tab = u /\ r.kind = "check" /\ r.held = "page"
                 /\ busy'[u] =>
                      \E r \in requests' : r.tab = u /\ r.held = "component" /\
                        r.kind = IF view'[u] = None THEN "login" ELSE "logout"
      <3>1. \A q \in requests : q.tab = u => q \in requests'
        BY <1>1, <2>1
      <3>2. view'[u] = view[u] /\ busy'[u] = busy[u]
        BY <1>3, <2>1
      <3> QED BY <3>1, <3>2 DEF NobodyStuck
    <2>2. new \in requests'
      BY <1>1
    <2>3. \E r \in requests' : r.tab = t /\ r.kind = "check" /\ r.held = "page"
      BY <1>4, <2>2
    <2> HIDE DEF new
    <2> QED BY <1>3, <2>1, <2>3 DEF NobodyStuck
  <1> QED BY <1>2, <1>5, <1>6, TypingNext DEF Sound, Mounted

LEMMA LoadIInv == ASSUME IInv, NEW t \in Tabs, Load(t) PROVE IInv'
PROOF
  <1> DEFINE own == {r \in requests : r.tab = t}
             reqs == Cancel(requests, own)
  <1>1. own \subseteq requests /\ requests \subseteq Request
        /\ \A r \in requests : TypedRequest(r) /\ SoundRequest(r) /\ MountedRequest(r)
    BY Typing DEF IInv, Sound, Mounted, TypedRequest
  <1>2. \A q \in requests : q.tab # t => q \in reqs
    BY DEF Cancel
  <1>3. ASSUME NEW r \in reqs
        PROVE  /\ TypedRequest(r) /\ SoundRequest(r) /\ MountedRequest(r)
               /\ r.tab = t => r.held # "component"
    <2>1. CASE r \in requests /\ r \notin own
      BY <1>1, <2>1
    <2>2. ASSUME NEW q \in own, Alike(r, q), r.held = "gone", r \in Request
          PROVE  TypedRequest(r) /\ SoundRequest(r) /\ MountedRequest(r) /\ r.held # "component"
      BY <1>1, <2>2 DEF TypedRequest, SoundRequest, MountedRequest, Alike
    <2> QED BY <1>1, <2>1, <2>2, CancelEffect
  <1>4. Check(t, reqs)
    BY DEF Load
  <1> QED BY <1>2, <1>3, <1>4, CheckIInv

LEMMA RecheckIInv == ASSUME IInv, NEW t \in Tabs, Recheck(t) PROVE IInv'
PROOF
  <1> DEFINE reqs == {r \in Unmount(requests, t) : ~ (r.tab = t /\ r.kind = "check")}
  <1>1. requests \subseteq Request
        /\ \A r \in requests : TypedRequest(r) /\ SoundRequest(r) /\ MountedRequest(r)
    BY Typing DEF IInv, Sound, Mounted, TypedRequest
  <1>2. \A q \in requests : q.tab # t => q \in reqs
    BY <1>1, UnmountEffect
  <1>3. ASSUME NEW r \in reqs
        PROVE  /\ TypedRequest(r) /\ SoundRequest(r) /\ MountedRequest(r)
               /\ r.tab = t => r.held # "component"
    <2>1. CASE r \in requests /\ (r.tab = t /\ r.held = "component" => r.kind = "check")
      BY <1>1, <2>1
    <2>2. ASSUME NEW q \in requests, Alike(r, q), r \in Request, q.kind # "check",
                 r.held = "gone" \/ (r.held = "page" /\ q.kind \in {"login", "logout"})
          PROVE  TypedRequest(r) /\ SoundRequest(r) /\ MountedRequest(r) /\ r.held # "component"
      BY <1>1, <2>2 DEF TypedRequest, SoundRequest, MountedRequest, Alike
    <2> QED BY <1>1, <2>1, <2>2, UnmountEffect
  <1>4. Check(t, reqs)
    BY DEF Recheck
  <1> QED BY <1>2, <1>3, <1>4, CheckIInv

\* A component sends a request; a form or button locks itself with it.
LEMMA SendIInv ==
  ASSUME IInv, NEW t \in Tabs,
         Read(t) \/ Write(t) \/ Logout(t) \/ \E u \in Users : Login(t, u)
  PROVE  IInv'
PROOF
  <1> USE DEF IInv
  <1>0. BaseTypes /\ \A r \in requests : TypedRequest(r) /\ SoundRequest(r) /\ MountedRequest(r)
    BY Typing DEF Sound, Mounted
  <1>1. PICK kind \in {"read", "write", "logout", "login"}, user \in Users \cup {None} :
          /\ requests' = requests \cup {New(t, kind, user, "component")}
          /\ IF kind = "login" THEN view[t] = None /\ user \in Users
             ELSE view[t] \in Sessions /\ user = UserOf(view[t])
          /\ busy' = busy \/ (kind \in {"login", "logout"} /\ busy' = [busy EXCEPT ![t] = TRUE])
          /\ UNCHANGED <<rows, cookie, view, message>>
    <2>1. view[t] \in Sessions => UserOf(view[t]) \in Users \cup {None}
      BY <1>0 DEF BaseTypes, UserOf
    <2>2. CASE Read(t)
      BY <2>1, <2>2 DEF Read, Send, page
    <2>3. CASE Write(t)
      BY <2>1, <2>3 DEF Write, Send, page
    <2>4. CASE Logout(t)
      BY <2>1, <2>4 DEF Logout, Send
    <2>5. ASSUME NEW u \in Users, Login(t, u)
          PROVE  /\ requests' = requests \cup {New(t, "login", u, "component")}
                 /\ view[t] = None /\ busy' = [busy EXCEPT ![t] = TRUE]
                 /\ UNCHANGED <<rows, cookie, view, message>>
      BY <2>5 DEF Login, Send
    <2> QED BY <2>2, <2>3, <2>4, <2>5
  <1> DEFINE new == New(t, kind, user, "component")
  <1>2. /\ TypedRequest(new) /\ new.tab = t /\ new.kind = kind /\ new.user = user
        /\ new.held = "component" /\ new.view = Shown(t) /\ new.reply = "pending"
    BY <1>0, NewSound DEF Kinds
  <1>3. kind # "login" => view[t] \in 1 .. created /\ new.view = view[t] /\ user = owner[view[t]]
    <2>1. view[t] \in Sessions => view[t] \in 1 .. created
      BY <1>0, Sorts DEF BaseTypes, Known
    <2> QED BY <1>1, <1>2, <2>1 DEF Shown, UserOf
  <1>4. SoundRequest(new) /\ MountedRequest(new)
    BY <1>1, <1>2, <1>3 DEF SoundRequest, MountedRequest
  <1>5. BaseTypes'
    BY <1>0, <1>1 DEF BaseTypes, rows, Known
  <1>6. ASSUME NEW r \in requests' PROVE TypedRequest(r)' /\ SoundRequest(r)' /\ MountedRequest(r)'
    <2>1. TypedRequest(r) /\ SoundRequest(r) /\ MountedRequest(r)
      BY <1>0, <1>1, <1>2, <1>4
    <2> QED BY <1>1, <2>1 DEF TypedRequest, SoundRequest, MountedRequest, Known, rows
  <1>7. NobodyStuck'
    <2>1. new \in requests' /\ requests \subseteq requests' /\ view' = view
      BY <1>1
    <2>2. \A u \in Tabs : busy'[u] =>
            \/ busy[u]
            \/ u = t /\ kind = "login" /\ view[t] = None
            \/ u = t /\ kind = "logout" /\ view[t] # None
      <3>1. CASE busy' = busy
        BY <3>1
      <3>2. CASE kind \in {"login", "logout"} /\ busy' = [busy EXCEPT ![t] = TRUE]
        <4>1. \A u \in Tabs : u # t => busy'[u] = busy[u]
          BY <1>0, <3>2 DEF BaseTypes
        <4>2. view[t] \in Sessions => view[t] # None
          BY Sorts
        <4> QED BY <1>1, <3>2, <4>1, <4>2
      <3> QED BY <1>1, <3>1, <3>2
    <2>3. ASSUME NEW u \in Tabs, busy'[u]
          PROVE  \E r \in requests' : r.tab = u /\ r.held = "component" /\
                   r.kind = IF view'[u] = None THEN "login" ELSE "logout"
      BY <1>2, <2>1, <2>2, <2>3 DEF NobodyStuck
    <2> QED BY <2>1, <2>3 DEF NobodyStuck
  <1> QED BY <1>5, <1>6, <1>7, TypingNext DEF Sound, Mounted

-----------------------------------------------------------------------------
(***************************************************************************)
(* What the server does                                                    *)
(***************************************************************************)
\* Rows only grow at the end, and sessions only lose theirs.
RowsGrow ==
  /\ created' \in Nat /\ created <= created'
  /\ \A s \in 1 .. created : owner'[s] = owner[s]
  /\ \A s \in live' : s \in live \/ s > created

\* What is known of a request stays true as rows grow.
LEMMA GrowSound ==
  ASSUME TypeOK, NEW r, RowsGrow, TypedRequest(r), SoundRequest(r)
  PROVE  TypedRequest(r)' /\ SoundRequest(r)'
PROOF
  <1>1. created \in Nat /\ 1 .. created \subseteq 1 .. created' /\ Known \subseteq Known'
    BY SessionAssumption DEF TypeOK, RowsGrow, Known
  <1>2. TypedRequest(r)'
    BY <1>1 DEF TypedRequest
  <1>3. \A s \in 1 .. created : s \notin live => s \notin live'
    BY <1>1 DEF RowsGrow
  <1>4. \A s \in 1 .. created : owner'[s] = owner[s]
    BY DEF RowsGrow
  <1> QED BY <1>1, <1>2, <1>3, <1>4 DEF SoundRequest

\* An answer changes one request, and nothing of the pages.
LEMMA ReplyIInv ==
  ASSUME IInv, NEW r \in requests, NEW reply, NEW grant, Reply(r, reply, grant),
         UNCHANGED page, RowsGrow, BaseTypes',
         reply \in {"ok", "unauthorized", "forbidden", "failed"}, grant \in Known',
         reply = "ok" => CASE r.kind = "login" -> grant # None
                           [] r.kind \in {"write", "logout"} ->
                                r.view = r.cookie /\ (r.kind = "logout" => r.view \notin live')
                           [] OTHER -> TRUE
  PROVE  IInv'
PROOF
  <1> USE DEF IInv
  <1> DEFINE answered == [r EXCEPT !.reply = reply, !.grant = grant]
  <1>0. \A q \in requests : TypedRequest(q) /\ SoundRequest(q) /\ MountedRequest(q)
    BY Typing DEF Sound, Mounted
  <1>1. requests' = (requests \ {r}) \cup {answered} /\ view' = view /\ busy' = busy
    BY DEF Reply, page
  <1>2. Known' \subseteq Sessions \cup {None}
    BY SessionAssumption DEF BaseTypes, Known, Sessions
  <1>3. /\ answered \in Request /\ answered.reply = reply /\ answered.grant = grant
        /\ answered.tab = r.tab /\ answered.kind = r.kind /\ answered.cookie = r.cookie
        /\ answered.view = r.view /\ answered.user = r.user /\ answered.held = r.held
    BY <1>0, <1>2 DEF TypedRequest, Request
  <1>4. TypedRequest(r)' /\ SoundRequest(r)'
    BY <1>0, GrowSound
  <1>5. TypedRequest(answered)'
    BY <1>3, <1>4 DEF TypedRequest
  <1>6. SoundRequest(answered)'
    <2>1. grant # None => grant \in (1 .. created)'
      BY DEF Known
    <2> QED BY <1>3, <1>4, <2>1 DEF SoundRequest
  <1>7. MountedRequest(answered)'
    <2>1. MountedRequest(r)
      BY <1>0
    <2> QED BY <1>1, <1>3, <2>1 DEF MountedRequest
  <1>8. ASSUME NEW q \in requests' PROVE TypedRequest(q)' /\ SoundRequest(q)' /\ MountedRequest(q)'
    <2>1. CASE q = answered
      BY <1>5, <1>6, <1>7, <2>1
    <2>2. CASE q \in requests
      <3>1. MountedRequest(q)'
        BY <1>0, <1>1, <2>2 DEF MountedRequest
      <3> QED BY <1>0, <2>2, <3>1, GrowSound
    <2> QED BY <1>1, <2>1, <2>2
  <1>9. NobodyStuck'
    <2> HIDE DEF answered
    <2>1. \A q \in requests : \E n \in requests' :
            n.tab = q.tab /\ n.kind = q.kind /\ n.held = q.held
      BY <1>1, <1>3
    <2> QED BY <1>1, <2>1 DEF NobodyStuck
  <1> QED BY <1>8, <1>9, TypingNext DEF Sound, Mounted

LEMMA AnswerIInv == ASSUME IInv, NEW r \in requests, Answer(r) \/ Lose(r) PROVE IInv'
PROOF
  <1>0. BaseTypes /\ TypedRequest(r) /\ SoundRequest(r) /\ created \in Nat /\ TypeOK
    BY Typing, SessionAssumption DEF IInv, Sound, BaseTypes
  <1>1. ASSUME UNCHANGED rows PROVE RowsGrow
    BY <1>0, <1>1 DEF RowsGrow, rows
  <1>2. ASSUME UNCHANGED <<rows, cookie, page>> PROVE BaseTypes' /\ Known' = Known
    BY <1>0, <1>2 DEF BaseTypes, rows, page, Known
  <1>3. None \in Known /\ r.cookie \in Known
    BY <1>0 DEF TypedRequest, Known
  <1>4. Refusal(r) \in {"unauthorized", "forbidden", "none"}
    BY DEF Refusal
  <1>5. CASE AnswerCheck(r)
    <2>1. PICK reply \in {"ok", "unauthorized"}, grant \in {r.cookie, None} :
            Reply(r, reply, grant) /\ r.kind = "check" /\ UNCHANGED <<rows, cookie, page>>
      BY <1>5 DEF AnswerCheck
    <2> QED BY <1>1, <1>2, <1>3, <2>1, ReplyIInv
  <1>6. CASE SignIn(r)
    <2>1. /\ r.kind = "login" /\ created < MaxSession /\ created' = created + 1
          /\ owner' = [owner EXCEPT ![created'] = r.user] /\ Reply(r, "ok", created')
          /\ live' \subseteq live \cup {created'}
          /\ UNCHANGED <<expired, cookie, page>>
      BY <1>6 DEF SignIn
    <2>2. created' \in 1 .. MaxSession /\ created' \in Sessions /\ r.user \in Users
      BY <1>0, <2>1, SessionAssumption DEF Sessions, SoundRequest
    <2>3. owner' \in [Sessions -> Users \cup {None}] /\ owner'[created'] = r.user
          /\ \A s \in 1 .. created : owner'[s] = owner[s]
      BY <1>0, <2>1, <2>2, SessionAssumption DEF BaseTypes, Sessions
    <2>4. 1 .. created' = (1 .. created) \cup {created'} /\ Known \subseteq Known'
      BY <1>0, <2>1 DEF Known
    <2>5. RowsGrow
      BY <1>0, <2>1, <2>3 DEF RowsGrow, BaseTypes
    <2>6. BaseTypes'
      <3>1. \A s \in 1 .. created' : owner'[s] \in Users
        BY <1>0, <2>2, <2>3, <2>4 DEF BaseTypes
      <3>2. live' \subseteq 1 .. created' /\ expired' \subseteq 1 .. created'
        BY <1>0, <2>1, <2>4 DEF BaseTypes
      <3>3. cookie' \in Known' /\ view' \in [Tabs -> Known' \cup {Checking}]
            /\ message' \in [Tabs -> BOOLEAN] /\ busy' \in [Tabs -> BOOLEAN]
        BY <1>0, <2>1, <2>4 DEF BaseTypes, page
      <3>4. created' \in 0 .. MaxSession
        BY <1>0, <2>1, SessionAssumption
      <3> QED BY <2>3, <3>1, <3>2, <3>3, <3>4 DEF BaseTypes
    <2>7. created' \in Known' /\ created' # None
      BY <2>2, <2>4, SessionAssumption DEF Known
    <2> QED BY <2>1, <2>5, <2>6, <2>7, ReplyIInv
  <1>7. CASE RefuseLogin(r)
    BY <1>1, <1>2, <1>3, <1>7, ReplyIInv DEF RefuseLogin
  <1>8. CASE SignOut(r)
    <2>0. r.kind = "logout" /\ UNCHANGED <<created, owner, expired, cookie, page>>
      BY <1>8 DEF SignOut
    <2>1. live' \subseteq live
      BY <1>8 DEF SignOut, Revoked
    <2>2. RowsGrow
      BY <1>0, <2>0, <2>1 DEF RowsGrow
    <2>3. BaseTypes' /\ Known' = Known
      BY <1>0, <2>0, <2>1 DEF BaseTypes, page, Known
    <2>4. CASE Refusal(r) = "none" /\ live' = Revoked(r.cookie) /\ Reply(r, "ok", None)
      <3>1. r.view = r.cookie
        BY <2>0, <2>4 DEF Refusal, CsrfMatches
      <3>2. r.view \notin live'
        BY <2>4, <3>1 DEF Revoked
      <3> QED BY <1>3, <2>0, <2>2, <2>3, <2>4, <3>1, <3>2, ReplyIInv
    <2>5. ASSUME NEW reply \in {"unauthorized", "forbidden", "failed"}, Reply(r, reply, None)
          PROVE  IInv'
      BY <1>3, <2>0, <2>2, <2>3, <2>5, ReplyIInv
    <2> QED BY <1>4, <1>8, <2>4, <2>5 DEF SignOut
  <1>9. CASE Serve(r)
    <2>1. r.kind \in {"read", "write"} /\ UNCHANGED <<rows, cookie, page>>
      BY <1>9 DEF Serve
    <2>2. CASE Refusal(r) = "none" /\ Reply(r, "ok", None)
      <3>1. r.kind = "write" => r.view = r.cookie
        BY <2>1, <2>2 DEF Refusal, CsrfMatches
      <3> QED BY <1>1, <1>2, <1>3, <2>1, <2>2, <3>1, ReplyIInv
    <2>3. CASE Refusal(r) # "none" /\ Reply(r, Refusal(r), None)
      BY <1>1, <1>2, <1>3, <1>4, <2>1, <2>3, ReplyIInv
    <2> QED BY <1>9, <2>2, <2>3 DEF Serve
  <1>10. CASE Lose(r)
    BY <1>1, <1>2, <1>3, <1>10, ReplyIInv DEF Lose
  <1> QED BY <1>5, <1>6, <1>7, <1>8, <1>9, <1>10 DEF Answer

\* Time passes, or an answer is dropped: only the jar changes for the pages.
LEMMA BrowserIInv ==
  ASSUME IInv,
         DropCookie \/ (\E s \in Sessions : Expire(s)) \/ (\E r \in requests : Discard(r))
  PROVE  IInv'
PROOF
  <1>0. BaseTypes /\ \A r \in requests : TypedRequest(r) /\ SoundRequest(r) /\ MountedRequest(r)
    BY Typing DEF IInv, Sound, Mounted
  <1>1. /\ requests' \subseteq requests /\ \A r \in requests : r \in requests' \/ r.held = "gone"
        /\ UNCHANGED <<created, owner, live, page>>
        /\ expired' \subseteq 1 .. created /\ cookie' \in Known
    <2>1. CASE DropCookie
      BY <1>0, <2>1 DEF DropCookie, rows, Known, BaseTypes
    <2>2. ASSUME NEW s \in Sessions, Expire(s)
          PROVE  /\ UNCHANGED <<created, owner, live, page, requests>>
                 /\ expired' \subseteq 1 .. created /\ cookie' \in Known
      BY <1>0, <2>2 DEF Expire, page, BaseTypes
    <2>3. ASSUME NEW r \in requests, Discard(r)
          PROVE  /\ requests' = requests \ {r} /\ r.held = "gone"
                 /\ UNCHANGED <<created, owner, live, page>>
                 /\ expired' \subseteq 1 .. created /\ cookie' \in Known
      <3>1. Jar(r) \in Known
        BY <1>0 DEF Jar, TypedRequest, BaseTypes, Known
      <3> QED BY <1>0, <2>3, <3>1 DEF Discard, Rest, rows, BaseTypes
    <2> QED BY <2>1, <2>2, <2>3
  <1>2. BaseTypes'
    BY <1>0, <1>1 DEF BaseTypes, page, Known
  <1>3. ASSUME NEW r \in requests' PROVE TypedRequest(r)' /\ SoundRequest(r)' /\ MountedRequest(r)'
    BY <1>0, <1>1 DEF TypedRequest, SoundRequest, MountedRequest, Known, page
  <1>4. NobodyStuck'
    <2>1. NobodyStuck /\ view' = view /\ busy' = busy
      BY <1>1 DEF IInv, page
    <2> QED BY <1>1, <2>1 DEF NobodyStuck
  <1> QED BY <1>2, <1>3, <1>4, TypingNext DEF IInv, Sound, Mounted

-----------------------------------------------------------------------------
(***************************************************************************)
(* Answers arrive                                                          *)
(***************************************************************************)
\* An answer that leaves the tab where it is takes only its own lock with it.
LEMMA UnlockIInv ==
  ASSUME IInv, NEW r \in requests, Arrives(r, "login") \/ Arrives(r, "logout"),
         busy' = [busy EXCEPT ![r.tab] = Unlocked(r)], requests' = Rest(r),
         UNCHANGED <<rows, view, message>>, cookie' \in Known
  PROVE  IInv'
PROOF
  <1>0. /\ BaseTypes /\ r.tab \in Tabs /\ r.held \in {"component", "page", "gone"}
        /\ \A q \in requests : TypedRequest(q) /\ SoundRequest(q) /\ MountedRequest(q)
    BY Typing DEF IInv, Sound, Mounted, TypedRequest, Request
  <1>1. Unlocked(r) \in BOOLEAN /\ (Unlocked(r) => busy[r.tab] /\ r.held = "page")
    BY <1>0 DEF Unlocked, BaseTypes
  <1>2. busy' \in [Tabs -> BOOLEAN]
        /\ \A t \in Tabs : busy'[t] => busy[t] /\ (t = r.tab => r.held = "page")
    BY <1>0, <1>1 DEF BaseTypes
  <1>3. BaseTypes'
    BY <1>0, <1>2 DEF BaseTypes, rows, Known
  <1>4. ASSUME NEW q \in requests' PROVE TypedRequest(q)' /\ SoundRequest(q)' /\ MountedRequest(q)'
    BY <1>0 DEF TypedRequest, SoundRequest, MountedRequest, Known, rows, Rest
  <1>5. NobodyStuck'
    <2>1. ASSUME NEW t \in Tabs, view[t] = Checking
          PROVE  \E q \in requests' : q.tab = t /\ q.kind = "check" /\ q.held = "page"
      BY <2>1 DEF IInv, NobodyStuck, Rest, Arrives
    <2>2. ASSUME NEW t \in Tabs, busy'[t]
          PROVE  \E q \in requests' : q.tab = t /\ q.held = "component" /\
                   q.kind = IF view[t] = None THEN "login" ELSE "logout"
      <3>1. PICK q \in requests : q.tab = t /\ q.held = "component" /\
                   q.kind = IF view[t] = None THEN "login" ELSE "logout"
        BY <1>2, <2>2 DEF IInv, NobodyStuck
      <3>2. q # r
        BY <1>2, <2>2, <3>1
      <3> QED BY <3>1, <3>2 DEF Rest
    <2> QED BY <2>1, <2>2 DEF NobodyStuck
  <1> QED BY <1>3, <1>4, <1>5, TypingNext DEF IInv, Sound, Mounted

LEMMA ArriveIInv == ASSUME IInv, NEW r \in requests, Arrive(r) PROVE IInv'
PROOF
  <1>0. /\ BaseTypes /\ TypeOK /\ r.tab \in Tabs /\ r.grant \in Known /\ None \in Known
        /\ r.held \in {"component", "page", "gone"} /\ SoundRequest(r)
    BY Typing DEF IInv, Sound, TypedRequest, Request, Known
  <1>1. Rest(r) \subseteq requests /\ \A q \in requests : q # r => q \in Rest(r)
    BY DEF Rest
  <1>2. cookie \in Known /\ Jar(r) \in Known
    BY <1>0 DEF Jar, BaseTypes
  <1>3. Unlocked(r) \in BOOLEAN /\ (Unlocked(r) => busy[r.tab] /\ r.held = "page")
        /\ busy[r.tab] \in BOOLEAN
    BY <1>0 DEF Unlocked, BaseTypes
  <1>4. ASSUME NEW b \in BOOLEAN PROVE [message EXCEPT ![r.tab] = b] \in [Tabs -> BOOLEAN]
    BY <1>0 DEF BaseTypes
  <1>5. ASSUME NEW v \in Known, Show(r.tab, v, Unlocked(r), Rest(r)), UNCHANGED rows,
               cookie' \in Known, message' \in [Tabs -> BOOLEAN]
        PROVE  IInv'
    <2>1. \A q \in requests :
            \/ q.tab # r.tab
            \/ Unlocked(r) /\ q.held = "component" /\ q.kind \in {"login", "logout"}
            => q \in Rest(r)
      BY <1>1, <1>3
    <2> QED BY <1>0, <1>1, <1>3, <1>5, <2>1, ShowIInv
  <1>6. CASE EndCheck(r)
    <2>1. \A q \in requests :
            \/ q.tab # r.tab
            \/ busy[r.tab] /\ q.held = "component" /\ q.kind \in {"login", "logout"}
            => q \in Rest(r)
      BY <1>1, <1>6 DEF EndCheck, Arrives
    <2>2. message' \in [Tabs -> BOOLEAN]
      BY <1>0, <1>4, <1>6 DEF EndCheck, BaseTypes
    <2>3. Show(r.tab, r.grant, busy[r.tab], Rest(r)) /\ UNCHANGED <<rows, cookie>>
      BY <1>6 DEF EndCheck, AfterCheck
    <2> QED BY <1>0, <1>1, <1>2, <1>3, <2>1, <2>2, <2>3, ShowIInv
  <1>7. CASE EndLogin(r)
    <2>1. CASE r.reply = "ok"
      BY <1>0, <1>2, <1>4, <1>5, <1>7, <2>1 DEF EndLogin
    <2>2. CASE r.reply # "ok"
      BY <1>2, <1>7, <2>2, UnlockIInv DEF EndLogin
    <2> QED BY <2>1, <2>2
  <1>8. CASE EndLogout(r)
    <2>1. CASE r.reply = "ok"
      BY <1>0, <1>2, <1>4, <1>5, <1>8, <2>1 DEF EndLogout
    <2>2. CASE r.reply = "unauthorized"
      BY <1>0, <1>2, <1>4, <1>5, <1>8, <2>2 DEF EndLogout, Expel
    <2>3. CASE r.reply \notin {"ok", "unauthorized"}
      BY <1>2, <1>8, <2>3, UnlockIInv DEF EndLogout
    <2> QED BY <2>1, <2>2, <2>3
  <1>9. CASE EndRequest(r)
    <2>1. CASE r.reply = "unauthorized"
      BY <1>0, <1>2, <1>4, <1>5, <1>9, <2>1 DEF EndRequest, Expel
    <2>2. CASE r.reply # "unauthorized"
      <3>1. requests' = Rest(r) /\ UNCHANGED <<rows, cookie, view, message, busy>>
            /\ r.kind \in {"read", "write"}
        BY <1>9, <2>2 DEF EndRequest, page, Arrives
      <3>2. BaseTypes'
        BY <1>0, <3>1 DEF BaseTypes, rows, Known
      <3>3. ASSUME NEW q \in requests'
            PROVE  TypedRequest(q)' /\ SoundRequest(q)' /\ MountedRequest(q)'
        <4>1. TypedRequest(q) /\ SoundRequest(q) /\ MountedRequest(q)
          BY <1>1, <3>1, <3>3, Typing DEF IInv, Sound, Mounted
        <4> QED BY <3>1, <4>1 DEF TypedRequest, SoundRequest, MountedRequest, Known, rows
      <3>4. NobodyStuck'
        BY <3>1 DEF IInv, NobodyStuck, Rest
      <3> QED BY <3>2, <3>3, <3>4, TypingNext DEF IInv, Sound, Mounted
    <2> QED BY <2>1, <2>2
  <1> QED BY <1>6, <1>7, <1>8, <1>9 DEF Arrive

-----------------------------------------------------------------------------
LEMMA InitIInv == Init => IInv
PROOF
  <1> SUFFICES ASSUME Init PROVE IInv
    OBVIOUS
  <1>1. BaseTypes
    <2>1. created = 0 /\ 1 .. created = {} /\ 0 \in 0 .. MaxSession /\ Known = {None}
      BY SessionAssumption DEF Init, Known
    <2> QED BY <2>1 DEF Init, BaseTypes
  <1>2. ASSUME NEW r \in requests
        PROVE  /\ TypedRequest(r) /\ SoundRequest(r) /\ MountedRequest(r)
    <2> DEFINE first(t) ==
          [tab |-> t, kind |-> "check", cookie |-> None, view |-> None, user |-> None,
           held |-> "page", reply |-> "pending", grant |-> None]
    <2>0. requests = {first(t) : t \in Tabs}
      BY Zenon DEF Init
    <2>1. PICK t \in Tabs : r = first(t)
      <3> HIDE DEF first
      <3> QED BY <1>2, <2>0
    <2>2. r \in Request
      BY <2>1 DEF Request, Kinds
    <2>3. /\ r.kind = "check" /\ r.cookie = None /\ r.view = None /\ r.grant = None
          /\ r.held = "page" /\ r.reply = "pending"
      BY <2>1
    <2> QED BY <2>2, <2>3 DEF TypedRequest, SoundRequest, MountedRequest, Known
  <1>3. NobodyStuck
    <2>1. ASSUME NEW t \in Tabs
          PROVE  \E r \in requests : r.tab = t /\ r.kind = "check" /\ r.held = "page"
      <3> DEFINE r == [tab |-> t, kind |-> "check", cookie |-> None, view |-> None,
                       user |-> None, held |-> "page", reply |-> "pending", grant |-> None]
      <3>1. r \in requests
        BY DEF Init
      <3> QED BY <3>1
    <2> QED BY <2>1 DEF Init, NobodyStuck
  <1> QED BY <1>1, <1>2, <1>3, Typing DEF IInv, Sound, Mounted

LEMMA NextIInv == IInv /\ [Next]_vars => IInv'
PROOF
  <1> SUFFICES ASSUME IInv, [Next]_vars PROVE IInv'
    OBVIOUS
  <1>1. ASSUME NEW t \in Tabs,
               Load(t) \/ Recheck(t) \/ Read(t) \/ Write(t) \/ Logout(t) \/ \E u \in Users : Login(t, u)
        PROVE  IInv'
    BY <1>1, LoadIInv, RecheckIInv, SendIInv
  <1>2. ASSUME NEW r \in requests, Answer(r) \/ Lose(r) \/ Arrive(r) PROVE IInv'
    BY <1>2, AnswerIInv, ArriveIInv
  <1>3. CASE DropCookie \/ (\E s \in Sessions : Expire(s)) \/ (\E r \in requests : Discard(r))
    BY <1>3, BrowserIInv
  <1>4. CASE UNCHANGED vars
    <2>1. TypeOK' /\ Sound' /\ Mounted'
      BY <1>4 DEF IInv, vars, rows, page, TypeOK, Sound, Mounted, SoundRequest, MountedRequest
    <2>2. NobodyStuck'
      BY <1>4 DEF IInv, vars, page, NobodyStuck
    <2> QED BY <2>1, <2>2 DEF IInv
  <1> QED BY <1>1, <1>2, <1>3, <1>4 DEF Next

\* The inductive invariant holds in every reachable state.
THEOREM Inductive == Spec => []IInv
  BY InitIInv, NextIInv, PTL DEF Spec

\* Rows, jar, tabs and requests keep their types and name only sessions that exist.
THEOREM SessionTypes == Spec => []TypeOK
  BY Inductive, PTL DEF IInv

\* A mutation that is accepted runs as the user whom the tab displayed (console.go:
\* the CSRF value belongs to the session of the cookie).
THEOREM MutationsRunAsShown == Spec => []WritesAsShown
PROOF
  <1>1. IInv => WritesAsShown
    BY Sorts DEF IInv, Sound, SoundRequest, WritesAsShown, UserOf
  <1> QED BY <1>1, Inductive, PTL

\* A confirmed logout leaves no row of the session that was shown (console.go, session.go).
THEOREM LogoutsAreFinal == Spec => []LogoutIsFinal
PROOF
  <1>1. IInv => LogoutIsFinal
    BY DEF IInv, Sound, SoundRequest, LogoutIsFinal
  <1> QED BY <1>1, Inductive, PTL

\* A page that checks, a locked form and a locked button wait for an answer they will hear
\* (App.tsx: the effect's controller and the finally clauses).
THEOREM NobodyGetsStuck == Spec => []NobodyStuck
  BY Inductive, PTL DEF IInv

\* Only the answer that ends a displayed session takes it off the screen.
LEMMA StaleStep ==
  ASSUME IInv, Next, NEW t \in Tabs, view[t] \in Sessions, view'[t] = None
  PROVE  \E r \in requests \ requests' :
           /\ r.tab = t /\ r.reply # "pending"
           /\ r.kind \in {"check", "logout"} \/ r.view = view[t]
PROOF
  <1>0. /\ BaseTypes /\ TypeOK /\ requests \subseteq Request /\ view[t] # None
        /\ \A q \in requests : TypedRequest(q) /\ SoundRequest(q) /\ MountedRequest(q)
    BY Typing, Sorts DEF IInv, Sound, Mounted, TypedRequest
  <1>1. ASSUME NEW r \in requests, r.tab = t, r.reply # "pending", r.kind # "login", r.held # "gone",
               NEW lock, Show(t, None, lock, Rest(r))
        PROVE  \E q \in requests \ requests' :
                 /\ q.tab = t /\ q.reply # "pending"
                 /\ q.kind \in {"check", "logout"} \/ q.view = view[t]
    <2>1. requests' = Unmount(Rest(r), t) /\ Rest(r) \subseteq Request /\ Rest(r) \subseteq requests
      BY <1>0, <1>1 DEF Show, Rest
    <2>2. r \in Request /\ r.kind \in Kinds /\ r.held \in {"component", "page", "gone"}
      BY <1>0, <1>1 DEF Request
    <2>3. CASE r \notin requests'
      <3>1. r.kind \in {"read", "write"} => r.held = "component" /\ r.view = view[t]
        BY <1>0, <1>1, <2>2 DEF SoundRequest, MountedRequest
      <3> QED BY <1>1, <2>2, <2>3, <3>1 DEF Kinds
    <2>4. CASE r \in requests'
      <3>1. PICK q \in Rest(r) :
              /\ Alike(r, q) /\ q.tab = t
              /\ r.held = "gone" \/ (r.held = "page" /\ q.kind \in {"login", "logout"})
              /\ q.kind # "check" /\ q.held = "component"
        <4>1. r \notin Rest(r)
          BY DEF Rest
        <4> QED BY <1>1, <2>1, <2>4, <4>1, UnmountEffect
      <3>2. q \in requests /\ q.kind = "logout" /\ q.reply # "pending"
        BY <1>1, <2>1, <3>1 DEF Alike
      <3>3. q \notin requests'
        <4> SUFFICES ASSUME q \in requests' PROVE FALSE
          OBVIOUS
        <4> QED BY <2>1, <3>1, UnmountEffect
      <3> QED BY <3>1, <3>2, <3>3
    <2> QED BY <2>3, <2>4
  <1>2. ASSUME NEW r \in requests, NEW v, NEW lock, NEW reqs, Show(r.tab, v, lock, reqs)
        PROVE  r.tab = t /\ v = None
    <2>1. r.tab \in Tabs
      BY <1>0 DEF Request
    <2> QED BY <1>0, <1>2, <2>1 DEF Show, BaseTypes
  <1>3. view'[t] # view[t]
    BY <1>0
  <1>4. ASSUME NEW u \in Tabs PROVE ~ (Load(u) \/ Recheck(u))
    <2>1. Checking # None
      BY SessionAssumption
    <2> QED BY <1>0, <1>3, <2>1 DEF Load, Recheck, Check, BaseTypes
  <1>5. ASSUME NEW u \in Tabs PROVE ~ (Read(u) \/ Write(u) \/ Logout(u) \/ \E n \in Users : Login(u, n))
    BY <1>3 DEF Read, Write, Logout, Login, page
  <1>6. ASSUME NEW r \in requests PROVE ~ (Answer(r) \/ Lose(r) \/ Discard(r))
    BY <1>3 DEF Answer, AnswerCheck, SignIn, RefuseLogin, SignOut, Serve, Lose, Discard, page
  <1>7. ~ (DropCookie \/ \E s \in Sessions : Expire(s))
    BY <1>3 DEF DropCookie, Expire, page
  <1>8. PICK r \in requests : Arrive(r)
    BY <1>4, <1>5, <1>6, <1>7 DEF Next
  <1>9. CASE EndCheck(r)
    <2>1. r.tab = t /\ r.grant = None
      BY <1>2, <1>9 DEF EndCheck, AfterCheck
    <2> QED BY <1>1, <1>9, <2>1 DEF EndCheck, AfterCheck, Arrives
  <1>10. CASE EndLogin(r)
    <2>1. r.reply = "ok" /\ Show(r.tab, r.grant, Unlocked(r), Rest(r)) /\ r.kind = "login"
      BY <1>3, <1>10 DEF EndLogin, Arrives
    <2>2. r.grant \in 1 .. created
      BY <1>0, <2>1 DEF SoundRequest
    <2> QED BY <1>2, <2>1, <2>2, Sorts, <1>0
  <1>11. CASE EndLogout(r)
    <2>1. Show(r.tab, None, Unlocked(r), Rest(r)) /\ Arrives(r, "logout")
      BY <1>3, <1>11 DEF EndLogout, Expel
    <2>2. r.tab = t
      BY <1>2, <2>1
    <2> QED BY <1>1, <2>1, <2>2 DEF Arrives
  <1>12. CASE EndRequest(r)
    <2>1. Show(r.tab, None, Unlocked(r), Rest(r)) /\ r.kind \in {"read", "write"}
          /\ r.held # "gone" /\ r.reply # "pending"
      BY <1>3, <1>12 DEF EndRequest, Expel, Arrives, page
    <2>2. r.tab = t
      BY <1>2, <2>1
    <2> QED BY <1>1, <2>1, <2>2
  <1> QED BY <1>8, <1>9, <1>10, <1>11, <1>12 DEF Arrive

\* A displayed session is ended by a check, a logout or a refusal under that very session
\* (App.tsx: the API object of a session, and the effects that cancel its requests).
THEOREM StaleAnswersAreHarmless == Spec => StaleAnswersHarmless
PROOF
  <1> DEFINE Step ==
        \A t \in Tabs : view[t] \in Sessions /\ view'[t] = None =>
          \E r \in requests \ requests' :
            /\ r.tab = t /\ r.reply # "pending"
            /\ r.kind \in {"check", "logout"} \/ r.view = view[t]
  <1>1. IInv /\ [Next]_vars => [Step]_vars
    BY StaleStep
  <1>2. Spec => [][Step]_vars
    BY <1>1, Inductive, PTL DEF Spec
  <1> QED BY <1>2 DEF StaleAnswersHarmless
=============================================================================
