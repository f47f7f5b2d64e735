------------------------ MODULE ConsoleDetailProofs ------------------------
(***************************************************************************)
(* The safety of the console's workspace, for every number of projects,    *)
(* of changes that others make and of mutations in flight.                 *)
(*                                                                         *)
(* Three facts carry it.  A pane that is replaced forgets everything, and  *)
(* what it waited for is waited for no more (PaneIInv).  While the pane    *)
(* waits for a mutation it reads nothing, and what it reads after one is   *)
(* no older than what that one made (Rereading, OneHeld).  What it has     *)
(* read is either an older version or what the server still has (Recent),  *)
(* so an offer made from it fits what the server has (Grounded).           *)
(***************************************************************************)
EXTENDS ConsoleDetail, FiniteSetTheorems, TLAPS

\* A list is waited for only while nothing is shown.
Loading == listing # None => loading = TRUE

\* The panels are read first for a new pane and then after a mutation that was executed;
\* there is a notice only when nothing is under way.
Rereading ==
  /\ flow # None => notice = None
  /\ fetch # None =>
       /\ flow = None => detail = None /\ notice = None
       /\ flow # None =>
            /\ 0 < applied /\ applied <= version[Open]
            /\ \A panel \in Panels :
                 fetch[panel] \in {Waiting, Rejected} \/ fetch[panel].version >= applied

\* The one mutation that the pane waits for holds its lock; only mutations that the server
\* has not seen are abandoned.
Held == {m \in posts : m.held = TRUE}
OneHeld ==
  /\ \A m, n \in Held : m = n
  /\ \A m \in Held : flow = m.kind /\ fetch = None
  /\ \A m \in posts : m.held = FALSE => m.state = "sent"
  /\ \A m \in posts : m.state = "done" => 0 < m.made /\ m.made <= version[m.project]

\* What the console has read is older than the server's data, or the same.
RoleIsRead(roles) ==
  \A p \in Projects : roles[p].role # "none" =>
    /\ roles[p].version <= version[p]
    /\ roles[p].version = version[p] => roles[p].role = facts[p].role
PanelsAreRead(panels) ==
  \A panel \in Panels : panels[panel].shows \notin {"waiting", "error"} =>
    /\ panels[panel].version <= version[Open]
    /\ panels[panel].version = version[Open] =>
         panels[panel].shows = IF panel = "access" THEN facts[Open].rule ELSE facts[Open].spare
Recent ==
  /\ RoleIsRead(list)
  /\ listing \notin {None, Pending} => RoleIsRead(listing)
  /\ fetch # None => PanelsAreRead(fetch)
  /\ detail # None => PanelsAreRead(detail)

\* A mutation that was offered for data the server still has is allowed, and finds the
\* rule it was offered for.
Fits(f, kind) ==
  /\ Allowed(f, kind)
  /\ kind = "save" => f.rule # "wecom"
  /\ kind = "delete" => f.rule # "none"
Grounded(m) ==
  m.state = "sent" =>
    /\ m.saw <= version[m.project]
    /\ m.saw = version[m.project] => Fits(facts[m.project], m.kind)
Sound == \A m \in posts : Grounded(m)

IInv ==
  /\ TypeOK /\ Loading /\ PaneOfSelected /\ Rereading /\ NoticeIsTrue
  /\ OneHeld /\ Recent /\ Sound

-----------------------------------------------------------------------------
LEMMA OpenType ==
  ASSUME TypeOK PROVE Open \in Projects \cup {None} /\ (Open # None => Open = selected)
  BY DEF TypeOK, Open

LEMMA InitIInv == Init => IInv
PROOF
  <1> SUFFICES ASSUME Init PROVE IInv
    OBVIOUS
  <1>1. TypeOK
    BY DetailAssumption DEF Init, TypeOK, Facts, Roles, Rules, Spares, Nothing, Quiet
  <1>2. Open = None
    BY DEF Init, Open
  <1>3. Loading /\ PaneOfSelected /\ Rereading /\ NoticeIsTrue
    BY <1>2, DetailAssumption DEF Init, Loading, PaneOfSelected, Rereading, NoticeIsTrue, Notices
  <1>4. OneHeld /\ Recent /\ Sound
    BY DEF Init, OneHeld, Held, Recent, RoleIsRead, Nothing, Sound
  <1> QED BY <1>1, <1>3, <1>4 DEF IInv

-----------------------------------------------------------------------------
(***************************************************************************)
(* Panes that take the place of another                                    *)
(***************************************************************************)
LEMMA AbandonedPosts ==
  ASSUME TypeOK
  PROVE  /\ Abandoned \subseteq Post
         /\ \A m \in Abandoned : m.held = FALSE /\ m.state = "sent"
         /\ \A m \in Abandoned : \E n \in posts :
              /\ n.state = "sent"
              /\ m.project = n.project /\ m.kind = n.kind /\ m.saw = n.saw
PROOF
  <1>1. ASSUME NEW n \in posts, n.state = "sent"
        PROVE  LET m == [n EXCEPT !.held = FALSE] IN
               /\ m \in Post /\ m.held = FALSE /\ m.state = "sent"
               /\ m.project = n.project /\ m.kind = n.kind /\ m.saw = n.saw
    BY <1>1 DEF TypeOK, Post
  <1> QED BY <1>1 DEF Abandoned

\* A new pane knows nothing, waits for nothing, and reads its own project.
LEMMA PaneIInv ==
  ASSUME IInv, TypeOK', Loading', Pane(Open'), UNCHANGED server,
         RoleIsRead(list'), listing' \notin {None, Pending} => RoleIsRead(listing')
  PROVE  IInv'
PROOF
  <1>1. /\ fetch' = (IF Open' = None THEN None ELSE [panel \in Panels |-> Waiting])
        /\ detail' = None /\ notice' = None /\ typed' = None /\ flow' = None
        /\ posts' = Abandoned /\ facts' = facts /\ version' = version
    BY DEF Pane, server
  <1>2. /\ \A m \in posts' : m.held = FALSE /\ m.state = "sent"
        /\ \A m \in posts' : Grounded(m)
    BY <1>1, AbandonedPosts DEF IInv, Sound, Grounded
  <1>3. PaneOfSelected'
    BY <1>1, <1>2 DEF PaneOfSelected, Waiting
  <1>4. Rereading' /\ NoticeIsTrue'
    BY <1>1, DetailAssumption DEF Rereading, NoticeIsTrue, Notices
  <1>5. OneHeld'
    BY <1>2 DEF OneHeld, Held
  <1>6. Sound'
    BY <1>1, <1>2 DEF Sound, Grounded
  <1>7. PanelsAreRead([panel \in Panels |-> Waiting])'
    BY DEF PanelsAreRead, Waiting
  <1>8. Recent'
    BY <1>1, <1>7 DEF Recent, RoleIsRead, PanelsAreRead
  <1> QED BY <1>3, <1>4, <1>5, <1>6, <1>8 DEF IInv

LEMMA NothingRead == RoleIsRead(Nothing) /\ Nothing \in [Projects -> [role : Roles, version : Nat]]
  BY DEF RoleIsRead, Nothing, Roles

Navigating == Refresh \/ ShowList \/ FailLogout \/ EndSession \/ \E p \in Projects : Select(p)

LEMMA NavigatingIInv == ASSUME IInv, Navigating PROVE IInv'
PROOF
  <1>1. /\ Pane(Open') /\ UNCHANGED server /\ Loading'
        /\ selected' \in Projects \cup {None} /\ loading' \in BOOLEAN /\ error' \in BOOLEAN
        /\ leaving' \in BOOLEAN /\ painted' \in {painted, Quiet}
        /\ list' \in {list, Nothing} \/ (list' = listing /\ listing \notin {None, Pending})
        /\ listing' \in {listing, None, Pending}
    <2>1. CASE Refresh
      BY <2>1 DEF Refresh, IInv, TypeOK, Loading, Open, server
    <2>2. CASE ShowList
      <3>1. Open' = IF ~ error /\ selected # None /\ listing[selected].role # "none"
                    THEN selected ELSE None
        BY <2>2 DEF ShowList, Open, Listed
      <3> QED BY <2>2, <3>1 DEF ShowList, IInv, TypeOK, Loading
    <2>3. CASE FailLogout
      <3>1. Open' = None
        BY <2>3 DEF FailLogout, Open
      <3> QED BY <2>3, <3>1 DEF FailLogout, IInv, TypeOK, Loading, server
    <2>4. CASE EndSession
      BY <2>4 DEF EndSession, IInv, TypeOK, Loading, Open, server
    <2>5. ASSUME NEW p \in Projects, Select(p)
          PROVE  /\ Pane(Open') /\ UNCHANGED server /\ Loading' /\ selected' = p
                 /\ UNCHANGED <<list, listing, loading, error, leaving, painted>>
      <3>1. Open' = p
        BY <2>5, DetailAssumption DEF Select, Open, Listed
      <3> QED BY <2>5, <3>1 DEF Select, IInv, Loading, server
    <2> QED BY <2>1, <2>2, <2>3, <2>4, <2>5 DEF Navigating, IInv, TypeOK
  <1>2. list' \in [Projects -> [role : Roles, version : Nat]]
    BY <1>1, NothingRead DEF IInv, TypeOK
  <1>3. fetch' \in {None} \cup [Panels -> Panel] /\ posts' \subseteq Post
    BY <1>1, AbandonedPosts DEF Pane, Panel, IInv
  <1>4. TypeOK'
    <2>1. painted' \in [mutating : BOOLEAN, leaving : BOOLEAN]
      <3>1. Quiet \in [mutating : BOOLEAN, leaving : BOOLEAN]
        BY DEF Quiet
      <3> QED BY <1>1, <3>1 DEF IInv, TypeOK
    <2>2. listing' \in {None, Pending} \cup [Projects -> [role : Roles, version : Nat]]
      BY <1>1 DEF IInv, TypeOK
    <2>3. /\ detail' = None /\ notice' = None /\ applied' = 0 /\ typed' = None /\ flow' = None
          /\ facts' = facts /\ version' = version
      BY <1>1 DEF Pane, server
    <2> QED BY <1>1, <1>2, <1>3, <2>1, <2>2, <2>3 DEF IInv, TypeOK
  <1>5. RoleIsRead(list') /\ (listing' \notin {None, Pending} => RoleIsRead(listing'))
    BY <1>1, NothingRead DEF IInv, Recent
  <1> QED BY <1>1, <1>4, <1>5, PaneIInv

\* A list that fails finds no pane, for one waits for it with nothing open.
LEMMA FailListIInv == ASSUME IInv, FailList PROVE IInv'
PROOF
  <1>1. /\ listing # None /\ list' = Nothing /\ listing' = None /\ error' = TRUE
        /\ loading' = FALSE
        /\ UNCHANGED <<facts, version, selected, fetch, detail, notice, applied, typed, flow,
                       posts, leaving, painted>>
    BY DEF FailList, server, pane
  <1>2. Open = None /\ Open' = None
    BY <1>1 DEF IInv, Loading, Open
  <1>3. fetch = None /\ detail = None
    BY <1>2 DEF IInv, PaneOfSelected
  <1>4. TypeOK' /\ Loading'
    BY <1>1, NothingRead DEF IInv, TypeOK, Loading
  <1>5. PaneOfSelected'
    BY <1>1, <1>2 DEF IInv, PaneOfSelected
  <1>6. Rereading' /\ NoticeIsTrue' /\ OneHeld' /\ Sound'
    BY <1>1, <1>3 DEF IInv, Rereading, NoticeIsTrue, OneHeld, Held, Sound, Grounded
  <1>7. Recent'
    BY <1>1, <1>3, NothingRead DEF Recent, RoleIsRead
  <1> QED BY <1>4, <1>5, <1>6, <1>7 DEF IInv

LEMMA AnswerListIInv == ASSUME IInv, AnswerList PROVE IInv'
PROOF
  <1> DEFINE answer == [p \in Projects |-> [role |-> facts[p].role, version |-> version[p]]]
  <1>1. /\ listing = Pending /\ listing' = answer
        /\ UNCHANGED <<facts, version, list, loading, error, selected, fetch, detail, notice,
                       applied, typed, flow, posts, leaving, painted>>
    BY DEF AnswerList, server, pane
  <1>2. answer \in [Projects -> [role : Roles, version : Nat]] /\ RoleIsRead(answer)
    BY DEF IInv, TypeOK, Facts, RoleIsRead
  <1> HIDE DEF answer
  <1>3. Open' = Open
    BY <1>1 DEF Open, Listed
  <1>4. TypeOK' /\ Loading'
    BY <1>1, <1>2, DetailAssumption DEF IInv, TypeOK, Loading
  <1>5. Recent'
    BY <1>1, <1>2, <1>3 DEF IInv, Recent, RoleIsRead, PanelsAreRead
  <1> QED
    BY <1>1, <1>3, <1>4, <1>5 DEF IInv, PaneOfSelected, Rereading, NoticeIsTrue, OneHeld, Held,
       Sound, Grounded

LEMMA RestIInv == ASSUME IInv, Logout \/ Render \/ UNCHANGED vars PROVE IInv'
PROOF
  <1>1. /\ UNCHANGED <<server, workspace, pane, posts>>
        /\ leaving' \in BOOLEAN /\ painted' \in [mutating : BOOLEAN, leaving : BOOLEAN]
    <2>1. (flow # None) \in BOOLEAN
      OBVIOUS
    <2>2. CASE Logout
      BY <2>2 DEF Logout, IInv, TypeOK
    <2>3. CASE Render
      BY <2>1, <2>3 DEF Render, IInv, TypeOK
    <2>4. CASE UNCHANGED vars
      BY <2>4 DEF vars, IInv, TypeOK
    <2> QED BY <2>2, <2>3, <2>4
  <1>2. Open' = Open
    BY <1>1 DEF workspace, Open, Listed
  <1> QED
    BY <1>1, <1>2 DEF server, workspace, pane, IInv, TypeOK, Loading, PaneOfSelected, Rereading,
       NoticeIsTrue, OneHeld, Held, Recent, RoleIsRead, PanelsAreRead, Sound, Grounded

-----------------------------------------------------------------------------
(***************************************************************************)
(* The panels                                                              *)
(***************************************************************************)
Answer(panel) ==
  [project |-> Open, version |-> version[Open],
   shows |-> IF panel = "access" THEN facts[Open].rule ELSE facts[Open].spare]

LEMMA AnswerType ==
  ASSUME TypeOK, NEW panel \in Panels, Open # None
  PROVE  /\ Answer(panel) \in Panel /\ Answer(panel).project = Open
         /\ Answer(panel).version = version[Open]
         /\ Answer(panel).shows = IF panel = "access" THEN facts[Open].rule ELSE facts[Open].spare
PROOF
  <1>1. Open \in Projects
    BY OpenType
  <1>2. version[Open] \in Nat /\ facts[Open].rule \in Rules /\ facts[Open].spare \in Spares
    BY <1>1 DEF TypeOK, Facts
  <1> QED BY <1>1, <1>2 DEF Answer, Panel

LEMMA RejectedType ==
  /\ Waiting \in Panel /\ Rejected \in Panel
  /\ Waiting.project = None /\ Rejected.project = None
  /\ Waiting.shows = "waiting" /\ Rejected.shows = "error"
  BY DEF Panel, Waiting, Rejected

LEMMA BringIInv ==
  ASSUME IInv, NEW panel \in Panels, AnswerPanel(panel) \/ FailPanel(panel)
  PROVE  IInv'
PROOF
  <1>1. /\ fetch # None
        /\ UNCHANGED <<facts, version, list, listing, loading, error, selected, detail, notice,
                       applied, typed, flow, posts, leaving, painted>>
    BY DEF AnswerPanel, FailPanel, server, workspace
  <1>2. Open' = Open /\ Open # None /\ Open \in Projects
    BY <1>1, OpenType DEF IInv, PaneOfSelected, Open, Listed
  <1>3. PICK e \in {Rejected, Answer(panel)} : fetch' = [fetch EXCEPT ![panel] = e]
    BY DEF AnswerPanel, FailPanel, Answer
  <1>4. /\ e \in Panel /\ e.project \in {None, Open}
        /\ e = Rejected \/ e.version = version[Open]
        /\ e.shows \in {"waiting", "error"} \/
             /\ e.version = version[Open]
             /\ e.shows = IF panel = "access" THEN facts[Open].rule ELSE facts[Open].spare
    BY <1>2, <1>3, AnswerType, RejectedType DEF IInv
  <1>5. fetch \in [Panels -> Panel] /\ fetch' \in [Panels -> Panel]
    BY <1>1, <1>3, <1>4 DEF IInv, TypeOK
  <1>6. /\ fetch'[panel] = e
        /\ \A other \in Panels : other # panel => fetch'[other] = fetch[other]
    BY <1>3, <1>5
  <1>7. TypeOK' /\ Loading'
    BY <1>1, <1>5 DEF IInv, TypeOK, Loading
  <1>8. PaneOfSelected'
    BY <1>1, <1>2, <1>4, <1>6 DEF IInv, PaneOfSelected
  <1>9. Rereading'
    <2>1. ASSUME flow # None
          PROVE  /\ 0 < applied /\ applied <= version[Open]
                 /\ \A other \in Panels :
                      fetch'[other] \in {Waiting, Rejected} \/ fetch'[other].version >= applied
      <3>1. 0 < applied /\ applied <= version[Open]
        BY <1>1, <2>1 DEF IInv, Rereading
      <3>2. e = Rejected \/ e.version >= applied
        BY <1>2, <1>4, <3>1 DEF IInv, TypeOK
      <3> QED BY <1>1, <1>6, <2>1, <3>1, <3>2 DEF IInv, Rereading
    <2> QED BY <1>1, <1>2, <2>1 DEF IInv, Rereading
  <1>10. NoticeIsTrue' /\ OneHeld' /\ Sound'
    BY <1>1 DEF IInv, NoticeIsTrue, OneHeld, Held, Sound, Grounded, Rereading, TypeOK
  <1>11. Recent'
    <2>1. PanelsAreRead(fetch)
      BY <1>1 DEF IInv, Recent
    <2>2. \A other \in Panels : fetch'[other].shows \notin {"waiting", "error"} =>
            /\ fetch'[other].version <= version[Open]
            /\ fetch'[other].version = version[Open] =>
                 fetch'[other].shows =
                   IF other = "access" THEN facts[Open].rule ELSE facts[Open].spare
      BY <1>2, <1>4, <1>6, <2>1 DEF PanelsAreRead, IInv, TypeOK
    <2> QED BY <1>1, <1>2, <2>2 DEF IInv, Recent, RoleIsRead, PanelsAreRead
  <1> QED BY <1>7, <1>8, <1>9, <1>10, <1>11 DEF IInv

\* What is shown after a mutation was all read after it.
LEMMA ShowDetailIInv == ASSUME IInv, ShowDetail PROVE IInv'
PROOF
  <1>1. /\ Settled /\ detail' = fetch /\ fetch' = None /\ flow' = None
        /\ typed' \in {None, typed}
        /\ notice' = IF flow = None THEN notice ELSE IF Partial THEN "partial" ELSE "done"
        /\ UNCHANGED <<facts, version, list, listing, loading, error, selected, applied, posts,
                       leaving, painted>>
    BY DEF ShowDetail, server, workspace
  <1>2. fetch # None /\ Open' = Open /\ Open # None /\ fetch \in [Panels -> Panel]
    BY <1>1 DEF Settled, IInv, PaneOfSelected, TypeOK, Open, Listed
  <1>3. notice' \in Notices \cup {None}
    BY <1>1 DEF IInv, TypeOK, Notices
  <1>4. TypeOK' /\ Loading'
    BY <1>1, <1>2, <1>3 DEF IInv, TypeOK, Loading
  <1>5. PaneOfSelected' /\ Rereading'
    BY <1>1, <1>2 DEF IInv, PaneOfSelected, Rereading
  <1>6. NoticeIsTrue'
    <2>1. CASE flow = None
      <3>1. notice' = None
        BY <1>1, <1>2, <2>1 DEF IInv, Rereading
      <3> QED BY <3>1, DetailAssumption DEF NoticeIsTrue, Notices
    <2>2. CASE flow # None
      <3>1. /\ 0 < applied
            /\ \A panel \in Panels : fetch[panel] = Rejected \/ fetch[panel].version >= applied
        BY <1>1, <1>2, <2>2 DEF IInv, Rereading, Settled
      <3>2. \A panel \in Panels : fetch[panel] = Rejected => notice' = "partial"
        BY <1>1, <2>2 DEF Partial
      <3> QED BY <1>1, <3>1, <3>2 DEF NoticeIsTrue
    <2> QED BY <2>1, <2>2
  <1>7. OneHeld' /\ Sound'
    BY <1>1, <1>2 DEF IInv, OneHeld, Held, Sound, Grounded
  <1>8. Recent'
    BY <1>1, <1>2 DEF IInv, Recent, RoleIsRead, PanelsAreRead
  <1> QED BY <1>4, <1>5, <1>6, <1>7, <1>8 DEF IInv

LEMMA TypedIInv == ASSUME IInv, Type \/ Dismiss PROVE IInv'
PROOF
  <1>1. /\ Open # None /\ typed' \in {selected, None}
        /\ UNCHANGED <<facts, version, list, listing, loading, error, selected, fetch, detail,
                       notice, applied, flow, posts, leaving, painted>>
    BY DEF Type, Dismiss, server, workspace
  <1>2. Open' = Open /\ Open = selected /\ Open \in Projects
    BY <1>1, OpenType DEF IInv, Open, Listed
  <1>3. TypeOK' /\ PaneOfSelected'
    BY <1>1, <1>2 DEF IInv, TypeOK, PaneOfSelected
  <1> QED
    BY <1>1, <1>2, <1>3 DEF IInv, Loading, Rereading, NoticeIsTrue, OneHeld, Held, Recent,
       RoleIsRead, PanelsAreRead, Sound, Grounded

-----------------------------------------------------------------------------
(***************************************************************************)
(* Mutations                                                               *)
(***************************************************************************)
\* What is offered was read from a panel and the list: the server would do it, if it has
\* not changed since.
LEMMA OfferIsGrounded ==
  ASSUME IInv, Open # None, NEW kind \in Kinds, Offered(kind)
  PROVE  /\ detail # None
         /\ Saw(kind) \in Nat /\ Saw(kind) <= version[Open]
         /\ Saw(kind) = version[Open] => Fits(facts[Open], kind)
PROOF
  <1> DEFINE panel == IF kind = "publish" THEN "deployments" ELSE "access"
             shown == detail[panel].shows
             read == detail[panel].version
  <1>1. Open = selected /\ Open \in Projects /\ list[Open].role # "none"
    BY OpenType DEF IInv, Open, Listed
  <1>2. detail # None
    BY DEF Offered, Eligible, Editable, Shows, Kinds
  <1>3. panel \in Panels /\ detail \in [Panels -> Panel]
    BY <1>2 DEF Panels, IInv, TypeOK
  <1>4. CASE kind = "publish"
    <2>1. /\ Role \in {"deployer", "owner"} /\ shown \in {"archived", "preview"}
      BY <1>2, <1>4 DEF Offered, Eligible, Shows
    <2> HIDE DEF panel
    <2>2. /\ read <= version[Open]
          /\ read = version[Open] => shown = IF panel = "access" THEN facts[Open].rule
                                                                ELSE facts[Open].spare
      BY <1>2, <1>3, <2>1 DEF IInv, Recent, PanelsAreRead
    <2>3. /\ list[Open].version <= version[Open]
          /\ list[Open].version = version[Open] => list[Open].role = facts[Open].role
      BY <1>1 DEF IInv, Recent, RoleIsRead
    <2>4. read \in Nat /\ list[Open].version \in Nat /\ version[Open] \in Nat
      BY <1>1, <1>3 DEF IInv, TypeOK, Panel, Waiting, Rejected
    <2>5. Saw(kind) = IF read < list[Open].version THEN read ELSE list[Open].version
      BY <1>1 DEF Saw, panel
    <2>6. Saw(kind) \in Nat /\ Saw(kind) <= version[Open]
      BY <2>2, <2>3, <2>4, <2>5
    <2>7. Saw(kind) = version[Open] => read = version[Open] /\ list[Open].version = version[Open]
      BY <2>2, <2>3, <2>4, <2>5
    <2>8. Saw(kind) = version[Open] => Fits(facts[Open], kind)
      BY <1>1, <1>4, <2>1, <2>2, <2>3, <2>7 DEF Fits, Allowed, Role, panel
    <2> QED BY <1>2, <1>4, <2>6, <2>8
  <1>5. CASE kind \in {"save", "delete"}
    <2>1. /\ Role = "owner" /\ shown \in {"none", "plain", "wecom"}
          /\ kind = "save" => shown \in {"none", "plain"}
          /\ kind = "delete" => shown \in {"plain", "wecom"}
      BY <1>2, <1>5 DEF Offered, Editable, Shows
    <2> HIDE DEF panel
    <2>2. /\ read <= version[Open]
          /\ read = version[Open] => shown = IF panel = "access" THEN facts[Open].rule
                                                                ELSE facts[Open].spare
      BY <1>2, <1>3, <2>1 DEF IInv, Recent, PanelsAreRead
    <2>3. /\ list[Open].version <= version[Open]
          /\ list[Open].version = version[Open] => list[Open].role = facts[Open].role
      BY <1>1 DEF IInv, Recent, RoleIsRead
    <2>4. read \in Nat /\ list[Open].version \in Nat /\ version[Open] \in Nat
      BY <1>1, <1>3 DEF IInv, TypeOK, Panel, Waiting, Rejected
    <2>5. Saw(kind) = IF read < list[Open].version THEN read ELSE list[Open].version
      BY <1>1 DEF Saw, panel
    <2>6. Saw(kind) \in Nat /\ Saw(kind) <= version[Open]
      BY <2>2, <2>3, <2>4, <2>5
    <2>7. Saw(kind) = version[Open] => read = version[Open] /\ list[Open].version = version[Open]
      BY <2>2, <2>3, <2>4, <2>5
    <2>8. Saw(kind) = version[Open] => facts[Open].role = "owner" /\ facts[Open].rule = shown
      BY <1>1, <1>5, <2>1, <2>2, <2>3, <2>7 DEF Role, panel
    <2>9. Saw(kind) = version[Open] => Fits(facts[Open], kind)
      BY <1>5, <2>1, <2>8 DEF Fits, Allowed
    <2> QED BY <1>2, <2>6, <2>9
  <1> QED BY <1>4, <1>5 DEF Kinds

LEMMA SubmitIInv == ASSUME IInv, NEW kind \in Kinds, Submit(kind) PROVE IInv'
PROOF
  <1> DEFINE new == [project |-> selected, kind |-> kind, saw |-> Saw(kind),
                     held |-> TRUE, state |-> "sent", made |-> 0]
  <1>1. /\ Open # None /\ Offered(kind) /\ flow = None /\ flow' = kind /\ notice' = None
        /\ posts' = posts \cup {new}
        /\ UNCHANGED <<facts, version, list, listing, loading, error, selected, fetch, detail,
                       applied, typed, leaving, painted>>
    BY DEF Submit, Unlocked, server, workspace
  <1>2. Open' = Open /\ Open = selected /\ Open \in Projects
    BY <1>1, OpenType DEF IInv, Open, Listed
  <1>3. new \in Post
    BY <1>1, <1>2, OfferIsGrounded DEF Post
  <1>4. /\ new.held = TRUE /\ new.project = Open /\ new.kind = kind /\ new.state = "sent"
        /\ new.saw = Saw(kind)
    BY <1>2
  <1>5. Grounded(new)
    BY <1>1, <1>4, OfferIsGrounded DEF Grounded
  <1> HIDE DEF new
  <1>6. fetch = None /\ \A m \in posts : m.held = FALSE
    <2>1. detail # None
      BY <1>1, OfferIsGrounded
    <2>2. fetch = None
      BY <1>1, <2>1 DEF IInv, Rereading
    <2>3. \A m \in posts : m.kind # None /\ m.held \in BOOLEAN
      BY DetailAssumption DEF IInv, TypeOK, Post
    <2>4. \A m \in posts : m.held # TRUE
      BY <1>1, <2>3 DEF IInv, OneHeld, Held
    <2> QED BY <2>2, <2>3, <2>4
  <1>7. TypeOK' /\ Loading'
    BY <1>1, <1>3 DEF IInv, TypeOK, Loading
  <1>8. PaneOfSelected'
    BY <1>1, <1>2, <1>4, <1>6 DEF IInv, PaneOfSelected
  <1>9. Rereading' /\ NoticeIsTrue'
    BY <1>1, <1>6, DetailAssumption DEF IInv, Rereading, NoticeIsTrue, Notices
  <1>10. OneHeld'
    BY <1>1, <1>4, <1>6 DEF IInv, OneHeld, Held
  <1>11. Recent' /\ Sound'
    BY <1>1, <1>2, <1>5, <1>6 DEF IInv, Recent, RoleIsRead, PanelsAreRead, Sound, Grounded
  <1> QED BY <1>7, <1>8, <1>9, <1>10, <1>11 DEF IInv

LEMMA EndPostIInv == ASSUME IInv, NEW m \in posts, EndPost(m) PROVE IInv'
PROOF
  <1>1. /\ m.held /\ m.state # "sent" /\ posts' = posts \ {m}
        /\ UNCHANGED <<facts, version, list, listing, loading, error, selected, detail, leaving,
                       painted>>
    BY DEF EndPost, server, workspace
  <1>2. m \in Post /\ m.held = TRUE
    BY <1>1 DEF IInv, TypeOK, Post
  <1>3. /\ Open' = Open /\ Open = m.project /\ Open # None /\ flow = m.kind /\ flow # None
        /\ fetch = None /\ notice = None
    BY <1>1, <1>2, DetailAssumption DEF IInv, PaneOfSelected, OneHeld, Held, Rereading, Post,
       Open, Listed
  <1>4. \A n \in posts' : n \in posts /\ n.held # TRUE
    BY <1>1, <1>2 DEF IInv, OneHeld, Held
  <1>5. OneHeld' /\ Sound' /\ Loading'
    BY <1>1, <1>4 DEF IInv, OneHeld, Held, Sound, Grounded, Loading
  <1>6. \A n \in posts' : ~ n.held
    BY <1>4 DEF IInv, TypeOK, Post
  <1>7. CASE m.state = "done"
    <2>1. /\ fetch' = NewFetch /\ applied' = m.made /\ 0 < m.made /\ m.made <= version[Open]
          /\ UNCHANGED <<notice, typed, flow>>
      BY <1>1, <1>3, <1>7 DEF EndPost, IInv, OneHeld
    <2>2. NewFetch \in [Panels -> Panel] /\ m.made \in Nat
      BY <1>2, RejectedType DEF NewFetch, Post
    <2>3. TypeOK'
      BY <1>1, <2>1, <2>2 DEF IInv, TypeOK
    <2>4. PaneOfSelected'
      BY <1>1, <1>3, <1>6, <2>1, RejectedType DEF IInv, PaneOfSelected, NewFetch
    <2>5. Rereading' /\ NoticeIsTrue'
      BY <1>1, <1>3, <2>1, DetailAssumption DEF Rereading, NoticeIsTrue, NewFetch, Notices
    <2>6. Recent'
      BY <1>1, <1>3, <2>1, RejectedType DEF IInv, Recent, RoleIsRead, PanelsAreRead, NewFetch
    <2> QED BY <1>5, <2>3, <2>4, <2>5, <2>6 DEF IInv
  <1>8. CASE m.state # "done"
    <2>1. notice' = "failed" /\ flow' = None /\ typed' \in {None, typed}
          /\ UNCHANGED <<fetch, applied>>
      BY <1>8 DEF EndPost
    <2>2. TypeOK' /\ PaneOfSelected'
      BY <1>1, <1>3, <1>6, <2>1 DEF IInv, TypeOK, PaneOfSelected, Notices
    <2>3. Rereading' /\ NoticeIsTrue'
      BY <1>3, <2>1 DEF Rereading, NoticeIsTrue
    <2>4. Recent'
      BY <1>1, <1>3, <2>1 DEF IInv, Recent, RoleIsRead, PanelsAreRead
    <2> QED BY <1>5, <2>2, <2>3, <2>4 DEF IInv
  <1> QED BY <1>7, <1>8

-----------------------------------------------------------------------------
(***************************************************************************)
(* The server                                                              *)
(***************************************************************************)
\* A project's data stays as it is, or it is a new version.
Advances ==
  \A p \in Projects :
    version'[p] > version[p] \/ (version'[p] = version[p] /\ facts'[p] = facts[p])

\* One mutation is answered: whoever waits for it keeps waiting for the answer.
Answered(m, r) ==
  /\ posts' = (posts \ {m}) \cup (IF m.held THEN {r} ELSE {})
  /\ r \in Post /\ r.held = m.held /\ r.project = m.project /\ r.kind = m.kind
  /\ r.state # "sent"
  /\ r.state = "done" => 0 < r.made /\ r.made <= version'[r.project]

LEMMA ServerIInv ==
  ASSUME IInv, Advances, UNCHANGED <<workspace, pane, leaving, painted>>,
         facts' \in [Projects -> Facts], version' \in [Projects -> Nat],
         posts' = posts \/ \E m \in posts, r \in Post : Answered(m, r)
  PROVE  IInv'
PROOF
  <1>1. UNCHANGED <<list, listing, loading, error, selected, fetch, detail, notice, applied,
                    typed, flow, leaving, painted>>
    BY DEF workspace, pane
  <1>2. Open' = Open
    BY <1>1 DEF Open, Listed
  <1>3. /\ posts' \subseteq Post
        /\ \A n \in posts' : n \in posts \/ (n.state # "sent" /\ n.held = TRUE)
    BY DEF Answered, IInv, TypeOK, Post
  <1>4. TypeOK' /\ Loading'
    BY <1>1, <1>3 DEF IInv, TypeOK, Loading
  <1>5. \A p \in Projects : version[p] <= version'[p]
    BY DEF Advances, IInv, TypeOK
  <1>6. Held' = Held \/ \E m \in Held, r \in Post : Answered(m, r) /\ Held' = {r}
    <2>1. CASE posts' = posts
      BY <2>1 DEF Held
    <2>2. ASSUME NEW m \in posts, NEW r \in Post, Answered(m, r), m.held = TRUE
          PROVE  Held' = {r}
      BY <2>2 DEF Answered, Held, IInv, OneHeld
    <2>3. ASSUME NEW m \in posts, NEW r \in Post, Answered(m, r), m.held # TRUE
          PROVE  Held' = Held
      <3>1. ~ m.held
        BY <2>3 DEF IInv, TypeOK, Post
      <3> QED BY <2>3, <3>1 DEF Answered, Held
    <2> QED BY <2>1, <2>2, <2>3 DEF Held
  <1>7. \A n \in Held' : n.project = Open /\ n.kind = flow /\ fetch = None
    <2>1. \A m \in Held : m.project = Open /\ m.kind = flow /\ fetch = None
      BY DEF IInv, OneHeld, PaneOfSelected, Held
    <2> QED BY <1>6, <2>1 DEF Answered
  <1>8. PaneOfSelected'
    <2>1. \A n \in posts' : n.held => n \in Held'
      BY <1>3 DEF Held, Post
    <2> QED BY <1>1, <1>2, <1>7, <2>1 DEF IInv, PaneOfSelected
  <1>9. OneHeld'
    <2>1. \A m, n \in Held' : m = n
      BY <1>6 DEF IInv, OneHeld
    <2>2. \A n \in posts' : n.held = FALSE => n.state = "sent"
      BY <1>3 DEF IInv, OneHeld
    <2>3. \A n \in posts' : n.state = "done" => 0 < n.made /\ n.made <= version'[n.project]
      <3>1. \A n \in posts : n.state = "done" => 0 < n.made /\ n.made <= version'[n.project]
        BY <1>5 DEF IInv, OneHeld, TypeOK, Post
      <3> QED BY <3>1 DEF Answered
    <2> QED BY <1>1, <1>7, <2>1, <2>2, <2>3 DEF OneHeld
  <1>10. Rereading' /\ NoticeIsTrue'
    <2>1. fetch # None => version[Open] <= version'[Open] /\ version[Open] \in Nat
                          /\ version'[Open] \in Nat
      BY <1>5, OpenType DEF IInv, PaneOfSelected, TypeOK
    <2>2. NoticeIsTrue'
      BY <1>1 DEF IInv, NoticeIsTrue
    <2>3. flow # None /\ fetch # None => 0 < applied /\ applied <= version'[Open]
      BY <2>1 DEF IInv, Rereading, TypeOK
    <2> QED BY <1>1, <1>2, <2>2, <2>3 DEF IInv, Rereading
  <1>11. Recent'
    <2>1. ASSUME NEW roles \in [Projects -> [role : Roles, version : Nat]], RoleIsRead(roles)
          PROVE  \A p \in Projects : roles[p].role # "none" =>
                   /\ roles[p].version <= version'[p]
                   /\ roles[p].version = version'[p] => roles[p].role = facts'[p].role
      BY <2>1 DEF RoleIsRead, Advances, IInv, TypeOK
    <2>2. ASSUME Open \in Projects, NEW panels \in [Panels -> Panel], PanelsAreRead(panels)
          PROVE  \A panel \in Panels : panels[panel].shows \notin {"waiting", "error"} =>
                   /\ panels[panel].version <= version'[Open]
                   /\ panels[panel].version = version'[Open] => panels[panel].shows =
                        IF panel = "access" THEN facts'[Open].rule ELSE facts'[Open].spare
      <3>1. \A panel \in Panels : panels[panel].version \in Nat
        BY <2>2 DEF Panel, Waiting, Rejected
      <3>2. /\ version[Open] \in Nat /\ version'[Open] \in Nat
            /\ \/ version'[Open] > version[Open]
               \/ version'[Open] = version[Open] /\ facts'[Open] = facts[Open]
        BY <2>2 DEF Advances, IInv, TypeOK
      <3> QED BY <2>2, <3>1, <3>2 DEF PanelsAreRead
    <2>3. fetch # None \/ detail # None => Open \in Projects
      BY OpenType DEF IInv, PaneOfSelected
    <2> QED BY <1>1, <1>2, <2>1, <2>2, <2>3 DEF IInv, TypeOK, Recent, RoleIsRead, PanelsAreRead
  <1>12. Sound'
    <2>1. ASSUME NEW n \in posts PROVE Grounded(n)'
      <3>1. n \in Post /\ Grounded(n)
        BY DEF IInv, TypeOK, Sound
      <3> QED BY <3>1 DEF Grounded, Advances, IInv, TypeOK, Post
    <2>2. ASSUME NEW n \in posts', n \notin posts PROVE Grounded(n)'
      BY <1>3, <2>2 DEF Grounded
    <2> QED BY <2>1, <2>2 DEF Sound, Grounded
  <1> QED BY <1>4, <1>8, <1>9, <1>10, <1>11, <1>12 DEF IInv

LEMMA ChangeAdvances ==
  ASSUME TypeOK, NEW p \in Projects, NEW f \in Facts, Change(p, f)
  PROVE  /\ Advances /\ facts' \in [Projects -> Facts] /\ version' \in [Projects -> Nat]
         /\ version'[p] = version[p] + 1
  BY DEF TypeOK, Change, Advances

LEMMA AfterType == ASSUME NEW f \in Facts, NEW kind \in Kinds PROVE After(f, kind) \in Facts
  BY DEF Facts, Rules, Spares, Kinds, After

LEMMA BecomesAnswered ==
  ASSUME TypeOK, NEW m \in posts, NEW state \in {"done", "refused", "failed", "lost"},
         NEW made \in Nat,
         Becomes(m, state, made), state = "done" => 0 < made /\ made <= version'[m.project]
  PROVE  \E r \in Post : Answered(m, r)
PROOF
  <1> DEFINE r == [m EXCEPT !.state = state, !.made = made]
  <1>1. /\ r \in Post /\ r.held = m.held /\ r.project = m.project /\ r.kind = m.kind
        /\ r.state = state /\ r.made = made
    BY DEF TypeOK, Post
  <1>2. posts' = (posts \ {m}) \cup (IF m.held THEN {r} ELSE {})
    BY DEF Becomes
  <1> HIDE DEF r
  <1> QED BY <1>1, <1>2 DEF Answered

LEMMA ChangingIInv ==
  ASSUME IInv,
         \/ \E p \in Projects : Elsewhere(p)
         \/ \E m \in posts : Execute(m) \/ Refuse(m) \/ Fail(m) \/ Lose(m)
  PROVE  IInv'
PROOF
  <1>1. ASSUME NEW p \in Projects, Elsewhere(p) PROVE IInv'
    <2>1. PICK f \in Elsewheres : Change(p, f)
      BY <1>1 DEF Elsewhere
    <2>2. UNCHANGED <<workspace, pane, posts, leaving, painted>>
      BY <1>1 DEF Elsewhere
    <2> QED BY <2>1, <2>2, DetailAssumption, ChangeAdvances, ServerIInv DEF IInv
  <1>2. ASSUME NEW m \in posts, Execute(m) \/ Refuse(m) \/ Fail(m) \/ Lose(m) PROVE IInv'
    <2> DEFINE p == m.project  f == facts[p]
    <2>1. /\ p \in Projects /\ m.kind \in Kinds /\ f \in Facts /\ version[p] \in Nat
          /\ m.saw \in Nat
      BY DEF IInv, TypeOK, Post
    <2> HIDE DEF p, f
    <2>2. UNCHANGED <<workspace, pane, leaving, painted>>
      BY <1>2 DEF Execute, Refuse, Fail, Lose
    <2>3. /\ Advances /\ facts' \in [Projects -> Facts] /\ version' \in [Projects -> Nat]
          /\ UNCHANGED server \/ version'[p] = version[p] + 1
      <3>1. CASE UNCHANGED server
        BY <3>1 DEF server, Advances, IInv, TypeOK
      <3>2. ASSUME NEW new \in Facts, Change(p, new)
            PROVE  /\ Advances /\ facts' \in [Projects -> Facts]
                   /\ version' \in [Projects -> Nat] /\ version'[p] = version[p] + 1
        BY <2>1, <3>2, ChangeAdvances DEF IInv
      <3>3. After(f, m.kind) \in Facts /\ [f EXCEPT !.spare = "collected"] \in Facts
        BY <2>1, AfterType DEF Facts, Spares
      <3>4. \/ UNCHANGED server
            \/ Change(p, After(f, m.kind)) \/ Change(p, [f EXCEPT !.spare = "collected"])
        BY <1>2 DEF Execute, Refuse, Fail, Lose, p, f
      <3> QED BY <3>1, <3>2, <3>3, <3>4
    <2>4. CASE Execute(m)
      <3>1. \E made \in Nat :
              0 < made /\ made <= version'[p] /\ Becomes(m, "done", made)
        <4>1. CASE m.kind = "delete" /\ f.rule = "none"
          <5>1. m.saw < version[p]
            BY <2>1, <2>4, <4>1 DEF Execute, IInv, Sound, Grounded, Fits, p, f
          <5>2. Becomes(m, "done", version[p]) /\ version' = version
            BY <2>4, <4>1 DEF Execute, server, p, f
          <5> QED BY <2>1, <5>1, <5>2
        <4>2. CASE ~ (m.kind = "delete" /\ f.rule = "none")
          <5>1. /\ Becomes(m, "done", version[p] + 1)
                /\ Change(p, After(f, m.kind))
            BY <2>4, <4>2 DEF Execute, p, f
          <5>2. version'[p] = version[p] + 1
            BY <2>1, <5>1, AfterType, ChangeAdvances DEF IInv
          <5> QED BY <2>1, <5>1, <5>2
        <4> QED BY <4>1, <4>2
      <3>2. \E r \in Post : Answered(m, r)
        BY <3>1, BecomesAnswered DEF IInv, p
      <3> QED BY <2>2, <2>3, <3>2, ServerIInv
    <2>5. CASE Refuse(m) \/ Fail(m) \/ Lose(m)
      <3>1. PICK state \in {"refused", "failed", "lost"} : Becomes(m, state, 0)
        BY <2>5 DEF Refuse, Fail, Lose
      <3>2. 0 \in Nat /\ state # "done" /\ state \in {"done", "refused", "failed", "lost"}
        OBVIOUS
      <3>3. \E r \in Post : Answered(m, r)
        BY <3>1, <3>2, BecomesAnswered DEF IInv
      <3> QED BY <2>2, <2>3, <3>3, ServerIInv
    <2> QED BY <1>2, <2>4, <2>5
  <1> QED BY <1>1, <1>2

-----------------------------------------------------------------------------
LEMMA NextIInv == IInv /\ [Next]_vars => IInv'
PROOF
  <1> SUFFICES ASSUME IInv, [Next]_vars PROVE IInv'
    OBVIOUS
  <1>1. CASE Navigating
    BY <1>1, NavigatingIInv
  <1>2. CASE AnswerList \/ FailList \/ Logout \/ Render \/ UNCHANGED vars
    BY <1>2, AnswerListIInv, FailListIInv, RestIInv
  <1>3. CASE ShowDetail \/ Type \/ Dismiss
    BY <1>3, ShowDetailIInv, TypedIInv
  <1>4. CASE \E panel \in Panels : AnswerPanel(panel) \/ FailPanel(panel)
    BY <1>4, BringIInv
  <1>5. CASE \E kind \in Kinds : Submit(kind)
    BY <1>5, SubmitIInv
  <1>6. CASE \E m \in posts : EndPost(m)
    BY <1>6, EndPostIInv
  <1>7. CASE \/ \E p \in Projects : Elsewhere(p)
             \/ \E m \in posts : Execute(m) \/ Refuse(m) \/ Fail(m) \/ Lose(m)
    BY <1>7, ChangingIInv
  <1> QED BY <1>1, <1>2, <1>3, <1>4, <1>5, <1>6, <1>7 DEF Next, Navigating

\* The strengthening is an invariant: every step of the console, of the server and of
\* other people keeps it.
THEOREM Inductive == Spec => []IInv
  BY InitIInv, NextIInv, PTL DEF Spec

\* Everything in the pane is of the selected project, whatever is switched, refreshed or
\* answered late: this is what the key of the pane is for (Workspace).
THEOREM PaneBelongsToSelected == Spec => []PaneOfSelected
  BY Inductive, PTL DEF IInv

\* A notice of success is about an executed mutation, and the panels beneath it were read
\* after it (ProjectDetail, mutate and fetchDetail).
THEOREM NoticesAreTrue == Spec => []NoticeIsTrue
  BY Inductive, PTL DEF IInv

\* The pane never waits for two mutations, nor for one while it reads (ProjectDetail, the
\* lock of mutate).
THEOREM OneMutationAtATime == Spec => []OneMutation
PROOF
  <1>1. IInv => OneMutation
    <2> SUFFICES ASSUME IInv PROVE OneMutation
      OBVIOUS
    <2>1. {m \in posts : m.held} = Held
      BY DEF Held, IInv, TypeOK, Post
    <2>2. Held = {} \/ \E m \in Held : Held = {m}
      BY DEF IInv, OneHeld
    <2>3. Cardinality(Held) <= 1
      <3>1. CASE Held = {}
        BY <3>1, FS_EmptySet
      <3>2. CASE \E m \in Held : Held = {m}
        <4> PICK m \in Held : Held = {m}
          BY <3>2
        <4>1. Cardinality({m}) = 1
          BY FS_Singleton
        <4> QED BY <4>1
      <3> QED BY <2>2, <3>1, <3>2
    <2>4. \A m \in posts : m.held => m \in Held
      BY DEF Held, IInv, TypeOK, Post
    <2> QED BY <2>1, <2>3, <2>4 DEF OneMutation, IInv, OneHeld
  <1> QED BY <1>1, Inductive, PTL

\* A refused mutation is new in a step only if the server refuses it in that step.
LEMMA RefusedOnlyByRefuse ==
  ASSUME IInv, Next, NEW m \in posts, m.state = "sent",
         [m EXCEPT !.state = "refused"] \in posts'
  PROVE  Refuse(m)
PROOF
  <1> DEFINE x == [m EXCEPT !.state = "refused"]
  <1>1. m \in Post /\ x.state = "refused" /\ x.held = m.held
    BY DEF IInv, TypeOK, Post
  <1> HIDE DEF x
  <1>2. x \in posts'
    BY DEF x
  <1>3. ASSUME NEW n \in posts, n.held = m.held, n.held = FALSE \/ n # m, n.state # "sent"
        PROVE  FALSE
    BY <1>1, <1>3 DEF IInv, OneHeld, Held, TypeOK, Post
  <1>4. x \notin posts
    BY <1>1, <1>3
  <1>5. \A n \in Abandoned : n.state # "refused"
    BY AbandonedPosts DEF IInv
  <1>6. posts' # posts /\ posts' # Abandoned
    BY <1>1, <1>2, <1>4, <1>5
  <1>7. ASSUME NEW n \in posts, NEW state \in {"done", "refused", "failed", "lost"},
               NEW made \in Nat, Becomes(n, state, made)
        PROVE  state = "refused" /\ n = m
    <2> DEFINE r == [n EXCEPT !.state = state, !.made = made]
    <2>1. n \in Post /\ r.state = state /\ r.held = n.held
      BY DEF IInv, TypeOK, Post
    <2>2. posts' = (posts \ {n}) \cup (IF n.held THEN {r} ELSE {})
      BY <1>7 DEF Becomes
    <2> HIDE DEF r
    <2>3. x = r /\ n.held
      BY <1>2, <1>4, <2>2
    <2>4. n \in Held /\ m \in Held
      BY <1>1, <2>1, <2>3 DEF Held, Post
    <2> QED BY <1>1, <2>1, <2>3, <2>4 DEF IInv, OneHeld
  <1>8. ASSUME NEW n \in posts, EndPost(n) PROVE FALSE
    BY <1>2, <1>4, <1>8 DEF EndPost
  <1>9. ASSUME NEW kind \in Kinds, Submit(kind) PROVE FALSE
    BY <1>1, <1>2, <1>4, <1>9 DEF Submit
  <1>10. \E n \in posts : Refuse(n)
    <2>1. ASSUME NEW n \in posts, Execute(n) \/ Fail(n) \/ Lose(n) PROVE FALSE
      <3>1. version[n.project] \in Nat /\ version[n.project] + 1 \in Nat
        BY DEF IInv, TypeOK, Post
      <3>2. \E state \in {"done", "failed", "lost"}, made \in Nat : Becomes(n, state, made)
        BY <2>1, <3>1 DEF Execute, Fail, Lose
      <3> QED BY <1>7, <3>2
    <2> QED
      BY <1>6, <1>8, <1>9, <2>1 DEF Next, Refresh, AnswerList, ShowList, FailList, Logout,
         FailLogout, EndSession, Render, ShowDetail, Type, Dismiss, Select, Elsewhere,
         AnswerPanel, FailPanel, Pane, pane
  <1> QED BY <1>7, <1>10 DEF Refuse

\* What the pane offers fits the project, unless that has changed since the pane read it
\* (ProjectDetail, what it offers for a role, a rule and a deployment, against the
\* decisions of the server's handlers on them).
THEOREM OffersAreKept == Spec => OffersAreSound
PROOF
  <1> DEFINE Kept ==
        \A m \in posts : m.state = "sent" /\ m.saw = version[m.project] =>
          /\ [m EXCEPT !.state = "refused"] \notin posts'
          /\ m.kind = "save" => facts[m.project].rule # "wecom"
          /\ m.kind = "delete" => facts[m.project].rule # "none"
  <1>1. IInv /\ Next => Kept
    <2> SUFFICES ASSUME IInv, Next, NEW m \in posts, m.state = "sent", m.saw = version[m.project]
                 PROVE  /\ [m EXCEPT !.state = "refused"] \notin posts'
                        /\ m.kind = "save" => facts[m.project].rule # "wecom"
                        /\ m.kind = "delete" => facts[m.project].rule # "none"
      OBVIOUS
    <2>1. Fits(facts[m.project], m.kind)
      BY DEF IInv, Sound, Grounded
    <2>2. ~ Refuse(m)
      BY <2>1 DEF Fits, Refuse
    <2> QED BY <2>1, <2>2, RefusedOnlyByRefuse DEF Fits
  <1>2. IInv /\ [Next]_vars => [Kept]_vars
    BY <1>1
  <1> QED BY <1>2, Inductive, PTL DEF Spec, OffersAreSound
=============================================================================
