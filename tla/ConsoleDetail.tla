---------------------------- MODULE ConsoleDetail ----------------------------
(***************************************************************************)
(* The console's workspace under one session: the project list, the detail *)
(* pane of the selected project with its panels, and the mutations sent    *)
(* from it, while other people change the same projects.                   *)
(*                                                                         *)
(* The pane is keyed by project and refresh: whatever unmounts it aborts   *)
(* its requests and discards its state.  An aborted read is gone; an       *)
(* aborted mutation may still be executed.  Buttons are disabled when the  *)
(* page is rendered, which is after the state changed; the locks of the    *)
(* pane and of the logout button are set at once.                          *)
(*                                                                         *)
(* The server's data on a project is versioned: every change makes a new   *)
(* version, and what the console has read is known by its version.         *)
(***************************************************************************)
EXTENDS Integers, FiniteSets

CONSTANTS
  Projects,     \* projects of the server
  None,         \* no project, no value
  Pending,      \* a list request without an answer
  Elsewheres,   \* bound: what other people may turn a project into
  MaxVersion,   \* bound: MaxVersion[p] is the last version of p
  MaxPosts      \* bound: mutations in flight, abandoned ones included

Roles == {"none", "viewer", "deployer", "owner"}
Rules == {"none", "plain", "wecom"}
\* A deployment besides the current production: none, a retained former production, a
\* retained preview, or one whose artifact is gone.
Spares == {"none", "archived", "preview", "collected"}
Facts == [role : Roles, rule : Rules, spare : Spares]

\* Two of the five panels; domains, statistics and audit are read and shown like
\* the deployments, and offer nothing.
Panels == {"deployments", "access"}
Kinds == {"publish", "save", "delete"}
Notices == {"failed", "partial", "done"}

\* None is not a value that a variable has when there is something.
ASSUME DetailAssumption ==
  /\ MaxVersion \in [Projects -> Nat] /\ MaxPosts \in Nat
  /\ Elsewheres \subseteq Facts
  /\ None \notin Projects \cup Kinds \cup Notices /\ Pending # None

VARIABLES
  facts,      \* facts[p]: the server's data on p, the role of this user included
  version,    \* version[p]: its version
  list,       \* list[p]: the role and version with which p was listed
  listing,    \* the list request: None, Pending, or the list it brings
  loading,    \* the workspace waits for the list
  error,      \* the workspace shows an error instead of a pane
  selected,   \* the selected project
  fetch,      \* the panel requests of the pane: None or what each has brought so far
  detail,     \* the panels shown: None before the first fetch is complete
  notice,     \* None, "failed", "partial" or "done"
  applied,    \* the version the mutation made that a "done" or "partial" is about
  typed,      \* the project for which a password is in the form
  flow,       \* the mutation the pane works on: None or its kind
  posts,      \* mutation requests in flight
  leaving,    \* a logout is in flight
  painted     \* the busy flags as last rendered

server == <<facts, version>>
workspace == <<list, listing, loading, error, selected>>
pane == <<fetch, detail, notice, applied, typed, flow>>
vars == <<server, workspace, pane, posts, leaving, painted>>

Nothing == [p \in Projects |-> [role |-> "none", version |-> 0]]
\* What a panel shows: an error, or data of a project.
Waiting == [project |-> None, version |-> 0, shows |-> "waiting"]
Rejected == [project |-> None, version |-> 0, shows |-> "error"]
Panel == {Waiting, Rejected} \cup
         [project : Projects, version : Nat, shows : Rules \cup Spares]
Post == [project : Projects, kind : Kinds, saw : Nat, held : BOOLEAN,
         state : {"sent", "done", "refused", "failed", "lost"}, made : Nat]
Quiet == [mutating |-> FALSE, leaving |-> FALSE]

Init ==
  /\ facts = [p \in Projects |-> [role |-> "owner", rule |-> "plain", spare |-> "preview"]]
  /\ version = [p \in Projects |-> 0]
  /\ list = Nothing /\ listing = Pending /\ loading = TRUE /\ error = FALSE
  /\ selected = None /\ fetch = None /\ detail = None /\ notice = None /\ applied = 0
  /\ typed = None /\ flow = None /\ posts = {} /\ leaving = FALSE /\ painted = Quiet

-----------------------------------------------------------------------------
(***************************************************************************)
(* The workspace                                                           *)
(***************************************************************************)
\* The pane's request is aborted; the server may not have seen it yet.
Abandoned == {[m EXCEPT !.held = FALSE] : m \in {n \in posts : n.state = "sent"}}

\* Fault: the pane is not keyed, its state outlives the change of its project.
PaneKept(p) ==
  /\ fetch' = IF p = None THEN None ELSE [panel \in Panels |-> Waiting]
  /\ flow' = None
  /\ posts' = Abandoned
  /\ UNCHANGED <<detail, notice, applied, typed>>

\* Another pane takes the place of the current one: that of p, or none.
Pane(p) ==
  /\ fetch' = IF p = None THEN None ELSE [panel \in Panels |-> Waiting]
  /\ detail' = None /\ notice' = None /\ applied' = 0 /\ typed' = None /\ flow' = None
  /\ posts' = Abandoned

Listed(p) == p # None /\ list[p].role # "none"
\* The project whose pane is mounted.
Open == IF ~ loading /\ ~ error /\ selected # None /\ Listed(selected)
        THEN selected ELSE None

\* Refresh, or the button that tries again after an error, which nothing disables.
Refresh ==
  /\ painted = Quiet \/ (error /\ ~ loading)
  /\ loading' = TRUE /\ error' = FALSE /\ listing' = Pending
  /\ Pane(None)
  /\ UNCHANGED <<server, list, selected, leaving, painted>>

\* GET /projects, at the server.
AnswerList ==
  /\ listing = Pending
  /\ listing' = [p \in Projects |-> [role |-> facts[p].role, version |-> version[p]]]
  /\ UNCHANGED <<server, list, loading, error, selected, pane, posts, leaving, painted>>

\* The list arrives.  An error shown meanwhile, that of a failed logout, stays.
ShowList ==
  /\ listing \notin {None, Pending}
  /\ list' = listing /\ listing' = None /\ loading' = FALSE
  /\ Pane(IF ~ error /\ selected # None /\ listing[selected].role # "none"
          THEN selected ELSE None)
  /\ UNCHANGED <<server, error, selected, leaving, painted>>

FailList ==
  /\ listing # None
  /\ list' = Nothing /\ listing' = None /\ loading' = FALSE /\ error' = TRUE
  /\ UNCHANGED <<server, selected, pane, posts, leaving, painted>>

Select(p) ==
  /\ ~ loading /\ ~ error /\ Listed(p) /\ painted = Quiet
  /\ p # selected
  /\ selected' = p
  /\ Pane(p)
  /\ UNCHANGED <<server, list, listing, loading, error, leaving, painted>>

Logout ==
  /\ ~ leaving /\ ~ painted.mutating
  /\ leaving' = TRUE
  /\ UNCHANGED <<server, workspace, pane, posts, painted>>

\* The error takes the place of the pane.
FailLogout ==
  /\ leaving
  /\ leaving' = FALSE /\ error' = TRUE
  /\ Pane(None)
  /\ UNCHANGED <<server, list, listing, loading, selected, painted>>

\* The workspace is unmounted; the next session begins with a new one.
EndSession ==
  /\ leaving
  /\ leaving' = FALSE /\ painted' = Quiet
  /\ list' = Nothing /\ listing' = Pending /\ loading' = TRUE /\ error' = FALSE
  /\ selected' = None
  /\ Pane(None)
  /\ UNCHANGED server

Render ==
  /\ painted' = [mutating |-> flow # None, leaving |-> leaving]
  /\ painted' # painted
  /\ UNCHANGED <<server, workspace, pane, posts, leaving>>

-----------------------------------------------------------------------------
(***************************************************************************)
(* The pane                                                                *)
(***************************************************************************)
\* One panel's request is answered at the server.
AnswerPanel(panel) ==
  /\ fetch # None /\ fetch[panel] = Waiting
  /\ fetch' = [fetch EXCEPT ![panel] =
       [project |-> Open, version |-> version[Open],
        shows |-> IF panel = "access" THEN facts[Open].rule ELSE facts[Open].spare]]
  /\ UNCHANGED <<server, workspace, detail, notice, applied, typed, flow, posts, leaving,
                 painted>>

FailPanel(panel) ==
  /\ fetch # None /\ fetch[panel] = Waiting
  /\ fetch' = [fetch EXCEPT ![panel] = Rejected]
  /\ UNCHANGED <<server, workspace, detail, notice, applied, typed, flow, posts, leaving,
                 painted>>

Settled == fetch # None /\ \A panel \in Panels : fetch[panel] # Waiting
Partial == \E panel \in Panels : fetch[panel] = Rejected

\* All panels are settled: they are shown together.  A fetch after a mutation also ends
\* it, with a notice; a form that submitted it, or lost its panel, forgets its password.
ShowDetail ==
  /\ Settled
  /\ detail' = fetch /\ fetch' = None
  /\ typed' = IF flow = "save" \/ fetch["access"] = Rejected THEN None ELSE typed
  /\ notice' = IF flow = None THEN notice ELSE IF Partial THEN "partial" ELSE "done"
  /\ flow' = None
  /\ UNCHANGED <<server, workspace, applied, posts, leaving, painted>>

Shows(panel) == IF detail = None THEN "waiting" ELSE detail[panel].shows
Role == list[selected].role

\* A rollback or promotion is offered for a retained deployment that is not production.
Eligible(spare) == spare \in {"archived", "preview"}

\* Fault: the form is open whatever the rule is.
EditableAny(rule) == rule \in Rules

Editable(rule) == rule \in {"none", "plain"}

Offered(kind) ==
  CASE kind = "publish" -> Role \in {"deployer", "owner"} /\ Eligible(Shows("deployments"))
    [] kind = "save" -> Role = "owner" /\ Editable(Shows("access"))
    [] kind = "delete" -> Role = "owner" /\ Shows("access") \in {"plain", "wecom"}

\* The oldest of what an offer was made from: the list, and the panel with the button.
Saw(kind) ==
  LET panel == detail[IF kind = "publish" THEN "deployments" ELSE "access"].version
  IN  IF panel < list[selected].version THEN panel ELSE list[selected].version

Type ==
  /\ Open # None /\ ~ painted.mutating /\ Role = "owner" /\ Editable(Shows("access"))
  /\ typed' = selected /\ typed # selected
  /\ UNCHANGED <<server, workspace, fetch, detail, notice, applied, flow, posts, leaving,
                 painted>>

\* Fault: only the rendered buttons keep a second submission away.
UnlockedWhenPainted == ~ painted.mutating

Unlocked == flow = None

\* A mutation is confirmed and sent.
Submit(kind) ==
  /\ Open # None /\ ~ painted.mutating /\ Offered(kind)
  /\ Unlocked /\ Cardinality(posts) < MaxPosts
  /\ flow' = kind /\ notice' = None
  /\ posts' = posts \cup {[project |-> selected, kind |-> kind, saw |-> Saw(kind),
                           held |-> TRUE, state |-> "sent", made |-> 0]}
  /\ UNCHANGED <<server, workspace, fetch, detail, applied, typed, leaving, painted>>

\* A submission that is not confirmed, or is locked out, still clears the password.
Dismiss ==
  /\ Open # None /\ ~ painted.mutating /\ Offered("save") /\ typed # None
  /\ typed' = None
  /\ UNCHANGED <<server, workspace, fetch, detail, notice, applied, flow, posts, leaving,
                 painted>>

\* Fault: the panels are not read again.
DetailAgain == detail

NewFetch == [panel \in Panels |-> Waiting]

\* The answer to the pane's mutation.  After a success the server is read again; after
\* a failure nothing is.
EndPost(m) ==
  /\ m.held /\ m.state # "sent"
  /\ posts' = posts \ {m}
  /\ IF m.state = "done"
     THEN /\ fetch' = NewFetch /\ applied' = m.made
          /\ UNCHANGED <<notice, typed, flow>>
     ELSE /\ notice' = "failed" /\ flow' = None
          /\ typed' = IF m.kind = "save" THEN None ELSE typed
          /\ UNCHANGED <<fetch, applied>>
  /\ UNCHANGED <<server, workspace, detail, leaving, painted>>

-----------------------------------------------------------------------------
(***************************************************************************)
(* The server                                                              *)
(***************************************************************************)
Change(p, f) ==
  /\ version[p] < MaxVersion[p]
  /\ version' = [version EXCEPT ![p] = @ + 1]
  /\ facts' = [facts EXCEPT ![p] = f]

\* The server's decision on a mutation by its role and the eligibility of its version.
Allowed(f, kind) ==
  CASE kind = "publish" -> f.role \in {"deployer", "owner"} /\ f.spare \in {"archived", "preview"}
    [] kind = "save" -> f.role = "owner"
    [] kind = "delete" -> f.role = "owner"

\* A publication leaves the former production as the other deployment; a save replaces
\* the whole rule.
After(f, kind) ==
  CASE kind = "publish" -> [f EXCEPT !.spare = "archived"]
    [] kind = "save" -> [f EXCEPT !.rule = "plain"]
    [] kind = "delete" -> [f EXCEPT !.rule = "none"]

\* The answer is on its way, if anybody waits for it.
Becomes(m, state, made) ==
  posts' = (posts \ {m})
    \cup IF m.held THEN {[m EXCEPT !.state = state, !.made = made]} ELSE {}

\* A rule that is gone is deleted without an error.
Execute(m) ==
  LET f == facts[m.project] IN
  /\ m.state = "sent" /\ Allowed(f, m.kind)
  /\ \/ /\ m.kind = "delete" /\ f.rule = "none"
        /\ Becomes(m, "done", version[m.project]) /\ UNCHANGED server
     \/ /\ ~ (m.kind = "delete" /\ f.rule = "none")
        /\ Change(m.project, After(f, m.kind)) /\ Becomes(m, "done", version[m.project] + 1)
  /\ UNCHANGED <<workspace, pane, leaving, painted>>

Refuse(m) ==
  /\ m.state = "sent" /\ ~ Allowed(facts[m.project], m.kind)
  /\ Becomes(m, "refused", 0)
  /\ UNCHANGED <<server, workspace, pane, leaving, painted>>

\* Refusals for another reason: a form that does not validate, storage that is not ready
\* or fails; or an artifact that a publication finds damaged, which is lost for good.
Fail(m) ==
  LET f == facts[m.project] IN
  /\ m.state = "sent" /\ Becomes(m, "failed", 0)
  /\ \/ UNCHANGED server
     \/ /\ m.kind = "publish" /\ Allowed(f, "publish")
        /\ Change(m.project, [f EXCEPT !.spare = "collected"])
  /\ UNCHANGED <<workspace, pane, leaving, painted>>

\* The connection fails, before the server acted or after.
Lose(m) ==
  /\ m.state # "lost"
  /\ Becomes(m, "lost", 0)
  /\ UNCHANGED <<server, workspace, pane, leaving, painted>>

\* Somebody else: a member's role, a rule (WeCom rules are set from the command line),
\* an upload, a retention cleanup.
Elsewhere(p) ==
  /\ \E f \in Elsewheres \ {facts[p]} : Change(p, f)
  /\ UNCHANGED <<workspace, pane, posts, leaving, painted>>

Next ==
  \/ Refresh \/ AnswerList \/ ShowList \/ FailList \/ Logout \/ FailLogout \/ EndSession
  \/ Render \/ ShowDetail \/ Type \/ Dismiss
  \/ \E p \in Projects : Select(p) \/ Elsewhere(p)
  \/ \E panel \in Panels : AnswerPanel(panel) \/ FailPanel(panel)
  \/ \E kind \in Kinds : Submit(kind)
  \/ \E m \in posts : EndPost(m) \/ Execute(m) \/ Refuse(m) \/ Fail(m) \/ Lose(m)

Spec == Init /\ [][Next]_vars

-----------------------------------------------------------------------------
\* Every variable keeps its type.
TypeOK ==
  /\ facts \in [Projects -> Facts] /\ version \in [Projects -> Nat]
  /\ list \in [Projects -> [role : Roles, version : Nat]]
  /\ listing \in {None, Pending} \cup [Projects -> [role : Roles, version : Nat]]
  /\ loading \in BOOLEAN /\ error \in BOOLEAN /\ selected \in Projects \cup {None}
  /\ fetch \in {None} \cup [Panels -> Panel] /\ detail \in {None} \cup [Panels -> Panel]
  /\ notice \in Notices \cup {None} /\ applied \in Nat
  /\ typed \in Projects \cup {None} /\ flow \in Kinds \cup {None}
  /\ posts \subseteq Post /\ leaving \in BOOLEAN
  /\ painted \in [mutating : BOOLEAN, leaving : BOOLEAN]

\* Everything in the pane is of the selected project, and there is nothing without one:
\* no panel, notice, password or mutation survives a switch, a refresh or a failed
\* logout and turns up under another project.
PaneOfSelected ==
  /\ \A panels \in {fetch, detail} : panels # None =>
       Open # None /\ \A panel \in Panels : panels[panel].project \in {None, Open}
  /\ Open = None => notice = None /\ flow = None
  /\ typed \in {None, Open}
  /\ \A m \in posts : m.held => m.project = Open

\* A notice of success is about a mutation that was executed, and the panels beneath it
\* were read after it: each is an error or no older than what the mutation made.
NoticeIsTrue ==
  notice \in {"partial", "done"} =>
    /\ applied > 0
    /\ \A panel \in Panels :
         \/ detail[panel] = Rejected /\ notice = "partial"
         \/ detail[panel].version >= applied

\* The pane waits for at most one mutation, and for none while it reads after one: a
\* second click, before or after the buttons are rendered, sends nothing.
OneMutation ==
  /\ Cardinality({m \in posts : m.held}) <= 1
  /\ \A m \in posts : m.held => flow = m.kind /\ fetch = None

\* What the pane offers fits the project, unless that has changed since the pane read it:
\* no mutation is refused for want of the role or of an eligible version, no save replaces
\* a WeCom rule (which the form cannot express and therefore locks), and no deletion finds
\* its rule gone, but after such a change.  A form that does not validate and storage that
\* fails are refusals of another kind.
OffersAreSound ==
  [][\A m \in posts : m.state = "sent" /\ m.saw = version[m.project] =>
       /\ [m EXCEPT !.state = "refused"] \notin posts'
       /\ m.kind = "save" => facts[m.project].rule # "wecom"
       /\ m.kind = "delete" => facts[m.project].rule # "none"]_vars
=============================================================================
