---------------------------- MODULE Publication ----------------------------
(***************************************************************************)
(* What droply promises about published deployments, with no upload, lock, *)
(* directory, crash or transaction in sight.                               *)
(*                                                                         *)
(* A deployment is a draft, then perhaps retained, then gone for good; it  *)
(* may be found lost on the way.                                           *)
(* Becoming retained and becoming visible is one step.  Production moves   *)
(* only to a retained deployment of the same project.  A deployment that   *)
(* is production, or that a branch points to, is never collected; and a    *)
(* deployment is never collected while somebody reads it.                  *)
(***************************************************************************)
EXTENDS Naturals

CONSTANTS Ids, Projects, Branches, Visitors, None

VARIABLES
  phase,       \* phase[i]: "draft", "retained", "lost" or "gone"
  home,        \* home[i]: the project i was published to
  production,  \* production[p]: the deployment the project's host shows
  branch,      \* branch[p][b]: the deployment the branch's host shows
  previews,    \* deployments that have a preview host of their own
  reading      \* reading[v]: the deployment a response is made of

vars == <<phase, home, production, branch, previews, reading>>

Init ==
  /\ phase = [i \in Ids |-> "draft"]
  /\ home = [i \in Ids |-> None]
  /\ production = [p \in Projects |-> None]
  /\ branch = [p \in Projects |-> [b \in Branches |-> None]]
  /\ previews = {}
  /\ reading = [v \in Visitors |-> None]

Retain(i, p) ==
  /\ phase[i] = "draft"
  /\ phase' = [phase EXCEPT ![i] = "retained"]
  /\ home' = [home EXCEPT ![i] = p]

Publish(i, p) ==
  /\ Retain(i, p)
  /\ production' = [production EXCEPT ![p] = i]
  /\ UNCHANGED <<branch, previews, reading>>

\* A preview, which a branch may point to from the same moment on.
Preview(i, p) ==
  /\ Retain(i, p)
  /\ previews' = previews \cup {i}
  /\ \/ UNCHANGED branch
     \/ \E b \in Branches : branch' = [branch EXCEPT ![p][b] = i]
  /\ UNCHANGED <<production, reading>>

\* Rollback or promotion.
Activate(i) ==
  /\ phase[i] = "retained"
  /\ production' = [production EXCEPT ![home[i]] = i]
  /\ UNCHANGED <<phase, home, branch, previews, reading>>

Abandon(i) ==
  /\ phase[i] = "draft"
  /\ phase' = [phase EXCEPT ![i] = "gone"]
  /\ UNCHANGED <<home, production, branch, previews, reading>>

Unread(i) == \A v \in Visitors : reading[v] # i

Collect(i) ==
  /\ phase[i] \in {"retained", "lost"} /\ Unread(i)
  /\ production[home[i]] # i
  /\ \A b \in Branches : branch[home[i]][b] # i
  /\ phase' = [phase EXCEPT ![i] = "gone"]
  /\ UNCHANGED <<home, production, branch, previews, reading>>

\* The files of i turn out to be unusable; pointers to i stay, and show nothing.
Lose(i) ==
  /\ phase[i] = "retained" /\ Unread(i)
  /\ phase' = [phase EXCEPT ![i] = "lost"]
  /\ UNCHANGED <<home, production, branch, previews, reading>>

\* Deployments of p, and drafts meant for p, are gone together.
Delete(p) ==
  /\ \A v \in Visitors : reading[v] = None
  /\ \E drafts \in SUBSET {i \in Ids : phase[i] = "draft"} :
       phase' = [i \in Ids |-> IF home[i] = p \/ i \in drafts THEN "gone" ELSE phase[i]]
  /\ production' = [production EXCEPT ![p] = None]
  /\ branch' = [branch EXCEPT ![p] = [b \in Branches |-> None]]
  /\ previews' = {i \in previews : home[i] # p}
  /\ home' = [i \in Ids |-> IF home[i] = p THEN None ELSE home[i]]
  /\ UNCHANGED reading

Visible(i) == phase[i] = "retained" /\ (production[home[i]] = i \/ i \in previews)

BeginRead(v, i) ==
  /\ reading[v] = None /\ Visible(i)
  /\ reading' = [reading EXCEPT ![v] = i]
  /\ UNCHANGED <<phase, home, production, branch, previews>>

\* A response ends, or the server dies and every response with it.
EndRead ==
  /\ \E ended \in SUBSET Visitors :
       reading' = [v \in Visitors |-> IF v \in ended THEN None ELSE reading[v]]
  /\ UNCHANGED <<phase, home, production, branch, previews>>

Next ==
  \/ \E i \in Ids :
       \/ \E p \in Projects : Publish(i, p) \/ Preview(i, p)
       \/ Activate(i) \/ Abandon(i) \/ Collect(i) \/ Lose(i)
       \/ \E v \in Visitors : BeginRead(v, i)
  \/ \E p \in Projects : Delete(p)
  \/ EndRead

Spec == Init /\ [][Next]_vars
=============================================================================
