----------------------------- MODULE LegacyImport -----------------------------
(***************************************************************************)
(* The site of one project from before artifacts existed: a directory that *)
(* the old server wrote into and served.  The first start of this server   *)
(* imports it; uploads, switches, deletion and re-creation of the project, *)
(* deaths, power failures and further starts come before and after.        *)
(*                                                                         *)
(* The directory belongs to the first life of the project: the row it had  *)
(* under the old server.                                                   *)
(***************************************************************************)
EXTENDS Integers

CONSTANTS
  MaxLife,      \* bound: rows that the project has had under its name
  MaxUploads,   \* bound: uploads
  Absent,       \* no production deployment, or no other deployment
  Site,         \* what the directory holds
  Part          \* what is left of it by a removal that failed

Uploads == 1..MaxUploads

\* The three values are nothing else, nor one another; Absent is no deployment.
ASSUME ImportAssumption ==
  /\ MaxLife \in Nat /\ MaxUploads \in Nat
  /\ Absent \notin Nat /\ Site \notin Nat /\ Part \notin Nat
  /\ Absent # Site /\ Absent # Part /\ Site # Part
  /\ \A state \in {"legacy", "available", "missing"}, content \in Uploads \cup {Site, Part} :
       Absent # [state |-> state, content |-> content]

VARIABLES
  life,          \* which row of the project there is, 0 for none
  lives,         \* how many there have been
  production,    \* its active deployment: artifact_state ("legacy": no artifact) and content
  archived,      \* contents of its other available deployments that were production
  uploading,     \* content of its deployment with status "uploading"
  oldDirectory,  \* sites/<sub>/<project>
  step,          \* of the process, from the start to serving requests
  begun,         \* how many uploads have been begun
  copies         \* how often the directory has been recorded as production: 0, 1, 2 or more

rows == <<life, lives, production, archived, uploading>>
importVars == <<rows, oldDirectory, step, begun, copies>>

Live(content) == [state |-> "available", content |-> content]

\* The old server knew its projects' current deployment, or had a directory only; or the
\* project is of this server and there is no directory.
ImportInit ==
  /\ life \in {0, 1} /\ lives = life
  /\ oldDirectory \in IF life = 1 THEN {Absent, Site} ELSE {Absent}
  /\ production \in {Absent} \cup
       IF life = 1 THEN {[state |-> "legacy", content |-> Site]} ELSE {}
  /\ archived = {} /\ uploading = Absent
  /\ step = "down" /\ begun = 0 /\ copies = 0

-----------------------------------------------------------------------------
(***************************************************************************)
(* PrepareDeployments                                                      *)
(***************************************************************************)
\* Unfinished uploads are failed; a verification may fail, for good.
Recover ==
  /\ step = "down" /\ step' = "recovered" /\ uploading' = Absent
  /\ archived' \in SUBSET archived
  /\ \/ production' = production
     \/ /\ production # Absent /\ production.state = "available"
        /\ production' = [production EXCEPT !.state = "missing"]
  /\ UNCHANGED <<life, lives, oldDirectory, begun, copies>>

\* Fault: a deployment whose artifact is missing is no deployment.
CurrentAvailable ==
  IF production # Absent /\ production.state = "missing" THEN Absent ELSE production

\* GetActiveDeployment.
Current == production

\* Fault: a directory without a deployment is left alone.
WantedForRows == life # 0 /\ oldDirectory # Absent /\ Current # Absent /\ Current.state = "legacy"

\* No active deployment, or one without an artifact.
Wanted ==
  /\ life # 0 /\ oldDirectory # Absent
  /\ Current # Absent => Current.state = "legacy"

\* Import and Publish; a crash from here on leaves an artifact that nothing refers to.
CopySite ==
  /\ step = "recovered" /\ Wanted /\ step' = "copied"
  /\ UNCHANGED <<rows, oldDirectory, begun, copies>>

Recorded == production' = Live(oldDirectory)

Import ==
  /\ Recorded /\ step' = "imported"
  /\ copies' = IF copies = 2 THEN 2 ELSE copies + 1
  /\ UNCHANGED <<life, lives, archived, oldDirectory, begun>>

\* AttachLegacyArtifact: the old server's deployment gets its artifact.
Attach ==
  /\ step = "copied" /\ Current # Absent /\ production.state = "legacy"
  /\ Import /\ UNCHANGED uploading

\* BeginDeployment.
Begin ==
  /\ step = "copied" /\ Current = Absent
  /\ uploading' = oldDirectory /\ step' = "begun"
  /\ UNCHANGED <<life, lives, production, archived, oldDirectory, begun, copies>>

\* CommitDeployment.
Commit ==
  /\ step = "begun"
  /\ Import /\ uploading' = Absent

\* There is nothing to import, or it has been: the listeners are opened.
Listen ==
  /\ \/ step = "recovered" /\ ~Wanted
     \/ step = "imported"
  /\ step' = "serving"
  /\ UNCHANGED <<rows, oldDirectory, begun, copies>>

\* Any error of the import ends the process, as does a signal or a death at any time.
Stop ==
  /\ step # "down" /\ step' = "down"
  /\ UNCHANGED <<rows, oldDirectory, begun, copies>>

-----------------------------------------------------------------------------
(***************************************************************************)
(* Requests                                                                *)
(***************************************************************************)
\* The project is created by its first upload, of whatever kind.
BeginUpload ==
  /\ step = "serving" /\ begun < MaxUploads /\ uploading = Absent
  /\ \/ life # 0 /\ UNCHANGED <<life, lives>>
     \/ life = 0 /\ lives < MaxLife /\ life' = lives + 1 /\ lives' = life'
  /\ begun' = begun + 1 /\ uploading' = begun'
  /\ UNCHANGED <<production, archived, oldDirectory, step, copies>>

\* What CommitDeployment and SwitchDeployment leave of the former production.
Retained ==
  IF production # Absent /\ production.state = "available"
  THEN archived \cup {production.content} ELSE archived

\* A preview that is committed changes no production.
EndUpload ==
  /\ step = "serving" /\ uploading # Absent /\ uploading' = Absent
  /\ \/ UNCHANGED <<production, archived>>
     \/ production' = Live(uploading) /\ archived' = Retained
  /\ UNCHANGED <<life, lives, oldDirectory, step, begun, copies>>

Switch ==
  /\ step = "serving"
  /\ \E content \in archived :
       production' = Live(content) /\ archived' = Retained \ {content}
  /\ UNCHANGED <<life, lives, uploading, oldDirectory, step, begun, copies>>

\* DeleteProject, or the deletion of its subdomain; an upload under way finds no row.
Gone ==
  /\ life' = 0 /\ lives' = lives /\ production' = Absent /\ archived' = {} /\ uploading' = Absent

DeleteRows ==
  /\ step = "serving" /\ life # 0 /\ Gone
  /\ step' = "deleting"
  /\ UNCHANGED <<oldDirectory, begun, copies>>

\* RemoveAll, under the same lock.  Nobody looks at its error, and a power failure may
\* undo it, for nothing is synced; either way the directory is still there.
RemoveDirectory ==
  /\ step = "deleting" /\ step' = "serving"
  /\ oldDirectory' \in {Absent, oldDirectory} \cup (IF oldDirectory = Site THEN {Part} ELSE {})
  /\ UNCHANGED <<rows, begun, copies>>

ImportNext ==
  \/ Recover \/ CopySite \/ Attach \/ Begin \/ Commit \/ Listen \/ Stop
  \/ BeginUpload \/ EndUpload \/ Switch \/ DeleteRows \/ RemoveDirectory

ImportSpec == ImportInit /\ [][ImportNext]_importVars

-----------------------------------------------------------------------------
(***************************************************************************)
(* Properties                                                              *)
(***************************************************************************)
\* A project of the old server that had a site has a production deployment whenever
\* requests are served, and it gets its site once, however often a start is interrupted
\* between the copy, the row and its commit, and whatever goes missing later.
SiteBackOnce ==
  /\ step = "serving" /\ life = 1 /\ oldDirectory # Absent =>
       production # Absent /\ production.state # "legacy"
  /\ lives <= 1 => copies <= 1

\* What this server has published is not replaced by the old site, not even when its
\* artifact turns out to be missing at a start.
NewerKept ==
  [][production # Absent /\ production.content \in Uploads /\ step # "serving"
       => production' # Absent /\ production'.content = production.content]_importVars
=============================================================================
