----------------------------- MODULE Deployment -----------------------------
(***************************************************************************)
(* The deployment lifecycle of one droply server: uploads, publication,    *)
(* rollback and promotion, retention cleanup, project deletion, visitors   *)
(* reading the published files, crashes and the recovery at startup.       *)
(*                                                                         *)
(* Two stores hold one deployment.  SQLite holds its row (status, artifact *)
(* state, branch alias) and every transaction on it is atomic and durable. *)
(* The artifact directory holds its files, first under .staging/<id> and   *)
(* then under <id>, and a directory operation is neither atomic with the   *)
(* row nor durable before its fsync.  The actions below are the steps      *)
(* between which the process may die or another goroutine may run.         *)
(*                                                                         *)
(* A deployment is named by its row id.  Rows are numbered in reservation  *)
(* order and never renumbered (AUTOINCREMENT), a project's version order   *)
(* is the order of its ids, and each row has an artifact id of its own, so *)
(* one number stands for the row, the version and the artifact.            *)
(***************************************************************************)
EXTENDS Integers, FiniteSets

CONSTANTS
  Actors,        \* authenticated users, each with at most one request in flight
  Owner,         \* the owner of every project
  Visitors,      \* concurrent site requests
  Projects,      \* project identities; a deleted one never comes back
  Targets,       \* what an upload may name: "production", "preview" or a branch
  Fragile,       \* deployments whose published files something outside may damage
  MaxId,         \* bound: number of deployment rows ever reserved
  Keeps,         \* retention counts an operator may ask a cleanup for
  Days,          \* whether his cleanup may, or must, protect young versions
  RetainCount,   \* retention count of the hourly maintenance
  RetainDays,    \* whether the hourly maintenance also protects young versions
  MaxCrashes,    \* bound: number of process deaths
  Collector,     \* the goroutine that runs a cleanup
  None           \* no value

ASSUME ConstantsAssumption ==
  /\ Owner \in Actors
  /\ MaxId \in Nat /\ MaxCrashes \in Nat
  /\ RetainCount \in Nat /\ Keeps \subseteq Nat /\ Days \subseteq BOOLEAN
  /\ RetainDays \in BOOLEAN
  /\ Collector \notin Actors /\ None \notin Actors /\ None # Collector
  /\ None \notin Nat /\ None \notin Projects
  /\ "production" \in Targets /\ None \notin Targets

Ids == 1 .. MaxId
Branches == Targets \ {"production", "preview"}
Published == {"active", "archived", "preview"}
Statuses == Published \cup {"absent", "uploading", "failed"}
States == {"pending", "available", "missing", "deleting", "deleted"}

VARIABLES
  life,       \* life[p]: "absent", "live" or "deleted"
  members,    \* members[p]: users other than the owner who may publish to p
  nextId,     \* the id of the next deployment row
  project,    \* project[i]: the project row i was reserved for
  target,     \* target[i]: "production", "preview", or the branch of a named preview
  status,     \* status[i]: "absent", "uploading", "failed" or one of Published
  state,      \* state[i]: the artifact state of row i
  alias,      \* alias[p][b]: the deployment that branch b of p points to
  stage,      \* stage[i]: "none", "partial" or "complete"
  files,      \* files[i]: "none", "volatile", "durable", "damaged" or "partial"
  old,        \* the deployments past the orphan grace and the retention days; ids,
              \* creation times and (uploads being serialized) file times grow together
  uploader,   \* holder of uploadMu
  writer,     \* holder of the write side of deploymentMu
  serving,    \* serving[v]: the deployment v reads under the read lock
  pc,         \* pc[a]: where the request of a is
  job,        \* job[a]: the deployment the request of a is about
  gc,         \* the state of the collector
  power,      \* "down", "recovering" or "up"
  todo,       \* rows that recovery has not visited
  crashes     \* number of process deaths so far

rows == <<life, members, nextId, project, target, status, state, alias>>
disk == <<stage, files>>
locks == <<uploader, writer, serving>>
requests == <<pc, job>>
process == <<gc, power, todo, crashes>>
vars == <<rows, disk, old, locks, requests, process>>

(***************************************************************************)
(* Helpers                                                                 *)
(***************************************************************************)
Live(i) == status[i] # "absent"
Rows == {i \in Ids : Live(i)}
RowsOf(p) == {i \in Rows : project[i] = p}
Available(i) == state[i] = "available"
IsPublished(i) == status[i] \in Published
Referenced(i) == \E b \in Branches : alias[project[i]][b] = i
\* Fault: aliases do not pin.
PinnedByStatus(i) == status[i] \in {"active", "uploading"}

Pinned(i) == status[i] \in {"active", "uploading"} \/ Referenced(i)

\* Fault: the lock ignores responses in flight.
QuietWithReaders == writer = None

\* The write side of deploymentMu can be taken: no writer, no response in flight.
Quiet == writer = None /\ \A v \in Visitors : serving[v] = None

\* recheckPublication: the current role of a on p, read under the lock.
MayPublish(a, p) == life[p] = "live" /\ (a = Owner \/ a \in members[p])

\* Fault: the row's status is not looked at.
FailedAlways(st, i) == [st EXCEPT ![i] = "failed"]

\* FailDeployment: guarded by the row's status, so it never undoes a commit.
Failed(st, i) == [st EXCEPT ![i] = IF @ = "uploading" THEN "failed" ELSE @]

\* The two updates that move the production pointer of i's project to i.
Activated(i) ==
  [e \in Ids |->
     CASE e = i -> "active"
       [] e # i /\ project[e] = project[i] /\ status[e] = "active" -> "archived"
       [] OTHER -> status[e]]

\* What a removal that fails may leave of a tree; nobody reads it any more.
Leftover(s) == IF s = "none" THEN {"none"} ELSE {"partial", "none"}

IdleCollector ==
  [pc |-> "idle", projects |-> {}, todo |-> {}, rank |-> 0, keep |-> 0,
   days |-> FALSE, sweep |-> FALSE, id |-> None]

Init ==
  /\ life = [p \in Projects |-> "absent"]
  /\ members = [p \in Projects |-> {}]
  /\ nextId = 1
  /\ project = [i \in Ids |-> None]
  /\ target = [i \in Ids |-> "production"]
  /\ status = [i \in Ids |-> "absent"]
  /\ state = [i \in Ids |-> "pending"]
  /\ alias = [p \in Projects |-> [b \in Branches |-> None]]
  /\ stage = [i \in Ids |-> "none"]
  /\ files = [i \in Ids |-> "none"]
  /\ old = {}
  /\ uploader = None /\ writer = None
  /\ serving = [v \in Visitors |-> None]
  /\ pc = [a \in Actors |-> "idle"]
  /\ job = [a \in Actors |-> None]
  /\ gc = IdleCollector
  /\ power = "up" /\ todo = {} /\ crashes = 0

\* Helper for a request that moves on without touching the collector.
Goto(a, label) == pc' = [pc EXCEPT ![a] = label]
Finish(a) == Goto(a, "idle") /\ job' = [job EXCEPT ![a] = None]

-----------------------------------------------------------------------------
(***************************************************************************)
(* Upload and publication (handleDeploy)                                   *)
(***************************************************************************)

\* The first authorization, made before any lock is taken.
RequestDeploy(a) ==
  /\ power = "up" /\ pc[a] = "idle"
  /\ a = Owner \/ \E p \in Projects : MayPublish(a, p)
  /\ Goto(a, "queued")
  /\ UNCHANGED <<rows, disk, old, locks, job, process>>

\* Fault: uploads are not serialized.
TakeNoUploadLock(a) ==
  /\ pc[a] = "queued"
  /\ uploader' = a
  /\ Goto(a, "reserving")
  /\ UNCHANGED <<rows, disk, old, writer, serving, job, process>>

TakeUploadLock(a) ==
  /\ pc[a] = "queued" /\ uploader = None
  /\ uploader' = a
  /\ Goto(a, "reserving")
  /\ UNCHANGED <<rows, disk, old, writer, serving, job, process>>

\* Canceled while waiting, forbidden, or the row could not be inserted; in the
\* last case the owner may already have created the project.
RejectDeploy(a) ==
  /\ pc[a] = "reserving"
  /\ \/ life' = life
     \/ /\ Quiet /\ a = Owner
        /\ \E p \in Projects : life[p] = "absent" /\ life' = [life EXCEPT ![p] = "live"]
  /\ Finish(a) /\ uploader' = None
  /\ UNCHANGED <<members, nextId, project, target, status, state, alias, disk, old,
                 writer, serving, process>>

\* Under the write lock: resolve or create the project, recheck, insert the row.
Reserve(a, p, t) ==
  /\ pc[a] = "reserving" /\ Quiet
  /\ MayPublish(a, p) \/ (a = Owner /\ life[p] = "absent")
  /\ nextId \in Ids
  /\ life' = [life EXCEPT ![p] = "live"]
  /\ nextId' = nextId + 1
  /\ project' = [project EXCEPT ![nextId] = p]
  /\ target' = [target EXCEPT ![nextId] = t]
  /\ status' = [status EXCEPT ![nextId] = "uploading"]
  /\ job' = [job EXCEPT ![a] = nextId]
  /\ Goto(a, "staging")
  /\ UNCHANGED <<members, state, alias, disk, old, locks, process>>

BeginStage(a) ==
  /\ pc[a] = "staging"
  /\ stage' = [stage EXCEPT ![job[a]] = "partial"]
  /\ Goto(a, "extracting")
  /\ UNCHANGED <<rows, files, old, locks, job, process>>

\* The archive is extracted, fsynced and validated; a concurrent orphan sweep may
\* have removed the directory after the project was deleted.
FinishStage(a) ==
  /\ pc[a] = "extracting" /\ stage[job[a]] = "partial"
  /\ stage' = [stage EXCEPT ![job[a]] = "complete"]
  /\ Goto(a, "publishing")
  /\ UNCHANGED <<rows, files, old, locks, job, process>>

\* fail(): quota, malformed archive, interrupted upload or invalid site rules.
\* No deployment lock is held; recording the failure may itself fail.
FailUpload(a) ==
  /\ pc[a] \in {"staging", "extracting"}
  /\ status' \in {status, Failed(status, job[a])}
  /\ Goto(a, "clearing")
  /\ UNCHANGED <<life, members, nextId, project, target, state, alias, disk, old,
                 locks, job, process>>

\* Under the write lock: permission revoked, canceled, quota, or Publish refused
\* the staged tree.
RefusePublication(a) ==
  /\ pc[a] = "publishing" /\ Quiet
  /\ status' \in {status, Failed(status, job[a])}
  /\ Goto(a, "clearing")
  /\ UNCHANGED <<life, members, nextId, project, target, state, alias, disk, old,
                 locks, job, process>>

\* The write lock is taken, the permission read again, the staged tree verified
\* and renamed into place; until the fsync the rename may be undone by a crash.
RenameArtifact(a) ==
  LET i == job[a] IN
  /\ pc[a] = "publishing" /\ Quiet
  /\ MayPublish(a, project[i])
  /\ stage[i] = "complete" /\ files[i] = "none"
  /\ writer' = a
  /\ stage' = [stage EXCEPT ![i] = "none"]
  /\ files' = [files EXCEPT ![i] = "volatile"]
  /\ Goto(a, "syncing")
  /\ UNCHANGED <<rows, old, uploader, serving, job, process>>

SyncArtifact(a) ==
  /\ pc[a] = "syncing"
  /\ files' = [files EXCEPT ![job[a]] = "durable"]
  /\ Goto(a, "committing")
  /\ UNCHANGED <<rows, stage, old, locks, job, process>>

\* Publish reports an error after its rename: the files stay, the row fails.
FailSync(a) ==
  /\ pc[a] = "syncing"
  /\ status' \in {status, Failed(status, job[a])}
  /\ writer' = None
  /\ Goto(a, "clearing")
  /\ UNCHANGED <<life, members, nextId, project, target, state, alias, disk, old,
                 uploader, serving, job, process>>

\* CommitDeployment, one transaction: the rows it leaves behind, and the rest of it.
Committed(i) ==
  IF target[i] = "production" THEN Activated(i) ELSE [status EXCEPT ![i] = "preview"]

CommitRow(i) ==
  /\ status[i] = "uploading" /\ state[i] = "pending"
  /\ state' = [state EXCEPT ![i] = "available"]
  /\ alias' = IF target[i] \in Branches THEN [alias EXCEPT ![project[i]][target[i]] = i]
              ELSE alias
  /\ UNCHANGED <<life, members, nextId, project, target>>

Commit(a) ==
  /\ pc[a] = "committing"
  /\ CommitRow(job[a]) /\ status' = Committed(job[a])
  /\ writer' = None /\ uploader' = None /\ Finish(a)
  /\ UNCHANGED <<disk, old, serving, process>>

\* The transaction reports an error whether or not it was applied, and the failure is
\* recorded, or not, on top of what it left; the files are kept.
CommitUncertain(a) ==
  LET i == job[a] IN
  /\ pc[a] = "committing"
  /\ \/ CommitRow(i) /\ status' \in {Committed(i), Failed(Committed(i), i)}
     \/ /\ status' \in {status, Failed(status, i)}
        /\ UNCHANGED <<life, members, nextId, project, target, state, alias>>
  /\ writer' = None
  /\ Goto(a, "clearing")
  /\ UNCHANGED <<disk, old, uploader, serving, job, process>>

\* Fault: this path forgets to release uploadMu.
ClearStageHoldingLock(a) ==
  /\ pc[a] = "clearing"
  /\ \E s \in Leftover(stage[job[a]]) : stage' = [stage EXCEPT ![job[a]] = s]
  /\ Finish(a)
  /\ UNCHANGED <<rows, files, old, locks, process>>

\* The deferred RemoveStage, after deploymentMu and before uploadMu is released.
ClearStage(a) ==
  /\ pc[a] = "clearing"
  /\ \E s \in Leftover(stage[job[a]]) : stage' = [stage EXCEPT ![job[a]] = s]
  /\ uploader' = None /\ Finish(a)
  /\ UNCHANGED <<rows, files, old, writer, serving, process>>

-----------------------------------------------------------------------------
(***************************************************************************)
(* Rollback and promotion (switchPublication)                              *)
(***************************************************************************)

\* requireProject, before the lock.
RequestSwitch(a, i, kind) ==
  /\ power = "up" /\ pc[a] = "idle"
  /\ Live(i) /\ MayPublish(a, project[i])
  /\ Goto(a, kind) /\ job' = [job EXCEPT ![a] = i]
  /\ UNCHANGED <<rows, disk, old, locks, process>>

Eligible(i, kind) ==
  /\ Available(i)
  /\ IF kind = "promote" THEN target[i] # "production" /\ IsPublished(i)
     ELSE status[i] \in {"active", "archived"}

\* Any refusal: permission, missing version, state, a store error, or an
\* activation of the version that is active already.
RefuseSwitch(a) ==
  /\ pc[a] \in {"rollback", "promote"} /\ Quiet
  /\ Finish(a)
  /\ UNCHANGED <<rows, disk, old, locks, process>>

Switch(a) ==
  LET i == job[a] IN
  /\ pc[a] \in {"rollback", "promote"} /\ Quiet
  /\ Live(i) /\ MayPublish(a, project[i])
  /\ Eligible(i, pc[a]) /\ files[i] = "durable"
  /\ status' = Activated(i)
  /\ Finish(a)
  /\ UNCHANGED <<life, members, nextId, project, target, state, alias, disk, old,
                 locks, process>>

\* Verify fails, on a damaged tree or on a read error: the row is marked missing.
RetireArtifact(a) ==
  LET i == job[a] IN
  /\ pc[a] \in {"rollback", "promote"} /\ Quiet
  /\ Live(i) /\ MayPublish(a, project[i])
  /\ Eligible(i, pc[a])
  /\ state' = [state EXCEPT ![i] = "missing"]
  /\ Finish(a)
  /\ UNCHANGED <<life, members, nextId, project, target, status, alias, disk, old,
                 locks, process>>

-----------------------------------------------------------------------------
(***************************************************************************)
(* Membership and project deletion, each one transaction under the lock    *)
(***************************************************************************)
Grant(p, a) ==
  /\ power = "up" /\ Quiet /\ life[p] = "live" /\ a # Owner
  /\ members' = [members EXCEPT ![p] = @ \cup {a}]
  /\ UNCHANGED <<life, nextId, project, target, status, state, alias, disk, old,
                 locks, requests, process>>

Revoke(p, a) ==
  /\ power = "up" /\ Quiet /\ life[p] = "live" /\ a \in members[p]
  /\ members' = [members EXCEPT ![p] = @ \ {a}]
  /\ UNCHANGED <<life, nextId, project, target, status, state, alias, disk, old,
                 locks, requests, process>>

\* Rows, aliases and memberships go by cascade; the files become orphans.
DeleteProject(p) ==
  /\ power = "up" /\ Quiet /\ life[p] = "live"
  /\ life' = [life EXCEPT ![p] = "deleted"]
  /\ members' = [members EXCEPT ![p] = {}]
  /\ status' = [i \in Ids |-> IF project[i] = p THEN "absent" ELSE status[i]]
  /\ state' = [i \in Ids |-> IF project[i] = p THEN "pending" ELSE state[i]]
  /\ alias' = [alias EXCEPT ![p] = [b \in Branches |-> None]]
  /\ UNCHANGED <<nextId, project, target, disk, old, locks, requests, process>>

-----------------------------------------------------------------------------
(***************************************************************************)
(* Site requests                                                           *)
(***************************************************************************)

\* The deployments a host name can select: production, a preview label, or a
\* branch label.
Selectable(i) ==
  /\ Live(i) /\ Available(i)
  /\ \/ status[i] = "active"
     \/ target[i] # "production" /\ IsPublished(i)

BeginResponse(v, i) ==
  /\ power = "up" /\ writer = None /\ serving[v] = None
  /\ Selectable(i)
  /\ serving' = [serving EXCEPT ![v] = i]
  /\ UNCHANGED <<rows, disk, old, uploader, writer, requests, process>>

EndResponse(v) ==
  /\ serving[v] # None
  /\ serving' = [serving EXCEPT ![v] = None]
  /\ UNCHANGED <<rows, disk, old, uploader, writer, requests, process>>

-----------------------------------------------------------------------------
(***************************************************************************)
(* Retention cleanup and the orphan sweep                                  *)
(***************************************************************************)

\* Either an operator cleans one project, with a retention of his choice, or the
\* hourly maintenance cleans every project that has rows and then sweeps.
BeginCleanup(ps, keep, days, sweep) ==
  /\ power = "up" /\ Quiet /\ gc.pc = "idle"
  /\ writer' = Collector
  /\ gc' = [IdleCollector EXCEPT !.pc = "next", !.projects = ps, !.keep = keep,
                                 !.days = days, !.sweep = sweep]
  /\ UNCHANGED <<rows, disk, old, uploader, serving, requests, power, todo, crashes>>

OperatorCleanup ==
  \E p \in Projects, keep \in Keeps, days \in Days :
    life[p] = "live" /\ BeginCleanup({p}, keep, days, FALSE)

Maintenance ==
  BeginCleanup({p \in Projects : RowsOf(p) # {}}, RetainCount, RetainDays, TRUE)

StartProject(p) ==
  /\ gc.pc = "next" /\ p \in gc.projects
  /\ gc' = [gc EXCEPT !.pc = "scan", !.projects = @ \ {p}, !.todo = RowsOf(p), !.rank = 0]
  /\ UNCHANGED <<rows, disk, old, locks, requests, power, todo, crashes>>

\* Fault: failed and collected versions count as well.
RankOfEvery(i) == IF Live(i) THEN gc.rank + 1 ELSE gc.rank

\* The rank of i counts the newer available versions, i included.
RankOf(i) == IF Available(i) /\ IsPublished(i) THEN gc.rank + 1 ELSE gc.rank

\* Fault: a tombstone is taken to be done.
SparedForever(i) == state[i] \in {"deleting", "deleted"} \/ Pinned(i)

\* i stays: already collected, pinned, within the count, or too young.
Spared(i) ==
  \/ state[i] = "deleted"
  \/ Pinned(i)
  \/ /\ state[i] # "deleting"
     /\ IF Available(i) /\ IsPublished(i)
        THEN (gc.keep > 0 /\ RankOf(i) <= gc.keep) \/ (gc.days /\ i \notin old)
        ELSE i \notin old

\* Newest version first.
Scanned(i) == gc.pc = "scan" /\ i \in gc.todo /\ \A e \in gc.todo : e <= i

SkipRow(i) ==
  /\ Scanned(i) /\ Spared(i)
  /\ gc' = [gc EXCEPT !.todo = @ \ {i}, !.rank = RankOf(i)]
  /\ UNCHANGED <<rows, disk, old, locks, requests, power, todo, crashes>>

\* MarkArtifactDeleting, whose own guard repeats the pin inside SQLite; from here
\* on the row can neither be served nor activated.
MarkDeleting(i) ==
  /\ Scanned(i) /\ ~Spared(i)
  /\ ~Pinned(i) /\ state[i] \in {"available", "pending", "missing", "deleting"}
  /\ state' = [state EXCEPT ![i] = "deleting"]
  /\ gc' = [gc EXCEPT !.pc = "remove", !.id = i, !.todo = @ \ {i}, !.rank = RankOf(i)]
  /\ UNCHANGED <<life, members, nextId, project, target, status, alias, disk, old,
                 locks, requests, power, todo, crashes>>

\* RemoveStage and Remove, each up to its fsync; a failure leaves part of a tree.
RemoveTrees(i) ==
  /\ gc.pc = "remove" /\ gc.id = i
  /\ stage' = [stage EXCEPT ![i] = "none"]
  /\ files' = [files EXCEPT ![i] = "none"]
  /\ gc' = [gc EXCEPT !.pc = "settle"]
  /\ UNCHANGED <<rows, old, locks, requests, power, todo, crashes>>

FailRemove(i) ==
  /\ gc.pc = "remove" /\ gc.id = i
  /\ \E s \in Leftover(stage[i]), f \in Leftover(files[i]) :
       stage' = [stage EXCEPT ![i] = s] /\ files' = [files EXCEPT ![i] = f]
  /\ gc' = [gc EXCEPT !.pc = "scan", !.id = None]
  /\ UNCHANGED <<rows, old, locks, requests, power, todo, crashes>>

\* SetArtifactState "deleted"; the store may fail instead.
SettleRow(i) ==
  /\ gc.pc = "settle" /\ gc.id = i
  /\ state' \in {state, [state EXCEPT ![i] = "deleted"]}
  /\ gc' = [gc EXCEPT !.pc = "scan", !.id = None]
  /\ UNCHANGED <<life, members, nextId, project, target, status, alias, disk, old,
                 locks, requests, power, todo, crashes>>

\* The project is done, or a store error or a cancelation cuts it short.
EndProject ==
  /\ gc.pc = "scan"
  /\ gc' = [gc EXCEPT !.pc = "next", !.todo = {}]
  /\ UNCHANGED <<rows, disk, old, locks, requests, power, todo, crashes>>

StartSweep ==
  /\ gc.pc = "next" /\ gc.projects = {} /\ gc.sweep
  /\ gc' = [gc EXCEPT !.pc = "sweep"]
  /\ UNCHANGED <<rows, disk, old, locks, requests, power, todo, crashes>>

\* Fault: rows do not protect entries.
OrphanByAge(i) == i \in old /\ (stage[i] # "none" \/ files[i] # "none")

\* An entry no row protects, once it is older than the grace period.
Orphan(i) ==
  /\ i \in old /\ (stage[i] # "none" \/ files[i] # "none")
  /\ ~(Live(i) /\ state[i] # "deleted")

SweepOrphan(i) ==
  /\ gc.pc = "sweep" /\ Orphan(i)
  /\ \E s \in Leftover(stage[i]), f \in Leftover(files[i]) :
       stage' = [stage EXCEPT ![i] = s] /\ files' = [files EXCEPT ![i] = f]
  /\ UNCHANGED <<rows, old, locks, requests, process>>

EndCleanup ==
  /\ \/ gc.pc = "next" /\ gc.projects = {} /\ ~gc.sweep
     \/ gc.pc = "sweep"
  /\ gc' = IdleCollector
  /\ writer' = None
  /\ UNCHANGED <<rows, disk, old, uploader, serving, requests, power, todo, crashes>>

-----------------------------------------------------------------------------
(***************************************************************************)
(* Process death and recovery (prepareDeployments)                         *)
(***************************************************************************)

\* Goroutines and locks are gone.  A stage directory that was being written may
\* be lost, and a rename that was not fsynced is either kept or undone.
Crash ==
  /\ power # "down" /\ crashes < MaxCrashes
  /\ power' = "down" /\ crashes' = crashes + 1 /\ todo' = {}
  /\ pc' = [a \in Actors |-> "idle"] /\ job' = [a \in Actors |-> None]
  /\ uploader' = None /\ writer' = None
  /\ serving' = [v \in Visitors |-> None]
  /\ gc' = IdleCollector
  /\ \E lost, undone \in SUBSET Ids :
       /\ lost \subseteq {i \in Ids : stage[i] = "partial"}
       /\ undone \subseteq {i \in Ids : files[i] = "volatile"}
       /\ stage' = [i \in Ids |-> IF i \in lost THEN "none"
                                  ELSE IF i \in undone THEN "complete" ELSE stage[i]]
       /\ files' = [i \in Ids |-> IF i \in undone THEN "none"
                                  ELSE IF files[i] = "volatile" THEN "durable" ELSE files[i]]
  /\ UNCHANGED <<rows, old>>

Start ==
  /\ power = "down"
  /\ power' = "recovering" /\ todo' = Rows
  /\ UNCHANGED <<rows, disk, old, locks, requests, gc, crashes>>

\* ListAllDeployments orders the rows by project and version.
NextToRecover(i) ==
  power = "recovering" /\ i \in todo /\ \A e \in todo : project[e] = project[i] => i <= e

\* An available artifact is verified; a damaged or unreadable one goes missing.
RecoverAvailable(i) ==
  /\ NextToRecover(i) /\ Available(i)
  /\ \/ files[i] = "durable" /\ UNCHANGED state
     \/ state' = [state EXCEPT ![i] = "missing"]
  /\ todo' = todo \ {i}
  /\ UNCHANGED <<life, members, nextId, project, target, status, alias, disk, old,
                 locks, requests, gc, power, crashes>>

RecoverUploading(i) ==
  /\ NextToRecover(i) /\ status[i] = "uploading"
  /\ status' = Failed(status, i)
  /\ todo' = todo \ {i}
  /\ UNCHANGED <<life, members, nextId, project, target, state, alias, disk, old,
                 locks, requests, gc, power, crashes>>

\* A tombstone is finished; a removal error is left for the next cleanup.  The
\* store refuses "deleted" for a row that is pinned, and startup then fails.
Tombstone(i) == state[i] = "deleting"
Settleable(i) == state[i] \in {"deleting", "deleted"} /\ ~Pinned(i)

RecoverTombstone(i) ==
  /\ NextToRecover(i) /\ Tombstone(i)
  /\ \/ /\ stage' = [stage EXCEPT ![i] = "none"] /\ files' = [files EXCEPT ![i] = "none"]
        /\ Settleable(i)
        /\ state' = [state EXCEPT ![i] = "deleted"]
     \/ /\ \E s \in Leftover(stage[i]), f \in Leftover(files[i]) :
             stage' = [stage EXCEPT ![i] = s] /\ files' = [files EXCEPT ![i] = f]
        /\ UNCHANGED state
  /\ todo' = todo \ {i}
  /\ UNCHANGED <<life, members, nextId, project, target, status, alias, old,
                 locks, requests, gc, power, crashes>>

\* Fault: whole files make a missing artifact available again.
RecoverMissing(i) ==
  /\ NextToRecover(i) /\ ~Available(i) /\ status[i] # "uploading" /\ ~Tombstone(i)
  /\ state' = [state EXCEPT ![i] = IF files[i] = "durable" THEN "available" ELSE @]
  /\ todo' = todo \ {i}
  /\ UNCHANGED <<life, members, nextId, project, target, status, alias, disk, old,
                 locks, requests, gc, power, crashes>>

RecoverNothing(i) ==
  /\ NextToRecover(i)
  /\ ~Available(i) /\ status[i] # "uploading" /\ ~Tombstone(i)
  /\ todo' = todo \ {i}
  /\ UNCHANGED <<rows, disk, old, locks, requests, gc, power, crashes>>

\* The listeners start only after every row was visited.
Listen ==
  /\ power = "recovering" /\ todo = {}
  /\ power' = "up"
  /\ UNCHANGED <<rows, disk, old, locks, requests, gc, todo, crashes>>

-----------------------------------------------------------------------------
(***************************************************************************)
(* Environment                                                             *)
(***************************************************************************)

\* The grace period and the retention days pass for deployment i.
Age(i) ==
  /\ i < nextId /\ i \notin old /\ 1 .. i - 1 \subseteq old
  /\ old' = old \cup {i}
  /\ UNCHANGED <<rows, disk, locks, requests, process>>

\* Published files are lost or altered outside the server.
Damage(i) ==
  /\ i \in Fragile /\ files[i] = "durable"
  /\ files' = [files EXCEPT ![i] = "damaged"]
  /\ UNCHANGED <<rows, stage, old, locks, requests, process>>

-----------------------------------------------------------------------------
Deploying(a) ==
  \/ RequestDeploy(a) \/ TakeUploadLock(a) \/ RejectDeploy(a)
  \/ \E p \in Projects, t \in Targets : Reserve(a, p, t)
  \/ BeginStage(a) \/ FinishStage(a) \/ FailUpload(a)
  \/ RefusePublication(a) \/ RenameArtifact(a) \/ SyncArtifact(a) \/ FailSync(a)
  \/ Commit(a) \/ CommitUncertain(a) \/ ClearStage(a)

Switching(a) ==
  \/ \E i \in Ids, kind \in {"rollback", "promote"} : RequestSwitch(a, i, kind)
  \/ RefuseSwitch(a) \/ Switch(a) \/ RetireArtifact(a)

Managing ==
  \E p \in Projects :
    \/ \E a \in Actors : Grant(p, a) \/ Revoke(p, a)
    \/ DeleteProject(p)

Visiting ==
  \E v \in Visitors : (\E i \in Ids : BeginResponse(v, i)) \/ EndResponse(v)

Collecting ==
  \/ OperatorCleanup \/ Maintenance
  \/ \E p \in Projects : StartProject(p)
  \/ \E i \in Ids :
       \/ SkipRow(i) \/ MarkDeleting(i) \/ RemoveTrees(i) \/ FailRemove(i)
       \/ SettleRow(i) \/ SweepOrphan(i)
  \/ EndProject \/ StartSweep \/ EndCleanup

Recovering ==
  \/ Crash \/ Start \/ Listen
  \/ \E i \in Ids : \/ RecoverAvailable(i) \/ RecoverUploading(i)
                    \/ RecoverTombstone(i) \/ RecoverNothing(i)

Environment == \E i \in Ids : Age(i) \/ Damage(i)

Next ==
  \/ \E a \in Actors : Deploying(a) \/ Switching(a)
  \/ Managing \/ Visiting \/ Collecting \/ Recovering \/ Environment

Spec == Init /\ [][Next]_vars

-----------------------------------------------------------------------------
(***************************************************************************)
(* Invariants                                                              *)
(***************************************************************************)
Uploading == {"reserving", "staging", "extracting", "publishing", "syncing",
              "committing", "clearing"}

\* Every variable keeps its type.
RowTypes ==
  /\ life \in [Projects -> {"absent", "live", "deleted"}]
  /\ members \in [Projects -> SUBSET Actors]
  /\ nextId \in 1 .. MaxId + 1
  /\ project \in [Ids -> Projects \cup {None}]
  /\ target \in [Ids -> Targets]
  /\ status \in [Ids -> Statuses]
  /\ state \in [Ids -> States]
  /\ alias \in [Projects -> [Branches -> Ids \cup {None}]]

DiskTypes ==
  /\ stage \in [Ids -> {"none", "partial", "complete"}]
  /\ files \in [Ids -> {"none", "volatile", "durable", "damaged", "partial"}]

LockTypes ==
  /\ uploader \in Actors \cup {None}
  /\ writer \in Actors \cup {None, Collector}
  /\ serving \in [Visitors -> Ids \cup {None}]

RequestTypes ==
  /\ pc \in [Actors -> Uploading \cup {"idle", "queued", "rollback", "promote"}]
  /\ job \in [Actors -> Ids \cup {None}]

CollectorType ==
  gc \in [pc : {"idle", "next", "scan", "remove", "settle", "sweep"},
          projects : SUBSET Projects, todo : SUBSET Ids, rank : Nat, keep : Nat,
          days : BOOLEAN, sweep : BOOLEAN, id : Ids \cup {None}]

PowerTypes ==
  /\ power \in {"down", "recovering", "up"}
  /\ todo \subseteq Ids
  /\ crashes \in 0 .. MaxCrashes

TypeOK ==
  /\ RowTypes /\ DiskTypes /\ old \subseteq Ids /\ LockTypes /\ RequestTypes
  /\ CollectorType /\ PowerTypes

\* A deployment SQLite calls available has its whole tree published and fsynced
\* (deploy.go: the artifact is durable before its transaction makes it visible);
\* only damage from outside can change that, never a crash or a collector.
PublishedIsComplete ==
  \A i \in Ids : Available(i) => files[i] \in {"durable", "damaged"} /\ stage[i] = "none"

\* While a response is in flight its deployment stays available and its files stay
\* in place (site.go holds the read lock until the response is complete).
ReadersUndisturbed ==
  \A v \in Visitors : serving[v] # None =>
    /\ Available(serving[v])
    /\ files[serving[v]] \in {"durable", "damaged"}

\* A project has at most one production deployment, so the unique index on active
\* rows never makes a publication fail.
OneProduction ==
  \A i, j \in Ids :
    status[i] = "active" /\ status[j] = "active" /\ project[i] = project[j] => i = j

\* A row being collected is neither production, nor an upload, nor the target of a
\* branch: otherwise SetArtifactState would refuse it and startup would fail for good.
TombstonesUnpinned ==
  \A i \in Rows : state[i] \in {"deleting", "deleted"} =>
    /\ status[i] \notin {"active", "uploading"}
    /\ \A p \in Projects, b \in Branches : alias[p][b] # i

\* "deleted" is recorded only when both trees of the deployment are really gone, and
\* nothing brings one back, so no storage is lost behind a finished row.
DeletedIsReclaimed ==
  \A i \in Rows : state[i] = "deleted" => stage[i] = "none" /\ files[i] = "none"

\* A branch alias points to a committed preview of that very project and branch
\* whose files were not collected.
AliasesResolve ==
  \A p \in Projects, b \in Branches : alias[p][b] # None =>
    LET i == alias[p][b] IN
    /\ IsPublished(i) /\ project[i] = p /\ target[i] = b
    /\ state[i] \in {"available", "missing"}

-----------------------------------------------------------------------------
(***************************************************************************)
(* Action properties                                                       *)
(***************************************************************************)

\* States only move on: a missing, deleting or deleted artifact is never available
\* again, a failed upload is never published, a deleted row never returns.
Resurrects(i) ==
  \/ state[i] # "available" /\ state'[i] = "available" /\ status[i] # "uploading"
  \/ state[i] = "deleted" /\ state'[i] # "deleted" /\ status'[i] # "absent"
  \/ status[i] = "failed" /\ status'[i] \notin {"failed", "absent"}
  \/ status[i] = "absent" /\ status'[i] # "absent" /\ i # nextId
NoResurrection == [][\A i \in Ids : ~Resurrects(i)]_vars

\* Whatever becomes production or a preview is put there by a request whose user may
\* publish to that project at that very moment, however long ago it was admitted.
Promotes(i) == status'[i] # status[i] /\ status'[i] \in {"active", "preview"}
PublishedByPublisher ==
  [][\A i \in Ids : Promotes(i) =>
       \E a \in Actors :
         job[a] = i /\ (a = Owner \/ a \in members[project[i]]) /\ life[project[i]] = "live"]_vars

\* An upload never publishes over a version reserved after it: production and branch
\* aliases move back only by an explicit rollback or promotion.
UploadsMoveForward ==
  [][\A i, e \in Ids :
       status[i] = "uploading" /\ status'[i] \in Published /\ e > i /\ project[e] = project[i]
         => status[e] \notin Published]_vars

\* A project keeps a production row, over failed uploads, uncertain commits, collections and
\* restarts, until it is deleted; and its site goes on showing a version whose artifact is
\* available, unless a verification finds the artifact of that very row unusable: no upload,
\* rollback or promotion replaces a version that works by one that does not.
ProductionRows(p) == {i \in Ids : status[i] = "active" /\ project[i] = p}
ShowsProduction(p) == \E i \in ProductionRows(p) : Available(i)
LosesProduction(p) ==
  \E i \in ProductionRows(p) : Available(i) /\ status'[i] = "active" /\ state'[i] = "missing"
KeepsProduction(p) ==
  /\ ProductionRows(p) # {} => ProductionRows(p)' # {}
  /\ ShowsProduction(p) => ShowsProduction(p)' \/ LosesProduction(p)
ProductionKept == [][\A p \in Projects : life'[p] # "deleted" => KeepsProduction(p)]_vars

\* A version is collected only when enough newer ones stay, and, where days count, not
\* while it is young.
Survivors(i) ==
  {e \in Ids : e > i /\ project[e] = project[i] /\ status[e] \in Published /\ state'[e] = "available"}
RetentionHonored ==
  [][\A i \in Ids : Available(i) /\ state'[i] = "deleting" =>
       /\ gc.keep > 0 => Cardinality(Survivors(i)) >= gc.keep
       /\ gc.days => i \in old]_vars

-----------------------------------------------------------------------------
(***************************************************************************)
(* Liveness                                                                *)
(***************************************************************************)

\* Go's mutexes hand a lock to a waiter that keeps losing it, and an HTTP server with
\* read and write timeouts ends every upload and response: a request that waits for a
\* lock is strongly fair, everything else is weakly fair.  Maintenance comes every hour,
\* and a removal that is tried again and again succeeds at last.
AtWork(a) ==
  \/ BeginStage(a) \/ FailUpload(a) \/ ClearStage(a)
  \/ SyncArtifact(a) \/ FailSync(a) \/ CommitUncertain(a)
AtLock(a) ==
  TakeUploadLock(a) \/ (Quiet /\ RejectDeploy(a)) \/ RefusePublication(a) \/ RefuseSwitch(a)
Recover(i) ==
  RecoverAvailable(i) \/ RecoverUploading(i) \/ RecoverTombstone(i) \/ RecoverNothing(i)

Fairness ==
  /\ \A a \in Actors : WF_vars(AtWork(a)) /\ SF_vars(AtLock(a))
  /\ \A v \in Visitors : WF_vars(EndResponse(v))
  /\ WF_vars(Start) /\ WF_vars(Listen)
  /\ SF_vars(Maintenance)
  /\ \A p \in Projects : WF_vars(StartProject(p))
  /\ \A i \in Ids :
       /\ WF_vars(Recover(i))
       /\ WF_vars(Age(i))
       /\ SF_vars(SkipRow(i) \/ MarkDeleting(i))
       /\ SF_vars(RemoveTrees(i))
       /\ SF_vars(SettleRow(i) /\ state'[i] = "deleted")
       /\ SF_vars(SweepOrphan(i) /\ stage'[i] = "none" /\ files'[i] = "none")
  /\ WF_vars(gc.todo = {} /\ EndProject) /\ WF_vars(StartSweep) /\ WF_vars(EndCleanup)

FairSpec == Spec /\ Fairness

\* Every request comes to an end, whatever the other requests, the collector and the
\* visitors do: no lock order of the handlers can leave it waiting.
RequestsFinish == \A a \in Actors : pc[a] # "idle" ~> pc[a] = "idle"

\* A tombstone is always finished in the end, over failed removals and restarts.
TombstonesFinish ==
  \A i \in Ids : (Live(i) /\ state[i] = "deleting") ~> (state[i] = "deleted" \/ ~Live(i))

\* The files of a deleted project, which no row points to any more, are swept in the end.
OrphansSwept ==
  \A i \in Ids : (~Live(i) /\ files[i] # "none") ~> files[i] = "none"

\* Storage that nothing needs any more is given back in the end, in both ways.
StorageReclaimed == TombstonesFinish /\ OrphansSwept
=============================================================================
