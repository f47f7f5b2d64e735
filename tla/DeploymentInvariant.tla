------------------------ MODULE DeploymentInvariant ------------------------
(***************************************************************************)
(* Why the deployment lifecycle is safe: the inductive invariant behind    *)
(* the properties of Deployment.  It says who holds which lock at each     *)
(* step of a handler, what the row and the files of a deployment look like *)
(* while a handler works on it, and what the collector may assume.         *)
(***************************************************************************)
EXTENDS Deployment

\* A handler past a lock holds it, a writer excludes every reader, and nothing runs
\* while the server is down or recovering.
Locking ==
  /\ \A a \in Actors : pc[a] \in Uploading => uploader = a
  /\ \A a \in Actors : pc[a] \in {"syncing", "committing"} => writer = a
  /\ gc.pc # "idle" => writer = Collector
  /\ writer # None => \A v \in Visitors : serving[v] = None
  /\ power # "up" => /\ \A a \in Actors : pc[a] = "idle"
                     /\ gc.pc = "idle"
                     /\ \A v \in Visitors : serving[v] = None

\* Uploads being serialized, the row of a running one is the newest; a rollback or a
\* promotion names a row.  Until an upload commits or gives up, its row is pending, or its
\* project is gone.
Staged == {"staging", "extracting", "publishing", "syncing", "committing"}
JobsNewest ==
  \A a \in Actors :
    /\ pc[a] \in Staged \cup {"clearing"} =>
         job[a] = nextId - 1 /\ job[a] \in Ids /\ project[job[a]] \in Projects
    /\ pc[a] \in {"rollback", "promote"} => job[a] \in Ids
JobsPending ==
  \A a \in Actors : pc[a] \in Staged =>
    /\ status[job[a]] \in {"uploading", "absent"}
    /\ state[job[a]] = "pending"

\* From the rename to the commit the write lock keeps the user's permission and the
\* files, where only damage from outside can reach them.
JobsProtected ==
  \A a \in Actors : pc[a] \in {"syncing", "committing"} =>
    /\ MayPublish(a, project[job[a]])
    /\ stage[job[a]] = "none"
    /\ files[job[a]] \in (IF pc[a] = "syncing" THEN {"volatile"} ELSE {"durable", "damaged"})

\* Rows are numbered in order; a row that is published was available once; the row of a
\* live deployment belongs to a project.
RowsOrdered ==
  \A i \in Ids :
    /\ status[i] = "absent" => state[i] = "pending"
    /\ i >= nextId => status[i] = "absent" /\ stage[i] = "none" /\ files[i] = "none"
    /\ Available(i) => IsPublished(i)
    /\ IsPublished(i) => state[i] # "pending"
    /\ Live(i) => project[i] \in Projects

\* The rows of a pass cannot go away under it, and the tombstone it works on stays one.
CollectorSafe ==
  /\ gc.pc # "idle" => gc.todo \subseteq Rows
  /\ gc.pc \in {"remove", "settle"} => gc.id \in Ids /\ state[gc.id] = "deleting"
  /\ gc.pc = "settle" => stage[gc.id] = "none" /\ files[gc.id] = "none"

\* Locks, jobs, rows and collector agree (deploymentMu and uploadMu in deploy.go and
\* deployment_cleanup.go, the guards of the transactions in store/deployments.go).
Consistent ==
  /\ Locking
  /\ JobsNewest /\ JobsPending /\ JobsProtected
  /\ RowsOrdered
  /\ CollectorSafe

IInv ==
  /\ TypeOK /\ Consistent
  /\ PublishedIsComplete /\ ReadersUndisturbed /\ OneProduction
  /\ TombstonesUnpinned /\ DeletedIsReclaimed /\ AliasesResolve
=============================================================================
