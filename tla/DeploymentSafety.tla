------------------------- MODULE DeploymentSafety -------------------------
(***************************************************************************)
(* The safety of Deployment, for every number of users, visitors,          *)
(* projects, branches, rows and crashes, in two parts.                     *)
(*                                                                         *)
(* The first part proves that every variable keeps its type and that       *)
(* Consistent is inductive on top of that.  Consistent says who holds      *)
(* which lock at each step of a handler, what the row and the files of a   *)
(* running upload look like, how rows are numbered, and what the collector *)
(* may assume about the rows of its pass.  The argument is the             *)
(* serialization of uploads.  uploadMu makes the row of a running upload   *)
(* the newest one (Locking, JobsNewest), so nothing else reserves, stages, *)
(* commits or fails it; and every step that could change it otherwise, the *)
(* collector and the deletion of its project, needs the write side of      *)
(* deploymentMu, which the upload holds from the rename of its tree to the *)
(* end of its transaction (JobsProtected).                                 *)
(*                                                                         *)
(* The second part proves the properties.  However many handlers there     *)
(* are, a step changes the deployment rows in one of eight ways and the    *)
(* trees in one of six (Effects).  Each property is proved on the effects, *)
(* on top of Consistent and of the properties before it; a pass of the     *)
(* collector counts versions while they come and go, and is followed step  *)
(* by step; and each effect is a step of Publication or one that it cannot *)
(* see.                                                                    *)
(***************************************************************************)
EXTENDS DeploymentInvariant, PublicationRefinement, FiniteSetTheorems, TLAPS


-----------------------------------------------------------------------------
(***************************************************************************)
(* Types.  The type invariant is inductive as it stands; there is one      *)
(* lemma for each group of actions.                                        *)
(***************************************************************************)

\* FailDeployment writes a status a row may have.
LEMMA FailedType ==
  ASSUME NEW st \in [Ids -> Statuses], NEW i PROVE Failed(st, i) \in [Ids -> Statuses]
  BY DEF Failed, Statuses

\* Moving the production pointer writes statuses that rows may have.
LEMMA ActivatedType ==
  ASSUME RowTypes, NEW i PROVE Activated(i) \in [Ids -> Statuses]
PROOF
  <1>1. \A e \in Ids : (CASE e = i -> "active"
                          [] e # i /\ project[e] = project[i] /\ status[e] = "active" -> "archived"
                          [] OTHER -> status[e]) \in Statuses
    BY DEF RowTypes, Statuses, Published
  <1> QED BY <1>1 DEF Activated

LEMMA CommittedType ==
  ASSUME RowTypes, NEW i PROVE Committed(i) \in [Ids -> Statuses]
  BY ActivatedType DEF Committed, RowTypes, Statuses, Published

\* What a failed removal leaves has the type of what was there.
LEMMA LeftoverType ==
  /\ \A s \in {"none", "partial", "complete"} : Leftover(s) \subseteq {"none", "partial", "complete"}
  /\ \A f \in {"none", "volatile", "durable", "damaged", "partial"} :
       Leftover(f) \subseteq {"none", "volatile", "durable", "damaged", "partial"}
  BY DEF Leftover

\* The rest of the commit transaction.
LEMMA CommitRowType ==
  ASSUME RowTypes, NEW i \in Ids \cup {None}, CommitRow(i), status' \in [Ids -> Statuses]
  PROVE  RowTypes'
PROOF
  <1>1. state' \in [Ids -> States]
    BY DEF CommitRow, RowTypes, States
  <1>2. alias' \in [Projects -> [Branches -> Ids \cup {None}]]
    <2>1. CASE target[i] \notin Branches
      BY <2>1 DEF CommitRow, RowTypes
    <2>2. CASE target[i] \in Branches
      <3>1. \A p \in Projects : [alias[p] EXCEPT ![target[i]] = i] \in [Branches -> Ids \cup {None}]
        BY DEF RowTypes
      <3> QED BY <2>2, <3>1 DEF CommitRow, RowTypes
    <2> QED BY <2>1, <2>2
  <1> QED BY <1>1, <1>2 DEF CommitRow, RowTypes

\* The steps of an upload keep the types.
LEMMA DeployingTypes ==
  ASSUME TypeOK, NEW a \in Actors, Deploying(a) PROVE TypeOK'
PROOF
  <1>1. CASE RequestDeploy(a)
    BY <1>1 DEF RequestDeploy, Goto, Uploading, TypeOK, RowTypes, DiskTypes, LockTypes,
       RequestTypes, CollectorType, PowerTypes, rows, disk, locks, requests, process
  <1>2. CASE TakeUploadLock(a)
    BY <1>2 DEF TakeUploadLock, Goto, Uploading, TypeOK, RowTypes, DiskTypes, LockTypes,
       RequestTypes, CollectorType, PowerTypes, rows, disk, locks, requests, process
  <1>3. CASE RejectDeploy(a)
    BY <1>3 DEF RejectDeploy, Goto, Finish, Uploading, TypeOK, RowTypes, DiskTypes,
       LockTypes, RequestTypes, CollectorType, PowerTypes, rows, disk, locks, requests,
       process
  <1>4. ASSUME NEW p \in Projects, NEW t \in Targets, Reserve(a, p, t) PROVE TypeOK'
    <2>1. RowTypes'
      BY <1>4, ConstantsAssumption DEF Reserve, TypeOK, RowTypes, Ids, Statuses
    <2>2. RequestTypes'
      BY <1>4 DEF Reserve, TypeOK, RowTypes, RequestTypes, Goto, Uploading
    <2> QED
      BY <1>4, <2>1, <2>2 DEF Reserve, TypeOK, RowTypes, DiskTypes, LockTypes, RequestTypes,
         CollectorType, PowerTypes, rows, disk, locks, requests, process
  <1>5. CASE BeginStage(a)
    BY <1>5 DEF BeginStage, Goto, Uploading, TypeOK, RowTypes, DiskTypes, LockTypes,
       RequestTypes, CollectorType, PowerTypes, rows, disk, locks, requests, process
  <1>6. CASE FinishStage(a)
    BY <1>6 DEF FinishStage, Goto, Uploading, TypeOK, RowTypes, DiskTypes, LockTypes,
       RequestTypes, CollectorType, PowerTypes, rows, disk, locks, requests, process
  <1>7. CASE FailUpload(a)
    <2>1. RowTypes'
      BY <1>7, FailedType DEF FailUpload, TypeOK, RowTypes
    <2> QED
      BY <1>7, <2>1 DEF FailUpload, Goto, Uploading, TypeOK, RowTypes, DiskTypes, LockTypes,
         RequestTypes, CollectorType, PowerTypes, rows, disk, locks, requests, process
  <1>8. CASE RefusePublication(a)
    <2>1. RowTypes'
      BY <1>8, FailedType DEF RefusePublication, TypeOK, RowTypes
    <2> QED
      BY <1>8, <2>1 DEF RefusePublication, Goto, Uploading, TypeOK, RowTypes, DiskTypes,
         LockTypes, RequestTypes, CollectorType, PowerTypes, rows, disk, locks, requests,
         process
  <1>9. CASE RenameArtifact(a)
    BY <1>9 DEF RenameArtifact, Goto, Uploading, TypeOK, RowTypes, DiskTypes, LockTypes,
       RequestTypes, CollectorType, PowerTypes, rows, disk, locks, requests, process
  <1>10. CASE SyncArtifact(a)
    BY <1>10 DEF SyncArtifact, Goto, Uploading, TypeOK, RowTypes, DiskTypes, LockTypes,
       RequestTypes, CollectorType, PowerTypes, rows, disk, locks, requests, process
  <1>11. CASE FailSync(a)
    <2>1. RowTypes'
      BY <1>11, FailedType DEF FailSync, TypeOK, RowTypes
    <2> QED
      BY <1>11, <2>1 DEF FailSync, Goto, Uploading, TypeOK, RowTypes, DiskTypes, LockTypes,
         RequestTypes, CollectorType, PowerTypes, rows, disk, locks, requests, process
  <1>12. CASE Commit(a)
    <2>1. RowTypes'
      BY <1>12, CommittedType, CommitRowType DEF Commit, TypeOK, RequestTypes
    <2> QED
      BY <1>12, <2>1 DEF Commit, Goto, Finish, Uploading, TypeOK, RowTypes, DiskTypes,
         LockTypes, RequestTypes, CollectorType, PowerTypes, rows, disk, locks, requests,
         process
  <1>13. CASE CommitUncertain(a)
    <2>1. ASSUME CommitRow(job[a]),
                 status' \in {Committed(job[a]), Failed(Committed(job[a]), job[a])}
          PROVE  RowTypes'
      <3>1. Committed(job[a]) \in [Ids -> Statuses]
        BY CommittedType DEF TypeOK
      <3>2. Failed(Committed(job[a]), job[a]) \in [Ids -> Statuses]
        BY <3>1, FailedType
      <3>3. job[a] \in Ids \cup {None}
        BY DEF TypeOK, RequestTypes
      <3> QED BY <2>1, <3>1, <3>2, <3>3, CommitRowType DEF TypeOK
    <2>2. ASSUME status' \in {status, Failed(status, job[a])},
                 UNCHANGED <<life, members, nextId, project, target, state, alias>>
          PROVE  RowTypes'
      <3>1. Failed(status, job[a]) \in [Ids -> Statuses]
        BY FailedType DEF TypeOK, RowTypes
      <3> QED BY <2>2, <3>1 DEF TypeOK, RowTypes
    <2>3. RowTypes'
      BY <1>13, <2>1, <2>2 DEF CommitUncertain
    <2> QED
      BY <1>13, <2>3 DEF CommitUncertain, Goto, Uploading, TypeOK, RowTypes, DiskTypes,
         LockTypes, RequestTypes, CollectorType, PowerTypes, rows, disk, locks, requests,
         process
  <1>14. CASE ClearStage(a)
    <2>1. DiskTypes'
      BY <1>14, LeftoverType DEF ClearStage, TypeOK, DiskTypes
    <2> QED
      BY <1>14, <2>1 DEF ClearStage, Goto, Finish, Uploading, TypeOK, RowTypes, DiskTypes,
         LockTypes, RequestTypes, CollectorType, PowerTypes, rows, disk, locks, requests,
         process
  <1> QED
    BY <1>1, <1>2, <1>3, <1>4, <1>5, <1>6, <1>7, <1>8, <1>9, <1>10, <1>11, <1>12, <1>13,
       <1>14 DEF Deploying

\* So do those of a rollback or promotion,
LEMMA SwitchingTypes ==
  ASSUME TypeOK, NEW a \in Actors, Switching(a) PROVE TypeOK'
PROOF
  <1>1. ASSUME NEW i \in Ids, NEW kind \in {"rollback", "promote"}, RequestSwitch(a, i,
   kind) PROVE TypeOK'
    BY <1>1 DEF RequestSwitch, Goto, TypeOK, RowTypes, DiskTypes, LockTypes, RequestTypes,
       CollectorType, PowerTypes, rows, disk, locks, requests, process
  <1>2. CASE RefuseSwitch(a)
    BY <1>2 DEF RefuseSwitch, Goto, Finish, Uploading, TypeOK, RowTypes, DiskTypes,
       LockTypes, RequestTypes, CollectorType, PowerTypes, rows, disk, locks, requests,
       process
  <1>3. CASE Switch(a)
    <2>1. RowTypes'
      BY <1>3, ActivatedType DEF Switch, TypeOK, RowTypes
    <2> QED
      BY <1>3, <2>1 DEF Switch, Goto, Finish, Uploading, TypeOK, RowTypes, DiskTypes,
         LockTypes, RequestTypes, CollectorType, PowerTypes, rows, disk, locks, requests,
         process
  <1>4. CASE RetireArtifact(a)
    BY <1>4 DEF RetireArtifact, Goto, Finish, Uploading, States, TypeOK, RowTypes,
       DiskTypes, LockTypes, RequestTypes, CollectorType, PowerTypes, rows, disk, locks,
       requests, process
  <1> QED
    BY <1>1, <1>2, <1>3, <1>4 DEF Switching

\* membership and deletion,
LEMMA ManagingTypes ==
  ASSUME TypeOK, Managing PROVE TypeOK'
PROOF
  <1>1. ASSUME NEW p \in Projects, NEW a \in Actors, Grant(p, a) PROVE TypeOK'
    BY <1>1 DEF Grant, TypeOK, RowTypes, DiskTypes, LockTypes, RequestTypes, CollectorType,
       PowerTypes, rows, disk, locks, requests, process
  <1>2. ASSUME NEW p \in Projects, NEW a \in Actors, Revoke(p, a) PROVE TypeOK'
    BY <1>2 DEF Revoke, TypeOK, RowTypes, DiskTypes, LockTypes, RequestTypes, CollectorType,
       PowerTypes, rows, disk, locks, requests, process
  <1>3. ASSUME NEW p \in Projects, DeleteProject(p) PROVE TypeOK'
    BY <1>3 DEF DeleteProject, Statuses, States, TypeOK, RowTypes, DiskTypes, LockTypes,
       RequestTypes, CollectorType, PowerTypes, rows, disk, locks, requests, process
  <1> QED
    BY <1>1, <1>2, <1>3 DEF Managing

\* site requests,
LEMMA VisitingTypes ==
  ASSUME TypeOK, Visiting PROVE TypeOK'
PROOF
  <1>1. ASSUME NEW v \in Visitors, NEW i \in Ids, BeginResponse(v, i) PROVE TypeOK'
    BY <1>1 DEF BeginResponse, TypeOK, RowTypes, DiskTypes, LockTypes, RequestTypes,
       CollectorType, PowerTypes, rows, disk, locks, requests, process
  <1>2. ASSUME NEW v \in Visitors, EndResponse(v) PROVE TypeOK'
    BY <1>2 DEF EndResponse, TypeOK, RowTypes, DiskTypes, LockTypes, RequestTypes,
       CollectorType, PowerTypes, rows, disk, locks, requests, process
  <1> QED
    BY <1>1, <1>2 DEF Visiting

\* the collector,
LEMMA CollectingTypes ==
  ASSUME TypeOK, Collecting PROVE TypeOK'
PROOF
  <1>1. CASE OperatorCleanup
    <2>1. PICK p \in Projects, keep \in Keeps, days \in Days : BeginCleanup({p}, keep, days, FALSE)
      BY <1>1 DEF OperatorCleanup
    <2>2. CollectorType'
      BY <2>1, ConstantsAssumption DEF BeginCleanup, IdleCollector, TypeOK, CollectorType
    <2> QED
      BY <2>1, <2>2 DEF BeginCleanup, TypeOK, RowTypes, DiskTypes, LockTypes, RequestTypes,
         CollectorType, PowerTypes, rows, disk, locks, requests, process
  <1>2. CASE Maintenance
    <2>1. CollectorType'
      BY <1>2, ConstantsAssumption DEF Maintenance, BeginCleanup, IdleCollector, TypeOK,
         CollectorType
    <2> QED
      BY <1>2, <2>1 DEF Maintenance, BeginCleanup, TypeOK, RowTypes, DiskTypes, LockTypes,
         RequestTypes, CollectorType, PowerTypes, rows, disk, locks, requests, process
  <1>3. ASSUME NEW p \in Projects, StartProject(p) PROVE TypeOK'
    BY <1>3 DEF StartProject, Rows, RowsOf, TypeOK, RowTypes, DiskTypes, LockTypes,
       RequestTypes, CollectorType, PowerTypes, rows, disk, locks, requests, process
  <1>4. ASSUME NEW i \in Ids, SkipRow(i) PROVE TypeOK'
    <2>1. RankOf(i) \in Nat
      BY <1>4 DEF RankOf, TypeOK, CollectorType
    <2>2. CollectorType'
      BY <1>4, <2>1 DEF SkipRow, TypeOK, CollectorType
    <2> QED
      BY <1>4, <2>1, <2>2 DEF SkipRow, TypeOK, RowTypes, DiskTypes, LockTypes, RequestTypes,
         CollectorType, PowerTypes, rows, disk, locks, requests, process
  <1>5. ASSUME NEW i \in Ids, MarkDeleting(i) PROVE TypeOK'
    <2>1. RowTypes'
      BY <1>5 DEF MarkDeleting, TypeOK, RowTypes, States
    <2>2. RankOf(i) \in Nat
      BY <1>5 DEF RankOf, TypeOK, CollectorType
    <2>3. CollectorType'
      BY <1>5, <2>2 DEF MarkDeleting, TypeOK, CollectorType
    <2> QED
      BY <1>5, <2>1, <2>2, <2>3 DEF MarkDeleting, TypeOK, RowTypes, DiskTypes, LockTypes,
         RequestTypes, CollectorType, PowerTypes, rows, disk, locks, requests, process
  <1>6. ASSUME NEW i \in Ids, RemoveTrees(i) PROVE TypeOK'
    BY <1>6 DEF RemoveTrees, TypeOK, RowTypes, DiskTypes, LockTypes, RequestTypes,
       CollectorType, PowerTypes, rows, disk, locks, requests, process
  <1>7. ASSUME NEW i \in Ids, FailRemove(i) PROVE TypeOK'
    <2>1. DiskTypes'
      BY <1>7, LeftoverType DEF FailRemove, TypeOK, DiskTypes
    <2>2. CollectorType'
      BY <1>7 DEF FailRemove, TypeOK, CollectorType
    <2> QED
      BY <1>7, <2>1, <2>2 DEF FailRemove, TypeOK, RowTypes, DiskTypes, LockTypes,
         RequestTypes, CollectorType, PowerTypes, rows, disk, locks, requests, process
  <1>8. ASSUME NEW i \in Ids, SettleRow(i) PROVE TypeOK'
    <2>1. RowTypes'
      BY <1>8 DEF SettleRow, TypeOK, RowTypes, States
    <2>2. CollectorType'
      BY <1>8 DEF SettleRow, TypeOK, CollectorType
    <2> QED
      BY <1>8, <2>1, <2>2 DEF SettleRow, TypeOK, RowTypes, DiskTypes, LockTypes,
         RequestTypes, CollectorType, PowerTypes, rows, disk, locks, requests, process
  <1>9. ASSUME NEW i \in Ids, SweepOrphan(i) PROVE TypeOK'
    <2>1. DiskTypes'
      BY <1>9, LeftoverType DEF SweepOrphan, TypeOK, DiskTypes
    <2> QED
      BY <1>9, <2>1 DEF SweepOrphan, TypeOK, RowTypes, DiskTypes, LockTypes, RequestTypes,
         CollectorType, PowerTypes, rows, disk, locks, requests, process
  <1>10. CASE EndProject
    BY <1>10 DEF EndProject, TypeOK, RowTypes, DiskTypes, LockTypes, RequestTypes,
       CollectorType, PowerTypes, rows, disk, locks, requests, process
  <1>11. CASE StartSweep
    BY <1>11 DEF StartSweep, TypeOK, RowTypes, DiskTypes, LockTypes, RequestTypes,
       CollectorType, PowerTypes, rows, disk, locks, requests, process
  <1>12. CASE EndCleanup
    BY <1>12 DEF EndCleanup, IdleCollector, TypeOK, RowTypes, DiskTypes, LockTypes,
       RequestTypes, CollectorType, PowerTypes, rows, disk, locks, requests, process
  <1> QED
    BY <1>1, <1>2, <1>3, <1>4, <1>5, <1>6, <1>7, <1>8, <1>9, <1>10, <1>11, <1>12 DEF
       Collecting

\* crashes and recovery,
LEMMA RecoveringTypes ==
  ASSUME TypeOK, Recovering PROVE TypeOK'
PROOF
  <1>1. CASE Crash
    <2>1. PICK lost \in SUBSET Ids, undone \in SUBSET Ids :
            /\ stage' = [i \in Ids |-> IF i \in lost THEN "none"
                                       ELSE IF i \in undone THEN "complete" ELSE stage[i]]
            /\ files' = [i \in Ids |-> IF i \in undone THEN "none"
                                       ELSE IF files[i] = "volatile" THEN "durable" ELSE files[i]]
      BY <1>1 DEF Crash
    <2>2. DiskTypes'
      BY <2>1 DEF TypeOK, DiskTypes
    <2>3. CollectorType' /\ PowerTypes'
      BY <1>1, ConstantsAssumption DEF Crash, IdleCollector, TypeOK, CollectorType, PowerTypes
    <2>4. RowTypes' /\ LockTypes' /\ RequestTypes' /\ old' \subseteq Ids
      BY <1>1 DEF Crash, rows, Uploading, TypeOK, RowTypes, LockTypes, RequestTypes
    <2> QED
      BY <2>2, <2>3, <2>4 DEF TypeOK
  <1>2. CASE Start
    BY <1>2 DEF Start, Rows, TypeOK, RowTypes, DiskTypes, LockTypes, RequestTypes,
       CollectorType, PowerTypes, rows, disk, locks, requests, process
  <1>3. CASE Listen
    BY <1>3 DEF Listen, TypeOK, RowTypes, DiskTypes, LockTypes, RequestTypes, CollectorType,
       PowerTypes, rows, disk, locks, requests, process
  <1>4. ASSUME NEW i \in Ids, RecoverAvailable(i) PROVE TypeOK'
    BY <1>4 DEF RecoverAvailable, States, TypeOK, RowTypes, DiskTypes, LockTypes,
       RequestTypes, CollectorType, PowerTypes, rows, disk, locks, requests, process
  <1>5. ASSUME NEW i \in Ids, RecoverUploading(i) PROVE TypeOK'
    <2>1. RowTypes'
      BY <1>5, FailedType DEF RecoverUploading, TypeOK, RowTypes
    <2> QED
      BY <1>5, <2>1 DEF RecoverUploading, TypeOK, RowTypes, DiskTypes, LockTypes,
         RequestTypes, CollectorType, PowerTypes, rows, disk, locks, requests, process
  <1>6. ASSUME NEW i \in Ids, RecoverTombstone(i) PROVE TypeOK'
    <2>1. DiskTypes'
      BY <1>6, LeftoverType DEF RecoverTombstone, TypeOK, DiskTypes
    <2> QED
      BY <1>6, <2>1 DEF RecoverTombstone, States, TypeOK, RowTypes, DiskTypes, LockTypes,
         RequestTypes, CollectorType, PowerTypes, rows, disk, locks, requests, process
  <1>7. ASSUME NEW i \in Ids, RecoverNothing(i) PROVE TypeOK'
    BY <1>7 DEF RecoverNothing, TypeOK, RowTypes, DiskTypes, LockTypes, RequestTypes,
       CollectorType, PowerTypes, rows, disk, locks, requests, process
  <1> QED
    BY <1>1, <1>2, <1>3, <1>4, <1>5, <1>6, <1>7 DEF Recovering

\* and what happens outside.
LEMMA EnvironmentTypes ==
  ASSUME TypeOK, Environment PROVE TypeOK'
PROOF
  <1>1. ASSUME NEW i \in Ids, Age(i) PROVE TypeOK'
    BY <1>1 DEF Age, Ids, TypeOK, RowTypes, DiskTypes, LockTypes, RequestTypes,
       CollectorType, PowerTypes, rows, disk, locks, requests, process
  <1>2. ASSUME NEW i \in Ids, Damage(i) PROVE TypeOK'
    BY <1>2 DEF Damage, TypeOK, RowTypes, DiskTypes, LockTypes, RequestTypes, CollectorType,
       PowerTypes, rows, disk, locks, requests, process
  <1> QED
    BY <1>1, <1>2 DEF Environment

LEMMA InitTypes == Init => TypeOK
  BY ConstantsAssumption
  DEF Init, IdleCollector, TypeOK, RowTypes, DiskTypes, LockTypes, RequestTypes, CollectorType,
      PowerTypes, Ids, Statuses, States

LEMMA NextTypes == TypeOK /\ [Next]_vars => TypeOK'
PROOF
  <1>1. ASSUME TypeOK, UNCHANGED vars PROVE TypeOK'
    BY <1>1 DEF vars, rows, disk, locks, requests, process, TypeOK, RowTypes, DiskTypes,
       LockTypes, RequestTypes, CollectorType, PowerTypes
  <1> QED
    BY <1>1, DeployingTypes, SwitchingTypes, ManagingTypes, VisitingTypes, CollectingTypes,
       RecoveringTypes, EnvironmentTypes
    DEF Next

\* Every reachable state is well typed, whatever the sizes of the system.
THEOREM TypeCorrect == Spec => []TypeOK
  BY InitTypes, NextTypes, PTL DEF Spec

-----------------------------------------------------------------------------
(***************************************************************************)
(* Consistent                                                              *)
(***************************************************************************)

\* A conjunct of Consistent survives every step that leaves its variables alone.
LEMMA LockingFrame ==
  ASSUME Locking, UNCHANGED <<pc, uploader, writer, serving, gc, power>> PROVE Locking'
  BY DEF Locking

LEMMA JobsNewestFrame ==
  ASSUME JobsNewest, UNCHANGED <<pc, job, nextId, project>> PROVE JobsNewest'
  BY DEF JobsNewest

LEMMA JobsPendingFrame ==
  ASSUME JobsPending, UNCHANGED <<pc, job, status, state>> PROVE JobsPending'
  BY DEF JobsPending

LEMMA JobsProtectedFrame ==
  ASSUME JobsProtected, UNCHANGED <<pc, job, life, members, project, stage, files>> PROVE JobsProtected'
  BY DEF JobsProtected, MayPublish

LEMMA RowsOrderedFrame ==
  ASSUME RowsOrdered, UNCHANGED <<nextId, project, status, state, stage, files>> PROVE RowsOrdered'
  BY DEF RowsOrdered, Available, IsPublished, Live

LEMMA CollectorSafeFrame ==
  ASSUME CollectorSafe, UNCHANGED <<gc, status, state, stage, files>> PROVE CollectorSafe'
  BY DEF CollectorSafe, Rows, Live

\* A commit leaves published rows behind, and changes no row of another project.
LEMMA CommittedRows ==
  ASSUME TypeOK, NEW i \in Ids, NEW e \in Ids
  PROVE  /\ Committed(i)[i] \in Published
         /\ e # i => \/ Committed(i)[e] = status[e]
                     \/ status[e] = "active" /\ Committed(i)[e] = "archived"
         /\ Failed(Committed(i), i) = Committed(i)
PROOF
  <1>1. CASE target[i] = "production"
    BY <1>1 DEF Committed, Activated, Failed, Published
  <1>2. CASE target[i] # "production"
    BY <1>2 DEF Committed, Failed, Published, TypeOK, RowTypes
  <1> QED BY <1>1, <1>2

\* The steps of an upload keep locks, jobs, rows and collector consistent.
LEMMA DeployingConsistent ==
  ASSUME TypeOK, Consistent, NEW a \in Actors, Deploying(a) PROVE Consistent'
PROOF
  <1>1. CASE RequestDeploy(a)
    <2>1. Locking'
      BY <1>1 DEF RequestDeploy, Goto, Locking, Consistent, Uploading, locks, process
    <2>2. JobsNewest'
      BY <1>1 DEF RequestDeploy, Goto, JobsNewest, Staged, Consistent, rows
    <2>3. JobsPending'
      BY <1>1 DEF RequestDeploy, Goto, JobsPending, Staged, Consistent, rows
    <2>4. JobsProtected'
      BY <1>1 DEF RequestDeploy, Goto, JobsProtected, MayPublish, Consistent, rows, disk
    <2> QED
      BY <1>1, <2>1, <2>2, <2>3, <2>4, RowsOrderedFrame, CollectorSafeFrame DEF
         RequestDeploy, Consistent, rows, disk, process
  <1>2. CASE TakeUploadLock(a)
    <2>1. Locking'
      BY <1>2, ConstantsAssumption DEF TakeUploadLock, Goto, Locking, Consistent, process
    <2>2. JobsNewest'
      BY <1>2 DEF TakeUploadLock, Goto, JobsNewest, Staged, Consistent, rows
    <2>3. JobsPending'
      BY <1>2 DEF TakeUploadLock, Goto, JobsPending, Staged, Consistent, rows
    <2>4. JobsProtected'
      BY <1>2 DEF TakeUploadLock, Goto, JobsProtected, MayPublish, Consistent, rows, disk
    <2> QED
      BY <1>2, <2>1, <2>2, <2>3, <2>4, RowsOrderedFrame, CollectorSafeFrame DEF
         TakeUploadLock, Consistent, rows, disk, process
  <1>3. CASE RejectDeploy(a)
    <2>1. Locking'
      BY <1>3 DEF RejectDeploy, Goto, Finish, Locking, Consistent, Uploading, TypeOK,
         RequestTypes, process
    <2>2. JobsNewest'
      BY <1>3 DEF RejectDeploy, Goto, Finish, JobsNewest, Staged, Consistent
    <2>3. JobsPending'
      BY <1>3 DEF RejectDeploy, Goto, Finish, JobsPending, Staged, Consistent
    <2>4. JobsProtected'
      BY <1>3 DEF RejectDeploy, Goto, Finish, JobsProtected, Consistent, Locking, Uploading
    <2> QED
      BY <1>3, <2>1, <2>2, <2>3, <2>4, RowsOrderedFrame, CollectorSafeFrame DEF
         RejectDeploy, Consistent, disk, process
  <1>4. ASSUME NEW p \in Projects, NEW t \in Targets, Reserve(a, p, t) PROVE Consistent'
    <2>1. Locking'
      BY <1>4 DEF Reserve, Goto, Locking, Consistent, Uploading, locks, process
    <2>2. JobsNewest'
      BY <1>4 DEF Reserve, Goto, JobsNewest, Staged, Consistent, Locking, JobsProtected,
         TypeOK, RequestTypes, RowTypes
    <2>3. JobsPending'
      BY <1>4 DEF Reserve, Goto, JobsPending, Consistent, RowsOrdered, TypeOK, RequestTypes,
         RowTypes
    <2>4. JobsProtected'
      BY <1>4 DEF Reserve, Goto, JobsProtected, Consistent, Locking, Uploading
    <2>5. RowsOrdered'
      BY <1>4 DEF Reserve, RowsOrdered, Available, IsPublished, Published, Live, Consistent,
         TypeOK, RowTypes, Ids, disk
    <2>6. CollectorSafe'
      BY <1>4 DEF Reserve, CollectorSafe, Rows, Live, Consistent, disk, process
    <2> QED BY <2>1, <2>2, <2>3, <2>4, <2>5, <2>6 DEF Consistent
  <1>5. CASE BeginStage(a)
    <2>1. Locking'
      BY <1>5 DEF BeginStage, Goto, Locking, Consistent, Uploading, locks, process
    <2>2. JobsNewest'
      BY <1>5 DEF BeginStage, Goto, JobsNewest, Staged, Consistent, rows
    <2>3. JobsPending'
      BY <1>5 DEF BeginStage, Goto, JobsPending, Staged, Consistent, rows
    <2>4. JobsProtected'
      BY <1>5 DEF BeginStage, Goto, JobsProtected, Consistent, Locking, Uploading
    <2>5. RowsOrdered'
      BY <1>5 DEF BeginStage, RowsOrdered, Available, IsPublished, Live, Consistent,
         JobsNewest, Staged, TypeOK, RowTypes, rows
    <2>6. CollectorSafe'
      BY <1>5 DEF BeginStage, CollectorSafe, Rows, Live, Consistent, JobsPending, Staged,
         rows, process
    <2> QED BY <2>1, <2>2, <2>3, <2>4, <2>5, <2>6 DEF Consistent
  <1>6. CASE FinishStage(a)
    <2>1. Locking'
      BY <1>6 DEF FinishStage, Goto, Locking, Consistent, Uploading, locks, process
    <2>2. JobsNewest'
      BY <1>6 DEF FinishStage, Goto, JobsNewest, Staged, Consistent, rows
    <2>3. JobsPending'
      BY <1>6 DEF FinishStage, Goto, JobsPending, Staged, Consistent, rows
    <2>4. JobsProtected'
      BY <1>6 DEF FinishStage, Goto, JobsProtected, MayPublish, Consistent, rows
    <2>5. RowsOrdered'
      BY <1>6 DEF FinishStage, RowsOrdered, Available, IsPublished, Live, Consistent, rows
    <2>6. CollectorSafe'
      BY <1>6 DEF FinishStage, CollectorSafe, Rows, Live, Consistent, rows, process
    <2> QED BY <2>1, <2>2, <2>3, <2>4, <2>5, <2>6 DEF Consistent
  <1>7. CASE FailUpload(a)
    <2>1. Locking'
      BY <1>7 DEF FailUpload, Goto, Locking, Consistent, Uploading, locks, process
    <2>2. JobsNewest'
      BY <1>7 DEF FailUpload, Goto, JobsNewest, Staged, Consistent
    <2>3. JobsPending'
      BY <1>7 DEF FailUpload, Goto, JobsPending, Staged, Consistent, Locking, TypeOK,
         RequestTypes
    <2>4. JobsProtected'
      BY <1>7 DEF FailUpload, Goto, JobsProtected, MayPublish, Consistent, disk
    <2>5. RowsOrdered'
      BY <1>7 DEF FailUpload, Failed, RowsOrdered, Available, IsPublished, Published, Live,
         Consistent, TypeOK, RowTypes, disk
    <2>6. CollectorSafe'
      BY <1>7 DEF FailUpload, Failed, CollectorSafe, Rows, Live, Consistent, TypeOK,
         RowTypes, disk, process
    <2> QED BY <2>1, <2>2, <2>3, <2>4, <2>5, <2>6 DEF Consistent
  <1>8. CASE RefusePublication(a)
    <2>1. Locking'
      BY <1>8 DEF RefusePublication, Goto, Locking, Consistent, Uploading, locks, process
    <2>2. JobsNewest'
      BY <1>8 DEF RefusePublication, Goto, JobsNewest, Staged, Consistent
    <2>3. JobsPending'
      BY <1>8 DEF RefusePublication, Goto, JobsPending, Staged, Consistent, Locking, TypeOK,
         RequestTypes
    <2>4. JobsProtected'
      BY <1>8 DEF RefusePublication, Goto, JobsProtected, MayPublish, Consistent, disk
    <2>5. RowsOrdered'
      BY <1>8 DEF RefusePublication, Failed, RowsOrdered, Available, IsPublished, Published,
         Live, Consistent, TypeOK, RowTypes, disk
    <2>6. CollectorSafe'
      BY <1>8 DEF RefusePublication, Failed, CollectorSafe, Rows, Live, Consistent, TypeOK,
         RowTypes, disk, process
    <2> QED BY <2>1, <2>2, <2>3, <2>4, <2>5, <2>6 DEF Consistent
  <1>9. CASE RenameArtifact(a)
    <2>1. Locking'
      BY <1>9, ConstantsAssumption DEF RenameArtifact, Goto, Locking, Consistent, Uploading,
         Quiet, process
    <2>2. JobsNewest'
      BY <1>9 DEF RenameArtifact, Goto, JobsNewest, Staged, Consistent, rows
    <2>3. JobsPending'
      BY <1>9 DEF RenameArtifact, Goto, JobsPending, Staged, Consistent, rows
    <2>4. JobsProtected'
      BY <1>9 DEF RenameArtifact, Goto, JobsProtected, MayPublish, Consistent, JobsNewest,
         Staged, TypeOK, DiskTypes, rows
    <2>5. RowsOrdered'
      BY <1>9 DEF RenameArtifact, RowsOrdered, Available, IsPublished, Live, Consistent,
         rows
    <2>6. CollectorSafe'
      BY <1>9 DEF RenameArtifact, CollectorSafe, Rows, Live, Consistent, rows, process
    <2> QED BY <2>1, <2>2, <2>3, <2>4, <2>5, <2>6 DEF Consistent
  <1>10. CASE SyncArtifact(a)
    <2>1. Locking'
      BY <1>10 DEF SyncArtifact, Goto, Locking, Consistent, Uploading, locks, process
    <2>2. JobsNewest'
      BY <1>10 DEF SyncArtifact, Goto, JobsNewest, Staged, Consistent, rows
    <2>3. JobsPending'
      BY <1>10 DEF SyncArtifact, Goto, JobsPending, Staged, Consistent, rows
    <2>4. JobsProtected'
      BY <1>10 DEF SyncArtifact, Goto, JobsProtected, MayPublish, Consistent, Locking,
         JobsNewest, Staged, TypeOK, DiskTypes, RequestTypes, rows
    <2>5. RowsOrdered'
      BY <1>10 DEF SyncArtifact, RowsOrdered, Available, IsPublished, Live, Consistent,
         JobsNewest, Staged, TypeOK, RowTypes, rows
    <2>6. CollectorSafe'
      BY <1>10, ConstantsAssumption DEF SyncArtifact, CollectorSafe, Consistent, Locking,
         process
    <2> QED BY <2>1, <2>2, <2>3, <2>4, <2>5, <2>6 DEF Consistent
  <1>11. CASE FailSync(a)
    <2>1. Locking'
      BY <1>11, ConstantsAssumption DEF FailSync, Goto, Locking, Consistent, TypeOK,
         RequestTypes, process
    <2>2. JobsNewest'
      BY <1>11 DEF FailSync, Goto, JobsNewest, Staged, Consistent
    <2>3. JobsPending'
      BY <1>11 DEF FailSync, Goto, JobsPending, Staged, Consistent, Locking, TypeOK,
         RequestTypes
    <2>4. JobsProtected'
      BY <1>11 DEF FailSync, Goto, JobsProtected, MayPublish, Consistent, disk
    <2>5. RowsOrdered'
      BY <1>11 DEF FailSync, Failed, RowsOrdered, Available, IsPublished, Published, Live,
         Consistent, TypeOK, RowTypes, disk
    <2>6. CollectorSafe'
      BY <1>11 DEF FailSync, Failed, CollectorSafe, Rows, Live, Consistent, TypeOK,
         RowTypes, disk, process
    <2> QED BY <2>1, <2>2, <2>3, <2>4, <2>5, <2>6 DEF Consistent
  <1>12. CASE Commit(a)
    <2>1. Locking'
      BY <1>12, ConstantsAssumption DEF Commit, Goto, Finish, Locking, Consistent,
         Uploading, TypeOK, RequestTypes, process
    <2>2. JobsNewest'
      BY <1>12 DEF Commit, CommitRow, Goto, Finish, JobsNewest, Staged, Consistent, TypeOK,
         RequestTypes
    <2>3. JobsPending'
      BY <1>12, CommittedRows DEF Commit, Goto, Finish, JobsPending, Staged, Consistent,
         Locking, TypeOK, RequestTypes
    <2>4. JobsProtected'
      BY <1>12 DEF Commit, CommitRow, Goto, Finish, JobsProtected, MayPublish, Consistent,
         TypeOK, RequestTypes, disk
    <2>5. RowsOrdered'
      BY <1>12, CommittedRows DEF Commit, CommitRow, RowsOrdered, Available, IsPublished,
         Published, Live, Consistent, JobsNewest, Staged, TypeOK, RowTypes, disk
    <2>6. CollectorSafe'
      BY <1>12, CommittedRows, ConstantsAssumption DEF Commit, CollectorSafe, Consistent,
         Locking, process
    <2> QED BY <2>1, <2>2, <2>3, <2>4, <2>5, <2>6 DEF Consistent
  <1>13. CASE CommitUncertain(a)
    <2>1. Locking'
      BY <1>13, ConstantsAssumption DEF CommitUncertain, Goto, Locking, Consistent, TypeOK,
         RequestTypes, process
    <2>2. JobsNewest'
      BY <1>13 DEF CommitUncertain, CommitRow, Goto, JobsNewest, Staged, Consistent
    <2>3. JobsPending'
      BY <1>13, CommittedRows DEF CommitUncertain, Goto, JobsPending, Staged, Consistent,
         Locking, TypeOK, RequestTypes
    <2>4. JobsProtected'
      BY <1>13 DEF CommitUncertain, CommitRow, Goto, JobsProtected, MayPublish, Consistent,
         disk
    <2>5. RowsOrdered'
      BY <1>13, CommittedRows DEF CommitUncertain, CommitRow, Failed, RowsOrdered,
         Available, IsPublished, Published, Live, Consistent, JobsNewest, JobsPending,
         Staged, TypeOK, RowTypes, disk
    <2>6. CollectorSafe'
      BY <1>13, CommittedRows, ConstantsAssumption DEF CommitUncertain, CollectorSafe,
         Consistent, Locking, process
    <2> QED BY <2>1, <2>2, <2>3, <2>4, <2>5, <2>6 DEF Consistent
  <1>14. CASE ClearStage(a)
    <2>1. Locking'
      BY <1>14 DEF ClearStage, Goto, Finish, Locking, Consistent, Uploading, TypeOK,
         RequestTypes, process
    <2>2. JobsNewest'
      BY <1>14 DEF ClearStage, Goto, Finish, JobsNewest, Staged, Consistent, TypeOK,
         RequestTypes, rows
    <2>3. JobsPending'
      BY <1>14 DEF ClearStage, Goto, Finish, JobsPending, Staged, Consistent, rows
    <2>4. JobsProtected'
      BY <1>14 DEF ClearStage, Leftover, Goto, Finish, JobsProtected, MayPublish,
         Consistent, rows
    <2>5. RowsOrdered'
      BY <1>14 DEF ClearStage, Leftover, RowsOrdered, Available, IsPublished, Live,
         Consistent, rows
    <2>6. CollectorSafe'
      BY <1>14 DEF ClearStage, Leftover, CollectorSafe, Rows, Live, Consistent, rows,
         process
    <2> QED BY <2>1, <2>2, <2>3, <2>4, <2>5, <2>6 DEF Consistent
  <1> QED
    BY <1>1, <1>2, <1>3, <1>4, <1>5, <1>6, <1>7, <1>8, <1>9, <1>10, <1>11, <1>12, <1>13,
       <1>14 DEF Deploying

\* So do those of a rollback or promotion,
LEMMA SwitchingConsistent ==
  ASSUME TypeOK, Consistent, NEW a \in Actors, Switching(a) PROVE Consistent'
PROOF
  <1>1. ASSUME NEW i \in Ids, NEW kind \in {"rollback", "promote"}, RequestSwitch(a, i, kind)
        PROVE  Consistent'
    <2>1. Locking'
      BY <1>1 DEF RequestSwitch, Goto, Locking, Consistent, Uploading, locks, process
    <2>2. JobsNewest'
      BY <1>1 DEF RequestSwitch, Goto, JobsNewest, Staged, Consistent, TypeOK, RequestTypes,
         rows
    <2>3. JobsPending'
      BY <1>1 DEF RequestSwitch, Goto, JobsPending, Staged, Consistent, rows
    <2>4. JobsProtected'
      BY <1>1 DEF RequestSwitch, Goto, JobsProtected, MayPublish, Consistent, rows, disk
    <2> QED
      BY <1>1, <2>1, <2>2, <2>3, <2>4, RowsOrderedFrame, CollectorSafeFrame DEF
         RequestSwitch, Consistent, rows, disk, process
  <1>2. CASE RefuseSwitch(a)
    <2>1. Locking'
      BY <1>2 DEF RefuseSwitch, Goto, Finish, Locking, Consistent, Uploading, locks, process
    <2>2. JobsNewest'
      BY <1>2 DEF RefuseSwitch, Goto, Finish, JobsNewest, Staged, Consistent, TypeOK,
         RequestTypes, rows
    <2>3. JobsPending'
      BY <1>2 DEF RefuseSwitch, Goto, Finish, JobsPending, Staged, Consistent, rows
    <2>4. JobsProtected'
      BY <1>2 DEF RefuseSwitch, Goto, Finish, JobsProtected, MayPublish, Consistent, rows,
         disk
    <2> QED
      BY <1>2, <2>1, <2>2, <2>3, <2>4, RowsOrderedFrame, CollectorSafeFrame DEF
         RefuseSwitch, Consistent, rows, disk, process
  <1>3. CASE Switch(a)
    <2>1. Locking'
      BY <1>3 DEF Switch, Goto, Finish, Locking, Consistent, Uploading, locks, process
    <2>2. JobsNewest'
      BY <1>3 DEF Switch, Goto, Finish, JobsNewest, Staged, Consistent, TypeOK, RequestTypes
    <2>3. JobsPending'
      BY <1>3 DEF Switch, Activated, Eligible, Goto, Finish, JobsPending, Staged,
         Consistent, JobsNewest, RowsOrdered
    <2>4. JobsProtected'
      BY <1>3 DEF Switch, Goto, Finish, JobsProtected, MayPublish, Consistent, disk
    <2>5. RowsOrdered'
      BY <1>3 DEF Switch, Activated, Eligible, RowsOrdered, Available, IsPublished,
         Published, Live, Consistent, disk
    <2>6. CollectorSafe'
      BY <1>3 DEF Switch, Activated, CollectorSafe, Rows, Live, Consistent, disk, process
    <2> QED BY <2>1, <2>2, <2>3, <2>4, <2>5, <2>6 DEF Consistent
  <1>4. CASE RetireArtifact(a)
    <2>1. Locking'
      BY <1>4 DEF RetireArtifact, Goto, Finish, Locking, Consistent, Uploading, locks,
         process
    <2>2. JobsNewest'
      BY <1>4 DEF RetireArtifact, Goto, Finish, JobsNewest, Staged, Consistent, TypeOK,
         RequestTypes
    <2>3. JobsPending'
      BY <1>4 DEF RetireArtifact, Eligible, Goto, Finish, JobsPending, Staged, Consistent,
         RowsOrdered, TypeOK, RowTypes
    <2>4. JobsProtected'
      BY <1>4 DEF RetireArtifact, Goto, Finish, JobsProtected, MayPublish, Consistent, disk
    <2>5. RowsOrdered'
      BY <1>4 DEF RetireArtifact, RowsOrdered, Available, IsPublished, Live, Consistent,
         disk
    <2>6. CollectorSafe'
      BY <1>4, ConstantsAssumption DEF RetireArtifact, CollectorSafe, Consistent, Locking,
         Quiet, process
    <2> QED BY <2>1, <2>2, <2>3, <2>4, <2>5, <2>6 DEF Consistent
  <1> QED
    BY <1>1, <1>2, <1>3, <1>4 DEF Switching

\* membership and deletion,
LEMMA ManagingConsistent ==
  ASSUME TypeOK, Consistent, Managing PROVE Consistent'
PROOF
  <1>1. ASSUME NEW p \in Projects, NEW a \in Actors, Grant(p, a) PROVE Consistent'
    <2>1. JobsProtected'
      BY <1>1 DEF Grant, JobsProtected, MayPublish, Consistent, disk, requests
    <2> QED
      BY <1>1, <2>1, LockingFrame, JobsNewestFrame, JobsPendingFrame, RowsOrderedFrame,
         CollectorSafeFrame DEF Grant, Consistent, disk, locks, requests, process
  <1>2. ASSUME NEW p \in Projects, NEW a \in Actors, Revoke(p, a) PROVE Consistent'
    <2>1. JobsProtected'
      BY <1>2, ConstantsAssumption DEF Revoke, JobsProtected, Consistent, Locking, Quiet,
         requests
    <2> QED
      BY <1>2, <2>1, LockingFrame, JobsNewestFrame, JobsPendingFrame, RowsOrderedFrame,
         CollectorSafeFrame DEF Revoke, Consistent, disk, locks, requests, process
  <1>3. ASSUME NEW p \in Projects, DeleteProject(p) PROVE Consistent'
    <2>1. JobsPending'
      BY <1>3 DEF DeleteProject, JobsPending, Consistent, JobsNewest, requests
    <2>2. JobsProtected'
      BY <1>3, ConstantsAssumption DEF DeleteProject, JobsProtected, Consistent, Locking,
         Quiet, requests
    <2>3. RowsOrdered'
      BY <1>3 DEF DeleteProject, RowsOrdered, Available, IsPublished, Published, Live,
         Consistent, disk
    <2>4. CollectorSafe'
      BY <1>3, ConstantsAssumption DEF DeleteProject, CollectorSafe, Consistent, Locking,
         Quiet, process
    <2> QED
      BY <1>3, <2>1, <2>2, <2>3, <2>4, LockingFrame, JobsNewestFrame DEF DeleteProject,
         Consistent, locks, requests, process
  <1> QED
    BY <1>1, <1>2, <1>3 DEF Managing

\* site requests,
LEMMA VisitingConsistent ==
  ASSUME TypeOK, Consistent, Visiting PROVE Consistent'
PROOF
  <1>1. ASSUME NEW v \in Visitors, NEW i \in Ids, BeginResponse(v, i) PROVE Consistent'
    <2>1. Locking'
      BY <1>1 DEF BeginResponse, Locking, Consistent, requests, process
    <2> QED
      BY <1>1, <2>1, JobsNewestFrame, JobsPendingFrame, JobsProtectedFrame,
         RowsOrderedFrame, CollectorSafeFrame DEF BeginResponse, Consistent, rows, disk,
         requests, process
  <1>2. ASSUME NEW v \in Visitors, EndResponse(v) PROVE Consistent'
    <2>1. Locking'
      BY <1>2 DEF EndResponse, Locking, Consistent, requests, process
    <2> QED
      BY <1>2, <2>1, JobsNewestFrame, JobsPendingFrame, JobsProtectedFrame,
         RowsOrderedFrame, CollectorSafeFrame DEF EndResponse, Consistent, rows, disk,
         requests, process
  <1> QED
    BY <1>1, <1>2 DEF Visiting

\* the collector,
LEMMA CollectingConsistent ==
  ASSUME TypeOK, Consistent, Collecting PROVE Consistent'
PROOF
  <1>1. CASE OperatorCleanup
    <2>1. Locking'
      BY <1>1, ConstantsAssumption DEF OperatorCleanup, BeginCleanup, Locking, Consistent,
         Quiet, requests
    <2>2. CollectorSafe'
      BY <1>1 DEF OperatorCleanup, BeginCleanup, IdleCollector, CollectorSafe
    <2> QED
      BY <1>1, <2>1, <2>2, JobsNewestFrame, JobsPendingFrame, JobsProtectedFrame,
         RowsOrderedFrame DEF OperatorCleanup, BeginCleanup, Consistent, rows, disk,
         requests
  <1>2. CASE Maintenance
    <2>1. Locking'
      BY <1>2, ConstantsAssumption DEF Maintenance, BeginCleanup, Locking, Consistent,
         Quiet, requests
    <2>2. CollectorSafe'
      BY <1>2 DEF Maintenance, BeginCleanup, IdleCollector, CollectorSafe
    <2> QED
      BY <1>2, <2>1, <2>2, JobsNewestFrame, JobsPendingFrame, JobsProtectedFrame,
         RowsOrderedFrame DEF Maintenance, BeginCleanup, Consistent, rows, disk, requests
  <1>3. ASSUME NEW p \in Projects, StartProject(p) PROVE Consistent'
    <2>1. Locking'
      BY <1>3 DEF StartProject, Locking, Consistent, locks, requests
    <2>2. CollectorSafe'
      BY <1>3 DEF StartProject, RowsOf, CollectorSafe, Rows, Live, rows
    <2> QED
      BY <1>3, <2>1, <2>2, JobsNewestFrame, JobsPendingFrame, JobsProtectedFrame,
         RowsOrderedFrame DEF StartProject, Consistent, rows, disk, requests
  <1>4. ASSUME NEW i \in Ids, SkipRow(i) PROVE Consistent'
    <2>1. Locking'
      BY <1>4 DEF SkipRow, Locking, Consistent, locks, requests
    <2>2. CollectorSafe'
      BY <1>4 DEF SkipRow, Scanned, CollectorSafe, Rows, Live, Consistent, rows
    <2> QED
      BY <1>4, <2>1, <2>2, JobsNewestFrame, JobsPendingFrame, JobsProtectedFrame,
         RowsOrderedFrame DEF SkipRow, Consistent, rows, disk, requests
  <1>5. ASSUME NEW i \in Ids, MarkDeleting(i) PROVE Consistent'
    <2>1. Locking'
      BY <1>5 DEF MarkDeleting, Scanned, Locking, Consistent, locks, requests
    <2>2. JobsPending'
      BY <1>5 DEF MarkDeleting, Scanned, Pinned, Rows, JobsPending, Consistent,
         CollectorSafe, Live, requests
    <2>3. RowsOrdered'
      BY <1>5 DEF MarkDeleting, Scanned, Rows, RowsOrdered, Available, IsPublished, Live,
         Consistent, CollectorSafe, disk
    <2>4. CollectorSafe'
      BY <1>5 DEF MarkDeleting, Scanned, Rows, CollectorSafe, Live, Consistent, TypeOK,
         RowTypes
    <2> QED
      BY <1>5, <2>1, <2>2, <2>3, <2>4, JobsNewestFrame, JobsProtectedFrame DEF MarkDeleting,
         Consistent, disk, requests
  <1>6. ASSUME NEW i \in Ids, RemoveTrees(i) PROVE Consistent'
    <2>1. Locking'
      BY <1>6 DEF RemoveTrees, Locking, Consistent, locks, requests
    <2>2. JobsProtected'
      BY <1>6, ConstantsAssumption DEF RemoveTrees, JobsProtected, Consistent, Locking,
         requests
    <2>3. RowsOrdered'
      BY <1>6 DEF RemoveTrees, RowsOrdered, Available, IsPublished, Live, Consistent, rows
    <2>4. CollectorSafe'
      BY <1>6 DEF RemoveTrees, CollectorSafe, Rows, Live, Consistent, TypeOK, DiskTypes,
         rows
    <2> QED
      BY <1>6, <2>1, <2>2, <2>3, <2>4, JobsNewestFrame, JobsPendingFrame DEF RemoveTrees,
         Consistent, rows, requests
  <1>7. ASSUME NEW i \in Ids, FailRemove(i) PROVE Consistent'
    <2>1. Locking'
      BY <1>7 DEF FailRemove, Locking, Consistent, locks, requests
    <2>2. JobsProtected'
      BY <1>7, ConstantsAssumption DEF FailRemove, JobsProtected, Consistent, Locking,
         requests
    <2>3. RowsOrdered'
      BY <1>7 DEF FailRemove, Leftover, RowsOrdered, Available, IsPublished, Live,
         Consistent, rows
    <2>4. CollectorSafe'
      BY <1>7 DEF FailRemove, CollectorSafe, Rows, Live, Consistent, rows
    <2> QED
      BY <1>7, <2>1, <2>2, <2>3, <2>4, JobsNewestFrame, JobsPendingFrame DEF FailRemove,
         Consistent, rows, requests
  <1>8. ASSUME NEW i \in Ids, SettleRow(i) PROVE Consistent'
    <2>1. Locking'
      BY <1>8 DEF SettleRow, Locking, Consistent, locks, requests
    <2>2. JobsPending'
      BY <1>8 DEF SettleRow, JobsPending, Consistent, JobsNewest, CollectorSafe, TypeOK,
         RowTypes, requests
    <2>3. RowsOrdered'
      BY <1>8 DEF SettleRow, RowsOrdered, Available, IsPublished, Live, Consistent,
         CollectorSafe, TypeOK, RowTypes, disk
    <2>4. CollectorSafe'
      BY <1>8 DEF SettleRow, CollectorSafe, Rows, Live, Consistent
    <2> QED
      BY <1>8, <2>1, <2>2, <2>3, <2>4, JobsNewestFrame, JobsProtectedFrame DEF SettleRow,
         Consistent, disk, requests
  <1>9. ASSUME NEW i \in Ids, SweepOrphan(i) PROVE Consistent'
    <2>1. JobsProtected'
      BY <1>9, ConstantsAssumption DEF SweepOrphan, JobsProtected, Consistent, Locking,
         requests
    <2>2. RowsOrdered'
      BY <1>9 DEF SweepOrphan, Leftover, RowsOrdered, Available, IsPublished, Live,
         Consistent, rows
    <2>3. CollectorSafe'
      BY <1>9 DEF SweepOrphan, CollectorSafe, Rows, Live, Consistent, rows, process
    <2> QED
      BY <1>9, <2>1, <2>2, <2>3, LockingFrame, JobsNewestFrame, JobsPendingFrame DEF
         SweepOrphan, Consistent, rows, locks, requests, process
  <1>10. CASE EndProject
    <2>1. Locking'
      BY <1>10 DEF EndProject, Locking, Consistent, locks, requests
    <2>2. CollectorSafe'
      BY <1>10 DEF EndProject, CollectorSafe
    <2> QED
      BY <1>10, <2>1, <2>2, JobsNewestFrame, JobsPendingFrame, JobsProtectedFrame,
         RowsOrderedFrame DEF EndProject, Consistent, rows, disk, requests
  <1>11. CASE StartSweep
    <2>1. Locking'
      BY <1>11 DEF StartSweep, Locking, Consistent, locks, requests
    <2>2. CollectorSafe'
      BY <1>11 DEF StartSweep, CollectorSafe, Rows, Live, Consistent, rows
    <2> QED
      BY <1>11, <2>1, <2>2, JobsNewestFrame, JobsPendingFrame, JobsProtectedFrame,
         RowsOrderedFrame DEF StartSweep, Consistent, rows, disk, requests
  <1>12. CASE EndCleanup
    <2>1. Locking'
      BY <1>12, ConstantsAssumption DEF EndCleanup, IdleCollector, Locking, Consistent,
         requests
    <2>2. CollectorSafe'
      BY <1>12 DEF EndCleanup, IdleCollector, CollectorSafe
    <2> QED
      BY <1>12, <2>1, <2>2, JobsNewestFrame, JobsPendingFrame, JobsProtectedFrame,
         RowsOrderedFrame DEF EndCleanup, Consistent, rows, disk, requests
  <1> QED
    BY <1>1, <1>2, <1>3, <1>4, <1>5, <1>6, <1>7, <1>8, <1>9, <1>10, <1>11, <1>12 DEF
       Collecting

\* crashes and recovery,
LEMMA RecoveringConsistent ==
  ASSUME TypeOK, Consistent, Recovering PROVE Consistent'
PROOF
  <1>1. CASE Crash
    <2>1. Locking'
      BY <1>1 DEF Crash, IdleCollector, Locking, Uploading
    <2>2. JobsNewest'
      BY <1>1 DEF Crash, JobsNewest, Staged
    <2>3. JobsPending'
      BY <1>1 DEF Crash, JobsPending, Staged
    <2>4. JobsProtected'
      BY <1>1 DEF Crash, JobsProtected
    <2>5. RowsOrdered'
      BY <1>1 DEF Crash, RowsOrdered, Available, IsPublished, Live, Consistent, rows
    <2>6. CollectorSafe'
      BY <1>1 DEF Crash, IdleCollector, CollectorSafe
    <2> QED BY <2>1, <2>2, <2>3, <2>4, <2>5, <2>6 DEF Consistent
  <1>2. CASE Start
    <2>1. Locking'
      BY <1>2 DEF Start, Locking, Consistent, locks, requests
    <2> QED
      BY <1>2, <2>1, JobsNewestFrame, JobsPendingFrame, JobsProtectedFrame,
         RowsOrderedFrame, CollectorSafeFrame DEF Start, Consistent, rows, disk, requests
  <1>3. CASE Listen
    <2>1. Locking'
      BY <1>3 DEF Listen, Locking, Consistent, locks, requests
    <2> QED
      BY <1>3, <2>1, JobsNewestFrame, JobsPendingFrame, JobsProtectedFrame,
         RowsOrderedFrame, CollectorSafeFrame DEF Listen, Consistent, rows, disk, requests
  <1>4. ASSUME NEW i \in Ids, RecoverAvailable(i) PROVE Consistent'
    <2>1. JobsPending'
      BY <1>4 DEF RecoverAvailable, NextToRecover, JobsPending, Staged, Consistent, Locking,
         requests
    <2>2. RowsOrdered'
      BY <1>4 DEF RecoverAvailable, RowsOrdered, Available, IsPublished, Live, Consistent,
         TypeOK, RowTypes, disk
    <2>3. CollectorSafe'
      BY <1>4 DEF RecoverAvailable, NextToRecover, CollectorSafe, Consistent, Locking
    <2> QED
      BY <1>4, <2>1, <2>2, <2>3, LockingFrame, JobsNewestFrame, JobsProtectedFrame DEF
         RecoverAvailable, Consistent, disk, locks, requests
  <1>5. ASSUME NEW i \in Ids, RecoverUploading(i) PROVE Consistent'
    <2>1. JobsPending'
      BY <1>5 DEF RecoverUploading, NextToRecover, JobsPending, Staged, Consistent, Locking,
         requests
    <2>2. RowsOrdered'
      BY <1>5 DEF RecoverUploading, Failed, RowsOrdered, Available, IsPublished, Published,
         Live, Consistent, JobsNewest, disk
    <2>3. CollectorSafe'
      BY <1>5 DEF RecoverUploading, Failed, CollectorSafe, Rows, Live, Consistent, disk
    <2> QED
      BY <1>5, <2>1, <2>2, <2>3, LockingFrame, JobsNewestFrame, JobsProtectedFrame DEF
         RecoverUploading, Consistent, disk, locks, requests
  <1>6. ASSUME NEW i \in Ids, RecoverTombstone(i) PROVE Consistent'
    <2>1. JobsPending'
      BY <1>6 DEF RecoverTombstone, NextToRecover, JobsPending, Staged, Consistent, Locking,
         requests
    <2>2. JobsProtected'
      BY <1>6 DEF RecoverTombstone, NextToRecover, JobsProtected, Consistent, Locking,
         requests
    <2>3. RowsOrdered'
      BY <1>6 DEF RecoverTombstone, Tombstone, RowsOrdered, Available, IsPublished, Live,
         Consistent, TypeOK, DiskTypes, RowTypes
    <2>4. CollectorSafe'
      BY <1>6 DEF RecoverTombstone, NextToRecover, CollectorSafe, Consistent, Locking
    <2> QED
      BY <1>6, <2>1, <2>2, <2>3, <2>4, LockingFrame, JobsNewestFrame DEF RecoverTombstone,
         Consistent, locks, requests
  <1>7. ASSUME NEW i \in Ids, RecoverNothing(i) PROVE Consistent'
    BY <1>7, LockingFrame, JobsNewestFrame, JobsPendingFrame, JobsProtectedFrame,
       RowsOrderedFrame, CollectorSafeFrame DEF RecoverNothing, Consistent, rows, disk,
       locks, requests
  <1> QED
    BY <1>1, <1>2, <1>3, <1>4, <1>5, <1>6, <1>7 DEF Recovering

\* and what happens outside.
LEMMA EnvironmentConsistent ==
  ASSUME TypeOK, Consistent, Environment PROVE Consistent'
PROOF
  <1>1. ASSUME NEW i \in Ids, Age(i) PROVE Consistent'
    BY <1>1, LockingFrame, JobsNewestFrame, JobsPendingFrame, JobsProtectedFrame,
       RowsOrderedFrame, CollectorSafeFrame DEF Age, Consistent, rows, disk, locks,
       requests, process
  <1>2. ASSUME NEW i \in Ids, Damage(i) PROVE Consistent'
    <2>1. JobsProtected'
      BY <1>2 DEF Damage, JobsProtected, MayPublish, Consistent, rows, requests
    <2>2. RowsOrdered'
      BY <1>2 DEF Damage, RowsOrdered, Available, IsPublished, Live, Consistent, rows
    <2>3. CollectorSafe'
      BY <1>2 DEF Damage, CollectorSafe, Rows, Live, Consistent, rows, process
    <2> QED
      BY <1>2, <2>1, <2>2, <2>3, LockingFrame, JobsNewestFrame, JobsPendingFrame DEF Damage,
         Consistent, rows, locks, requests, process
  <1> QED
    BY <1>1, <1>2 DEF Environment

LEMMA InitConsistent == Init => Consistent
  BY DEF Init, IdleCollector, Consistent, Locking, JobsNewest, JobsPending, JobsProtected,
     RowsOrdered, CollectorSafe, Uploading, Staged, Available, IsPublished, Published, Live

LEMMA NextConsistent == TypeOK /\ Consistent /\ [Next]_vars => Consistent'
PROOF
  <1>1. ASSUME Consistent, UNCHANGED vars PROVE Consistent'
    BY <1>1, LockingFrame, JobsNewestFrame, JobsPendingFrame, JobsProtectedFrame,
       RowsOrderedFrame, CollectorSafeFrame DEF vars, rows, disk, locks, requests, process,
       Consistent
  <1> QED
    BY <1>1, DeployingConsistent, SwitchingConsistent, ManagingConsistent,
       VisitingConsistent, CollectingConsistent, RecoveringConsistent, EnvironmentConsistent
       DEF Next

\* Whatever the number of users, visitors, projects, rows and crashes, locks, jobs, rows
\* and collector agree in every reachable state.
THEOREM ConsistentAlways == Spec => []Consistent
PROOF
  <1>1. Init => TypeOK /\ Consistent
    BY InitTypes, InitConsistent
  <1>2. TypeOK /\ Consistent /\ [Next]_vars => (TypeOK /\ Consistent)'
    BY NextTypes, NextConsistent
  <1> QED BY <1>1, <1>2, PTL DEF Spec

-----------------------------------------------------------------------------
(***************************************************************************)
(* The effects of a step on rows, trees and responses                      *)
(***************************************************************************)
deployments == <<project, target, status, state, alias>>
Unread(i) == \A v \in Visitors : serving[v] # i

Reserved ==
  \E p \in Projects, t \in Targets :
    /\ nextId \in Ids
    /\ project' = [project EXCEPT ![nextId] = p]
    /\ target' = [target EXCEPT ![nextId] = t]
    /\ status' = [status EXCEPT ![nextId] = "uploading"]
    /\ UNCHANGED <<state, alias>>

GivenUp ==
  \E i \in Ids : status' = Failed(status, i) /\ UNCHANGED <<project, target, state, alias>>

CommittedJob ==
  \E a \in Actors :
    /\ pc[a] = "committing"
    /\ CommitRow(job[a]) /\ status' = Committed(job[a])
    /\ UNCHANGED disk

ActivatedJob ==
  \E a \in Actors :
    /\ job[a] \in Ids /\ MayPublish(a, project[job[a]])
    /\ Available(job[a]) /\ IsPublished(job[a])
    /\ status' = Activated(job[a])
    /\ UNCHANGED <<project, target, state, alias>>

Moved(i, s) == state' = [state EXCEPT ![i] = s] /\ UNCHANGED <<project, target, status, alias>>

Lost == \E i \in Ids : Available(i) /\ Unread(i) /\ Moved(i, "missing")

Condemned ==
  \E i \in Rows : ~Pinned(i) /\ state[i] # "deleted" /\ Unread(i) /\ Moved(i, "deleting")

Settled ==
  \E i \in Ids :
    /\ state[i] = "deleting" /\ Moved(i, "deleted")
    /\ stage'[i] = "none" /\ files'[i] = "none"

Dropped ==
  \E p \in Projects :
    /\ life'[p] = "deleted"
    /\ \A v \in Visitors : serving[v] = None
    /\ status' = [i \in Ids |-> IF project[i] = p THEN "absent" ELSE status[i]]
    /\ state' = [i \in Ids |-> IF project[i] = p THEN "pending" ELSE state[i]]
    /\ alias' = [alias EXCEPT ![p] = [b \in Branches |-> None]]
    /\ UNCHANGED <<project, target, disk>>

RowEffect ==
  \/ UNCHANGED deployments \/ Reserved \/ GivenUp \/ CommittedJob \/ ActivatedJob
  \/ Lost \/ Condemned \/ Settled \/ Dropped

Touched(i) == \A e \in Ids \ {i} : stage'[e] = stage[e] /\ files'[e] = files[e]

\* An upload works on its own trees, which no row points to yet.
WorkedOn == \E i \in Ids : state[i] = "pending" /\ state'[i] = "pending" /\ Touched(i)

ClearedStage ==
  \E i \in Ids : Touched(i) /\ stage'[i] \in Leftover(stage[i]) /\ files'[i] = files[i]

Removed ==
  \E i \in Ids :
    /\ ~Available(i) /\ ~Available(i)' /\ Touched(i)
    /\ stage'[i] \in Leftover(stage[i]) /\ files'[i] \in Leftover(files[i])

\* A crash moves nothing that was renamed and fsynced, and brings nothing back.
Survived ==
  \A i \in Ids : files[i] # "volatile" =>
    files'[i] = files[i] /\ (stage[i] = "none" => stage'[i] = "none")

Damaged ==
  \E i \in Ids : files[i] = "durable" /\ files'[i] = "damaged" /\ stage'[i] = stage[i] /\ Touched(i)

DiskEffect ==
  UNCHANGED disk \/ WorkedOn \/ ClearedStage \/ Removed \/ Survived \/ Damaged

\* A response begins on an available deployment and goes on with it until it ends.
ServingEffect ==
  \A v \in Visitors :
    \/ serving'[v] \in {serving[v], None}
    \/ serving'[v] \in Ids /\ Available(serving'[v]) /\ UNCHANGED <<deployments, disk>>

\* Every step has one effect on the rows, one on the trees and one on the responses.
LEMMA DeployingEffects ==
  ASSUME TypeOK, Consistent, NEW a \in Actors, Deploying(a)
  PROVE  RowEffect /\ DiskEffect /\ ServingEffect
PROOF
  <1>1. CASE RequestDeploy(a)
    BY <1>1 DEF RequestDeploy, RowEffect, deployments, DiskEffect, ServingEffect, rows,
       locks
  <1>2. CASE TakeUploadLock(a)
    BY <1>2 DEF TakeUploadLock, RowEffect, deployments, DiskEffect, ServingEffect, rows
  <1>3. CASE RejectDeploy(a)
    BY <1>3 DEF RejectDeploy, RowEffect, deployments, DiskEffect, ServingEffect
  <1>4. ASSUME NEW p \in Projects, NEW t \in Targets, Reserve(a, p, t)
        PROVE  RowEffect /\ DiskEffect /\ ServingEffect
    <2>1. RowEffect
      BY <1>4 DEF Reserve, RowEffect, Reserved
    <2>2. DiskEffect
      BY <1>4 DEF Reserve, DiskEffect
    <2>3. ServingEffect
      BY <1>4 DEF Reserve, ServingEffect, locks
    <2> QED BY <2>1, <2>2, <2>3
  <1>5. CASE BeginStage(a)
    <2>1. RowEffect
      BY <1>5 DEF BeginStage, RowEffect, deployments, rows
    <2>2. DiskEffect
      <3>1. job[a] \in Ids /\ state[job[a]] = "pending" /\ state'[job[a]] = "pending" /\ Touched(job[a])
        BY <1>5 DEF BeginStage, Touched, Consistent, JobsNewest, JobsPending, Staged, rows
      <3> QED
        BY <3>1 DEF WorkedOn, DiskEffect
    <2>3. ServingEffect
      BY <1>5 DEF BeginStage, ServingEffect, locks
    <2> QED BY <2>1, <2>2, <2>3
  <1>6. CASE FinishStage(a)
    <2>1. RowEffect
      BY <1>6 DEF FinishStage, RowEffect, deployments, rows
    <2>2. DiskEffect
      <3>1. job[a] \in Ids /\ state[job[a]] = "pending" /\ state'[job[a]] = "pending" /\ Touched(job[a])
        BY <1>6 DEF FinishStage, Touched, Consistent, JobsNewest, JobsPending, Staged, rows
      <3> QED
        BY <3>1 DEF WorkedOn, DiskEffect
    <2>3. ServingEffect
      BY <1>6 DEF FinishStage, ServingEffect, locks
    <2> QED BY <2>1, <2>2, <2>3
  <1>7. CASE FailUpload(a)
    <2>1. RowEffect
      BY <1>7 DEF FailUpload, RowEffect, GivenUp, deployments, Consistent, JobsNewest,
         Staged
    <2>2. DiskEffect
      BY <1>7 DEF FailUpload, DiskEffect
    <2>3. ServingEffect
      BY <1>7 DEF FailUpload, ServingEffect, locks
    <2> QED BY <2>1, <2>2, <2>3
  <1>8. CASE RefusePublication(a)
    <2>1. RowEffect
      BY <1>8 DEF RefusePublication, RowEffect, GivenUp, deployments, Consistent,
         JobsNewest, Staged
    <2>2. DiskEffect
      BY <1>8 DEF RefusePublication, DiskEffect
    <2>3. ServingEffect
      BY <1>8 DEF RefusePublication, ServingEffect, locks
    <2> QED BY <2>1, <2>2, <2>3
  <1>9. CASE RenameArtifact(a)
    <2>1. RowEffect
      BY <1>9 DEF RenameArtifact, RowEffect, deployments, rows
    <2>2. DiskEffect
      <3>1. job[a] \in Ids /\ state[job[a]] = "pending" /\ state'[job[a]] = "pending" /\ Touched(job[a])
        BY <1>9 DEF RenameArtifact, Touched, Consistent, JobsNewest, JobsPending, Staged,
           rows
      <3> QED
        BY <3>1 DEF WorkedOn, DiskEffect
    <2>3. ServingEffect
      BY <1>9 DEF RenameArtifact, ServingEffect
    <2> QED BY <2>1, <2>2, <2>3
  <1>10. CASE SyncArtifact(a)
    <2>1. RowEffect
      BY <1>10 DEF SyncArtifact, RowEffect, deployments, rows
    <2>2. DiskEffect
      <3>1. job[a] \in Ids /\ state[job[a]] = "pending" /\ state'[job[a]] = "pending" /\ Touched(job[a])
        BY <1>10 DEF SyncArtifact, Touched, Consistent, JobsNewest, JobsPending, Staged,
           rows
      <3> QED
        BY <3>1 DEF WorkedOn, DiskEffect
    <2>3. ServingEffect
      BY <1>10 DEF SyncArtifact, ServingEffect, locks
    <2> QED BY <2>1, <2>2, <2>3
  <1>11. CASE FailSync(a)
    <2>1. RowEffect
      BY <1>11 DEF FailSync, RowEffect, GivenUp, deployments, Consistent, JobsNewest, Staged
    <2>2. DiskEffect
      BY <1>11 DEF FailSync, DiskEffect
    <2>3. ServingEffect
      BY <1>11 DEF FailSync, ServingEffect
    <2> QED BY <2>1, <2>2, <2>3
  <1>12. CASE Commit(a)
    <2>1. RowEffect
      BY <1>12 DEF Commit, RowEffect, CommittedJob
    <2>2. DiskEffect
      BY <1>12 DEF Commit, DiskEffect
    <2>3. ServingEffect
      BY <1>12 DEF Commit, ServingEffect
    <2> QED BY <2>1, <2>2, <2>3
  <1>13. CASE CommitUncertain(a)
    <2>1. RowEffect
      <3>1. \/ pc[a] = "committing" /\ CommitRow(job[a]) /\ status' = Committed(job[a]) /\ UNCHANGED disk
            \/ /\ job[a] \in Ids /\ status' \in {status, Failed(status, job[a])}
               /\ UNCHANGED <<project, target, state, alias>>
        BY <1>13, CommittedRows DEF CommitUncertain, Consistent, JobsNewest, Staged
      <3> QED
        BY <3>1 DEF CommittedJob, GivenUp, RowEffect, deployments
    <2>2. DiskEffect
      BY <1>13 DEF CommitUncertain, DiskEffect
    <2>3. ServingEffect
      BY <1>13 DEF CommitUncertain, ServingEffect
    <2> QED BY <2>1, <2>2, <2>3
  <1>14. CASE ClearStage(a)
    <2>1. RowEffect
      BY <1>14 DEF ClearStage, RowEffect, deployments, rows
    <2>2. DiskEffect
      <3>1. /\ job[a] \in Ids /\ Touched(job[a])
            /\ stage'[job[a]] \in Leftover(stage[job[a]]) /\ files'[job[a]] = files[job[a]]
        BY <1>14 DEF ClearStage, Touched, Consistent, JobsNewest, TypeOK, DiskTypes
      <3> QED
        BY <3>1 DEF ClearedStage, DiskEffect
    <2>3. ServingEffect
      BY <1>14 DEF ClearStage, ServingEffect
    <2> QED BY <2>1, <2>2, <2>3
  <1> QED
    BY <1>1, <1>2, <1>3, <1>4, <1>5, <1>6, <1>7, <1>8, <1>9, <1>10, <1>11, <1>12, <1>13,
       <1>14 DEF Deploying

LEMMA SwitchingEffects ==
  ASSUME TypeOK, Consistent, NEW a \in Actors, Switching(a)
  PROVE  RowEffect /\ DiskEffect /\ ServingEffect
PROOF
  <1>1. ASSUME NEW i \in Ids, NEW kind \in {"rollback", "promote"}, RequestSwitch(a, i, kind)
        PROVE  RowEffect /\ DiskEffect /\ ServingEffect
    BY <1>1 DEF RequestSwitch, RowEffect, deployments, DiskEffect, ServingEffect, rows,
       locks
  <1>2. CASE RefuseSwitch(a)
    BY <1>2 DEF RefuseSwitch, RowEffect, deployments, DiskEffect, ServingEffect, rows, locks
  <1>3. CASE Switch(a)
    <2>1. RowEffect
      <3>1. /\ job[a] \in Ids /\ MayPublish(a, project[job[a]])
            /\ Available(job[a]) /\ IsPublished(job[a])
            /\ status' = Activated(job[a]) /\ UNCHANGED <<project, target, state, alias>>
        BY <1>3 DEF Switch, Eligible, IsPublished, Published, Consistent, JobsNewest
      <3> QED
        BY <3>1 DEF ActivatedJob, RowEffect
    <2>2. DiskEffect
      BY <1>3 DEF Switch, DiskEffect
    <2>3. ServingEffect
      BY <1>3 DEF Switch, ServingEffect, locks
    <2> QED BY <2>1, <2>2, <2>3
  <1>4. CASE RetireArtifact(a)
    <2>1. RowEffect
      <3>1. job[a] \in Ids /\ Available(job[a]) /\ Unread(job[a]) /\ Moved(job[a], "missing")
        BY <1>4, ConstantsAssumption DEF RetireArtifact, Moved, Unread, Eligible,
           Consistent, JobsNewest, Quiet, Ids
      <3> QED
        BY <3>1 DEF Lost, RowEffect
    <2>2. DiskEffect
      BY <1>4 DEF RetireArtifact, DiskEffect
    <2>3. ServingEffect
      BY <1>4 DEF RetireArtifact, ServingEffect, locks
    <2> QED BY <2>1, <2>2, <2>3
  <1> QED
    BY <1>1, <1>2, <1>3, <1>4 DEF Switching

LEMMA ManagingEffects ==
  ASSUME TypeOK, Consistent, Managing
  PROVE  RowEffect /\ DiskEffect /\ ServingEffect
PROOF
  <1>1. ASSUME NEW p \in Projects, NEW a \in Actors, Grant(p, a)
        PROVE  RowEffect /\ DiskEffect /\ ServingEffect
    BY <1>1 DEF Grant, RowEffect, deployments, DiskEffect, ServingEffect, locks
  <1>2. ASSUME NEW p \in Projects, NEW a \in Actors, Revoke(p, a)
        PROVE  RowEffect /\ DiskEffect /\ ServingEffect
    BY <1>2 DEF Revoke, RowEffect, deployments, DiskEffect, ServingEffect, locks
  <1>3. ASSUME NEW p \in Projects, DeleteProject(p)
        PROVE  RowEffect /\ DiskEffect /\ ServingEffect
    <2>1. RowEffect
      <3>1. /\ life'[p] = "deleted"
            /\ \A v \in Visitors : serving[v] = None
            /\ status' = [i \in Ids |-> IF project[i] = p THEN "absent" ELSE status[i]]
            /\ state' = [i \in Ids |-> IF project[i] = p THEN "pending" ELSE state[i]]
            /\ alias' = [alias EXCEPT ![p] = [b \in Branches |-> None]]
            /\ UNCHANGED <<project, target, disk>>
        BY <1>3 DEF DeleteProject, TypeOK, RowTypes, Quiet
      <3> QED
        BY <3>1 DEF Dropped, RowEffect
    <2>2. DiskEffect
      BY <1>3 DEF DeleteProject, DiskEffect
    <2>3. ServingEffect
      BY <1>3 DEF DeleteProject, ServingEffect, locks
    <2> QED BY <2>1, <2>2, <2>3
  <1> QED
    BY <1>1, <1>2, <1>3 DEF Managing

LEMMA VisitingEffects ==
  ASSUME TypeOK, Consistent, Visiting
  PROVE  RowEffect /\ DiskEffect /\ ServingEffect
PROOF
  <1>1. ASSUME NEW v \in Visitors, NEW i \in Ids, BeginResponse(v, i)
        PROVE  RowEffect /\ DiskEffect /\ ServingEffect
    <2>1. RowEffect
      BY <1>1 DEF BeginResponse, RowEffect, deployments, rows
    <2>2. DiskEffect
      BY <1>1 DEF BeginResponse, DiskEffect
    <2>3. ServingEffect
      BY <1>1 DEF BeginResponse, ServingEffect, Selectable, deployments, rows
    <2> QED BY <2>1, <2>2, <2>3
  <1>2. ASSUME NEW v \in Visitors, EndResponse(v)
        PROVE  RowEffect /\ DiskEffect /\ ServingEffect
    <2>1. RowEffect
      BY <1>2 DEF EndResponse, RowEffect, deployments, rows
    <2>2. DiskEffect
      BY <1>2 DEF EndResponse, DiskEffect
    <2>3. ServingEffect
      BY <1>2 DEF EndResponse, ServingEffect
    <2> QED BY <2>1, <2>2, <2>3
  <1> QED
    BY <1>1, <1>2 DEF Visiting

LEMMA CollectingEffects ==
  ASSUME TypeOK, Consistent, Collecting
  PROVE  RowEffect /\ DiskEffect /\ ServingEffect
PROOF
  <1>1. CASE OperatorCleanup
    BY <1>1 DEF OperatorCleanup, BeginCleanup, RowEffect, deployments, DiskEffect,
       ServingEffect, rows
  <1>2. CASE Maintenance
    BY <1>2 DEF Maintenance, BeginCleanup, RowEffect, deployments, DiskEffect,
       ServingEffect, rows
  <1>3. ASSUME NEW p \in Projects, StartProject(p)
        PROVE  RowEffect /\ DiskEffect /\ ServingEffect
    BY <1>3 DEF StartProject, RowEffect, deployments, DiskEffect, ServingEffect, rows, locks
  <1>4. ASSUME NEW i \in Ids, SkipRow(i) PROVE RowEffect /\ DiskEffect /\ ServingEffect
    BY <1>4 DEF SkipRow, RowEffect, deployments, DiskEffect, ServingEffect, rows, locks
  <1>5. ASSUME NEW i \in Ids, MarkDeleting(i)
        PROVE  RowEffect /\ DiskEffect /\ ServingEffect
    <2>1. RowEffect
      <3>1. i \in Rows /\ ~Pinned(i) /\ state[i] # "deleted" /\ Unread(i) /\ Moved(i, "deleting")
        BY <1>5, ConstantsAssumption DEF MarkDeleting, Moved, Unread, Scanned, Consistent,
           Locking, CollectorSafe, Ids
      <3> QED
        BY <3>1 DEF Condemned, RowEffect
    <2>2. DiskEffect
      BY <1>5 DEF MarkDeleting, DiskEffect
    <2>3. ServingEffect
      BY <1>5 DEF MarkDeleting, ServingEffect, locks
    <2> QED BY <2>1, <2>2, <2>3
  <1>6. ASSUME NEW i \in Ids, RemoveTrees(i)
        PROVE  RowEffect /\ DiskEffect /\ ServingEffect
    <2>1. RowEffect
      BY <1>6 DEF RemoveTrees, RowEffect, deployments, rows
    <2>2. DiskEffect
      <3>1. /\ ~Available(i) /\ ~Available(i)' /\ Touched(i)
            /\ stage'[i] \in Leftover(stage[i]) /\ files'[i] \in Leftover(files[i])
        BY <1>6 DEF RemoveTrees, Touched, Leftover, Available, Consistent, CollectorSafe,
           TypeOK, DiskTypes, rows
      <3> QED
        BY <3>1 DEF Removed, DiskEffect
    <2>3. ServingEffect
      BY <1>6 DEF RemoveTrees, ServingEffect, locks
    <2> QED BY <2>1, <2>2, <2>3
  <1>7. ASSUME NEW i \in Ids, FailRemove(i) PROVE RowEffect /\ DiskEffect /\ ServingEffect
    <2>1. RowEffect
      BY <1>7 DEF FailRemove, RowEffect, deployments, rows
    <2>2. DiskEffect
      <3>1. /\ ~Available(i) /\ ~Available(i)' /\ Touched(i)
            /\ stage'[i] \in Leftover(stage[i]) /\ files'[i] \in Leftover(files[i])
        BY <1>7 DEF FailRemove, Touched, Available, Consistent, CollectorSafe, TypeOK,
           DiskTypes, rows
      <3> QED
        BY <3>1 DEF Removed, DiskEffect
    <2>3. ServingEffect
      BY <1>7 DEF FailRemove, ServingEffect, locks
    <2> QED BY <2>1, <2>2, <2>3
  <1>8. ASSUME NEW i \in Ids, SettleRow(i) PROVE RowEffect /\ DiskEffect /\ ServingEffect
    <2>1. RowEffect
      BY <1>8 DEF SettleRow, RowEffect, Settled, Moved, deployments, Consistent,
         CollectorSafe, disk
    <2>2. DiskEffect
      BY <1>8 DEF SettleRow, DiskEffect
    <2>3. ServingEffect
      BY <1>8 DEF SettleRow, ServingEffect, locks
    <2> QED BY <2>1, <2>2, <2>3
  <1>9. ASSUME NEW i \in Ids, SweepOrphan(i)
        PROVE  RowEffect /\ DiskEffect /\ ServingEffect
    <2>1. RowEffect
      BY <1>9 DEF SweepOrphan, RowEffect, deployments, rows
    <2>2. DiskEffect
      <3>1. /\ ~Available(i) /\ ~Available(i)' /\ Touched(i)
            /\ stage'[i] \in Leftover(stage[i]) /\ files'[i] \in Leftover(files[i])
        BY <1>9 DEF SweepOrphan, Touched, Available, Orphan, Live, Consistent, RowsOrdered,
           TypeOK, DiskTypes, rows
      <3> QED
        BY <3>1 DEF Removed, DiskEffect
    <2>3. ServingEffect
      BY <1>9 DEF SweepOrphan, ServingEffect, locks
    <2> QED BY <2>1, <2>2, <2>3
  <1>10. CASE EndProject
    BY <1>10 DEF EndProject, RowEffect, deployments, DiskEffect, ServingEffect, rows, locks
  <1>11. CASE StartSweep
    BY <1>11 DEF StartSweep, RowEffect, deployments, DiskEffect, ServingEffect, rows, locks
  <1>12. CASE EndCleanup
    BY <1>12 DEF EndCleanup, RowEffect, deployments, DiskEffect, ServingEffect, rows
  <1> QED
    BY <1>1, <1>2, <1>3, <1>4, <1>5, <1>6, <1>7, <1>8, <1>9, <1>10, <1>11, <1>12 DEF
       Collecting

LEMMA RecoveringEffects ==
  ASSUME TypeOK, Consistent, Recovering
  PROVE  RowEffect /\ DiskEffect /\ ServingEffect
PROOF
  <1>1. CASE Crash
    <2>1. RowEffect
      BY <1>1 DEF Crash, RowEffect, deployments, rows
    <2>2. DiskEffect
      BY <1>1 DEF Crash, DiskEffect, Survived
    <2>3. ServingEffect
      BY <1>1 DEF Crash, ServingEffect
    <2> QED BY <2>1, <2>2, <2>3
  <1>2. CASE Start
    BY <1>2 DEF Start, RowEffect, deployments, DiskEffect, ServingEffect, rows, locks
  <1>3. CASE Listen
    BY <1>3 DEF Listen, RowEffect, deployments, DiskEffect, ServingEffect, rows, locks
  <1>4. ASSUME NEW i \in Ids, RecoverAvailable(i)
        PROVE  RowEffect /\ DiskEffect /\ ServingEffect
    <2>1. RowEffect
      <3>1. UNCHANGED deployments \/ (Available(i) /\ Unread(i) /\ Moved(i, "missing"))
        BY <1>4, ConstantsAssumption DEF RecoverAvailable, Moved, Unread, deployments,
           Consistent, Locking, NextToRecover, Ids
      <3> QED
        BY <3>1 DEF Lost, RowEffect
    <2>2. DiskEffect
      BY <1>4 DEF RecoverAvailable, DiskEffect
    <2>3. ServingEffect
      BY <1>4 DEF RecoverAvailable, ServingEffect, locks
    <2> QED BY <2>1, <2>2, <2>3
  <1>5. ASSUME NEW i \in Ids, RecoverUploading(i)
        PROVE  RowEffect /\ DiskEffect /\ ServingEffect
    <2>1. RowEffect
      BY <1>5 DEF RecoverUploading, RowEffect, GivenUp
    <2>2. DiskEffect
      BY <1>5 DEF RecoverUploading, DiskEffect
    <2>3. ServingEffect
      BY <1>5 DEF RecoverUploading, ServingEffect, locks
    <2> QED BY <2>1, <2>2, <2>3
  <1>6. ASSUME NEW i \in Ids, RecoverTombstone(i)
        PROVE  RowEffect /\ DiskEffect /\ ServingEffect
    <2>1. RowEffect
      <3>1. \/ UNCHANGED deployments
            \/ /\ state[i] = "deleting" /\ Moved(i, "deleted")
               /\ stage'[i] = "none" /\ files'[i] = "none"
        BY <1>6 DEF RecoverTombstone, Moved, deployments, Tombstone, TypeOK, DiskTypes
      <3> QED
        BY <3>1 DEF Settled, RowEffect
    <2>2. DiskEffect
      <3>1. /\ ~Available(i) /\ ~Available(i)' /\ Touched(i)
            /\ stage'[i] \in Leftover(stage[i]) /\ files'[i] \in Leftover(files[i])
        BY <1>6 DEF RecoverTombstone, Touched, Available, Tombstone, Leftover, TypeOK,
           RowTypes, DiskTypes
      <3> QED
        BY <3>1 DEF Removed, DiskEffect
    <2>3. ServingEffect
      BY <1>6 DEF RecoverTombstone, ServingEffect, locks
    <2> QED BY <2>1, <2>2, <2>3
  <1>7. ASSUME NEW i \in Ids, RecoverNothing(i)
        PROVE  RowEffect /\ DiskEffect /\ ServingEffect
    BY <1>7 DEF RecoverNothing, RowEffect, deployments, DiskEffect, ServingEffect, rows,
       locks
  <1> QED
    BY <1>1, <1>2, <1>3, <1>4, <1>5, <1>6, <1>7 DEF Recovering

LEMMA EnvironmentEffects ==
  ASSUME TypeOK, Consistent, Environment
  PROVE  RowEffect /\ DiskEffect /\ ServingEffect
PROOF
  <1>1. ASSUME NEW i \in Ids, Age(i) PROVE RowEffect /\ DiskEffect /\ ServingEffect
    BY <1>1 DEF Age, RowEffect, deployments, DiskEffect, ServingEffect, rows, locks
  <1>2. ASSUME NEW i \in Ids, Damage(i) PROVE RowEffect /\ DiskEffect /\ ServingEffect
    <2>1. RowEffect
      BY <1>2 DEF Damage, RowEffect, deployments, rows
    <2>2. DiskEffect
      <3>1. files[i] = "durable" /\ files'[i] = "damaged" /\ stage'[i] = stage[i] /\ Touched(i)
        BY <1>2 DEF Damage, Touched, TypeOK, DiskTypes
      <3> QED
        BY <3>1 DEF Damaged, DiskEffect
    <2>3. ServingEffect
      BY <1>2 DEF Damage, ServingEffect, locks
    <2> QED BY <2>1, <2>2, <2>3
  <1> QED
    BY <1>1, <1>2 DEF Environment

LEMMA Effects ==
  ASSUME TypeOK, Consistent, [Next]_vars PROVE RowEffect /\ DiskEffect /\ ServingEffect
PROOF
  <1>1. CASE UNCHANGED vars
    BY <1>1 DEF vars, rows, locks, deployments, RowEffect, DiskEffect, ServingEffect
  <1> QED
    BY <1>1, DeployingEffects, SwitchingEffects, ManagingEffects, VisitingEffects,
       CollectingEffects, RecoveringEffects, EnvironmentEffects DEF Next

-----------------------------------------------------------------------------
(***************************************************************************)
(* The properties                                                          *)
(***************************************************************************)

\* Moving the production pointer retires the other production rows of that project.
LEMMA ActivatedRows ==
  ASSUME TypeOK, NEW i \in Ids, NEW e \in Ids
  PROVE  /\ Activated(i)[i] = "active"
         /\ e # i /\ project[e] = project[i] /\ status[e] = "active" => Activated(i)[e] = "archived"
         /\ e # i /\ (project[e] # project[i] \/ status[e] # "active") => Activated(i)[e] = status[e]
  BY DEF Activated

LEMMA CommittedJobRow ==
  ASSUME Consistent, NEW a \in Actors, pc[a] = "committing"
  PROVE  /\ job[a] \in Ids /\ job[a] = nextId - 1 /\ MayPublish(a, project[job[a]])
         /\ stage[job[a]] = "none" /\ files[job[a]] \in {"durable", "damaged"}
  BY DEF Consistent, JobsNewest, JobsProtected, Staged

LEMMA CompleteStep ==
  ASSUME TypeOK, Consistent, PublishedIsComplete, [Next]_vars PROVE PublishedIsComplete'
PROOF
  <1> SUFFICES ASSUME NEW i \in Ids, Available(i)'
               PROVE  (files[i] \in {"durable", "damaged"} /\ stage[i] = "none")'
    BY DEF PublishedIsComplete
  <1>1. RowEffect /\ DiskEffect
    BY Effects
  <1>2. Available(i) \/ (UNCHANGED disk /\ \E a \in Actors : pc[a] = "committing" /\ job[a] = i)
    BY <1>1 DEF RowEffect, deployments, Reserved, GivenUp, CommittedJob, CommitRow,
       ActivatedJob, Lost, Condemned, Settled, Dropped, Moved, Available, TypeOK, RowTypes
  <1>3. CASE Available(i)
    <2>1. files[i] \in {"durable", "damaged"} /\ stage[i] = "none"
      BY <1>3 DEF PublishedIsComplete
    <2> QED
      BY <1>1, <1>3, <2>1 DEF DiskEffect, disk, WorkedOn, ClearedStage, Removed, Survived,
         Damaged, Touched, Leftover, Available
  <1>4. CASE UNCHANGED disk /\ \E a \in Actors : pc[a] = "committing" /\ job[a] = i
    BY <1>4, CommittedJobRow DEF disk
  <1> QED BY <1>2, <1>3, <1>4

LEMMA ReadersStep ==
  ASSUME TypeOK, Consistent, PublishedIsComplete, ReadersUndisturbed, [Next]_vars
  PROVE  ReadersUndisturbed'
PROOF
  <1>1. RowEffect /\ ServingEffect
    BY Effects
  <1>2. ASSUME NEW v \in Visitors, serving'[v] # None
        PROVE  serving'[v] \in Ids /\ state'[serving'[v]] = "available"
    <2>1. CASE serving'[v] = serving[v]
      <3>1. serving[v] \in Ids /\ Available(serving[v])
        BY <1>2, <2>1 DEF ReadersUndisturbed, TypeOK, LockTypes
      <3>2. state'[serving[v]] = "available"
        BY <1>1, <1>2, <2>1, <3>1, CommittedJobRow DEF RowEffect, deployments, Reserved,
           GivenUp, CommittedJob, CommitRow, ActivatedJob, Lost, Condemned, Settled,
           Dropped, Moved, Unread, Available, TypeOK, RowTypes
      <3> QED BY <2>1, <3>1, <3>2
    <2>2. CASE serving'[v] \in Ids /\ Available(serving'[v]) /\ UNCHANGED <<deployments, disk>>
      BY <2>2 DEF deployments, Available
    <2> QED
      BY <1>1, <1>2, <2>1, <2>2 DEF ServingEffect
  <1>3. PublishedIsComplete'
    BY CompleteStep
  <1> QED
    BY <1>2, <1>3 DEF ReadersUndisturbed, PublishedIsComplete, Available

LEMMA OneProductionStep ==
  ASSUME TypeOK, Consistent, OneProduction, [Next]_vars PROVE OneProduction'
PROOF
  <1>1. RowEffect
    BY Effects
  <1>2. CASE UNCHANGED deployments
    BY <1>2 DEF deployments, OneProduction
  <1>3. CASE Reserved
    BY <1>3 DEF Reserved, OneProduction, TypeOK, RowTypes
  <1>4. CASE GivenUp
    BY <1>4 DEF GivenUp, Failed, OneProduction
  <1>5. CASE CommittedJob
    BY <1>5, CommittedJobRow, ActivatedRows DEF CommittedJob, CommitRow, Committed,
       OneProduction
  <1>6. CASE ActivatedJob
    BY <1>6, ActivatedRows DEF ActivatedJob, OneProduction
  <1>7. CASE Lost \/ Condemned \/ Settled
    BY <1>7 DEF Lost, Condemned, Settled, Moved, OneProduction
  <1>8. CASE Dropped
    BY <1>8 DEF Dropped, OneProduction
  <1> QED
    BY <1>1, <1>2, <1>3, <1>4, <1>5, <1>6, <1>7, <1>8 DEF RowEffect

LEMMA AliasesStep ==
  ASSUME TypeOK, Consistent, AliasesResolve, [Next]_vars PROVE AliasesResolve'
PROOF
  <1>1. RowEffect
    BY Effects
  <1>2. CASE UNCHANGED deployments
    BY <1>2 DEF deployments, AliasesResolve, IsPublished
  <1>3. CASE Reserved
    BY <1>3 DEF Reserved, AliasesResolve, IsPublished, Consistent, RowsOrdered, TypeOK,
       RowTypes
  <1>4. CASE GivenUp
    BY <1>4 DEF GivenUp, Failed, AliasesResolve, IsPublished, Published
  <1>5. CASE CommittedJob
    <2>1. PICK a \in Actors :
            pc[a] = "committing" /\ CommitRow(job[a]) /\ status' = Committed(job[a])
      BY <1>5 DEF CommittedJob
    <2>2. \A e \in Ids : IsPublished(e) \/ e = job[a] => IsPublished(e)'
      BY <2>1, CommittedJobRow, CommittedRows DEF IsPublished, Published
    <2> QED
      BY <2>1, <2>2, CommittedJobRow DEF CommitRow, AliasesResolve, TypeOK, RowTypes
  <1>6. CASE ActivatedJob
    <2>1. \A e \in Ids : IsPublished(e) => IsPublished(e)'
      BY <1>6, ActivatedRows DEF ActivatedJob, IsPublished, Published
    <2> QED
      BY <1>6, <2>1 DEF ActivatedJob, AliasesResolve, TypeOK, RowTypes
  <1>7. CASE Lost \/ Condemned \/ Settled
    BY <1>7 DEF Lost, Condemned, Settled, Moved, AliasesResolve, IsPublished, Pinned,
       Referenced, TypeOK, RowTypes
  <1>8. CASE Dropped
    BY <1>8 DEF Dropped, AliasesResolve, IsPublished, TypeOK, RowTypes
  <1> QED
    BY <1>1, <1>2, <1>3, <1>4, <1>5, <1>6, <1>7, <1>8 DEF RowEffect

LEMMA TombstonesStep ==
  ASSUME TypeOK, Consistent, AliasesResolve, TombstonesUnpinned, [Next]_vars
  PROVE  TombstonesUnpinned'
PROOF
  <1>1. RowEffect
    BY Effects
  <1>2. TypeOK' /\ AliasesResolve'
    BY NextTypes, AliasesStep
  <1> SUFFICES ASSUME NEW i \in Ids, state'[i] \in {"deleting", "deleted"}
               PROVE  status'[i] \notin {"active", "uploading"}
    <2>1. \A i \in Ids, p \in Projects, b \in Branches :
            alias'[p][b] = i => state'[i] \in {"available", "missing"}
      BY <1>2, ConstantsAssumption DEF AliasesResolve, Ids
    <2> QED
      BY <2>1 DEF TombstonesUnpinned, Rows
  <1>3. CASE UNCHANGED deployments
    BY <1>3 DEF deployments, TombstonesUnpinned, Rows, Live
  <1>4. CASE Reserved
    BY <1>4 DEF Reserved, TombstonesUnpinned, Rows, Live, Consistent, RowsOrdered, TypeOK,
       RowTypes
  <1>5. CASE GivenUp
    BY <1>5 DEF GivenUp, Failed, TombstonesUnpinned, Rows, Live
  <1>6. CASE CommittedJob
    BY <1>6, CommittedJobRow, CommittedRows DEF CommittedJob, CommitRow, TombstonesUnpinned,
       Rows, Live
  <1>7. CASE ActivatedJob
    BY <1>7, ActivatedRows DEF ActivatedJob, Available, TombstonesUnpinned, Rows, Live
  <1>8. CASE Lost \/ Condemned \/ Settled
    BY <1>8 DEF Lost, Condemned, Settled, Moved, Pinned, TombstonesUnpinned, Rows, Live,
       TypeOK, RowTypes
  <1>9. CASE Dropped
    BY <1>9 DEF Dropped, TombstonesUnpinned, Rows, Live
  <1> QED
    BY <1>1, <1>3, <1>4, <1>5, <1>6, <1>7, <1>8, <1>9 DEF RowEffect

LEMMA ReclaimedStep ==
  ASSUME TypeOK, Consistent, DeletedIsReclaimed, [Next]_vars PROVE DeletedIsReclaimed'
PROOF
  <1> SUFFICES ASSUME NEW i \in Ids, state'[i] = "deleted"
               PROVE  stage'[i] = "none" /\ files'[i] = "none"
    BY DEF DeletedIsReclaimed, Rows
  <1>1. RowEffect /\ DiskEffect
    BY Effects
  <1>2. state[i] = "deleted" \/ (stage'[i] = "none" /\ files'[i] = "none")
    BY <1>1 DEF RowEffect, deployments, Reserved, GivenUp, CommittedJob, CommitRow,
       ActivatedJob, Lost, Condemned, Settled, Dropped, Moved, TypeOK, RowTypes
  <1>3. CASE state[i] = "deleted"
    <2>1. stage[i] = "none" /\ files[i] = "none"
      BY <1>3 DEF DeletedIsReclaimed, Rows, Live, Consistent, RowsOrdered
    <2> QED
      BY <1>1, <1>3, <2>1 DEF DiskEffect, disk, WorkedOn, ClearedStage, Removed, Survived,
         Damaged, Touched, Leftover
  <1> QED BY <1>2, <1>3

LEMMA InitInvariant == Init => IInv
  BY InitTypes, InitConsistent DEF Init, IInv, PublishedIsComplete, ReadersUndisturbed,
     OneProduction, TombstonesUnpinned, DeletedIsReclaimed, AliasesResolve, Available, Rows

\* The inductive invariant of DeploymentInvariant, in every reachable state.
THEOREM Inductive == Spec => []IInv
PROOF
  <1>1. IInv /\ [Next]_vars => IInv'
    BY NextTypes, NextConsistent, CompleteStep, ReadersStep, OneProductionStep, AliasesStep,
       TombstonesStep, ReclaimedStep DEF IInv
  <1> QED BY <1>1, InitInvariant, PTL DEF Spec

\* What SQLite calls available is published, fsynced and whole, over every interleaving of
\* uploads, switches, collections, deletions and crashes.
THEOREM CompleteAlways == Spec => []PublishedIsComplete
  BY Inductive, PTL DEF IInv

\* No response loses its files or its row under its hands.
THEOREM ReadersAlways == Spec => []ReadersUndisturbed
  BY Inductive, PTL DEF IInv

\* The unique index on active rows is never in the way of a publication.
THEOREM OneProductionAlways == Spec => []OneProduction
  BY Inductive, PTL DEF IInv

\* Recovery never meets a tombstone it would have to refuse.
THEOREM TombstonesAlways == Spec => []TombstonesUnpinned
  BY Inductive, PTL DEF IInv

\* A finished tombstone hides no files.
THEOREM ReclaimedAlways == Spec => []DeletedIsReclaimed
  BY Inductive, PTL DEF IInv

\* A branch alias never dangles, crosses projects, or points to collected files.
THEOREM AliasesAlways == Spec => []AliasesResolve
  BY Inductive, PTL DEF IInv

\* Nobody becomes production, and nothing a preview, without the permission of that moment.
THEOREM PublisherAlways == Spec => PublishedByPublisher
PROOF
  <1>1. ASSUME TypeOK, Consistent, [Next]_vars, NEW i \in Ids, Promotes(i)
        PROVE  \E a \in Actors :
                 job[a] = i /\ (a = Owner \/ a \in members[project[i]]) /\ life[project[i]] = "live"
    <2>1. RowEffect
      BY <1>1, Effects
    <2>2. CASE CommittedJob
      BY <1>1, <2>2, CommittedJobRow, CommittedRows DEF CommittedJob, Promotes, MayPublish
    <2>3. CASE ActivatedJob
      BY <1>1, <2>3, ActivatedRows DEF ActivatedJob, Promotes, MayPublish
    <2>4. CASE UNCHANGED deployments \/ Lost \/ Condemned \/ Settled
      BY <1>1, <2>4 DEF deployments, Lost, Condemned, Settled, Moved, Promotes
    <2>5. CASE Reserved \/ GivenUp \/ Dropped
      BY <1>1, <2>5 DEF Reserved, GivenUp, Failed, Dropped, Promotes, TypeOK, RowTypes
    <2> QED BY <2>1, <2>2, <2>3, <2>4, <2>5 DEF RowEffect
  <1>2. TypeOK /\ Consistent /\ [Next]_vars =>
          [\A i \in Ids : Promotes(i) =>
             \E a \in Actors :
               job[a] = i /\ (a = Owner \/ a \in members[project[i]]) /\ life[project[i]] = "live"]_vars
    BY <1>1
  <1> QED BY <1>2, TypeCorrect, ConsistentAlways, PTL DEF Spec, PublishedByPublisher

\* An upload never overtakes one that was reserved after it.
THEOREM ForwardAlways == Spec => UploadsMoveForward
PROOF
  <1>1. ASSUME TypeOK, Consistent, [Next]_vars, NEW i \in Ids, NEW e \in Ids,
               status[i] = "uploading", status'[i] \in Published, e > i, project[e] = project[i]
        PROVE  status[e] \notin Published
    <2>1. RowEffect
      BY <1>1, Effects
    <2>2. CASE CommittedJob
      <3>1. e >= nextId
        BY <1>1, <2>2, CommittedJobRow, CommittedRows DEF CommittedJob, Published, Ids,
           TypeOK, RowTypes
      <3> QED
        BY <1>1, <3>1 DEF Consistent, RowsOrdered, Published
    <2>3. CASE ActivatedJob
      BY <1>1, <2>3, ActivatedRows DEF ActivatedJob, IsPublished, Published
    <2>4. CASE UNCHANGED deployments \/ Lost \/ Condemned \/ Settled
      BY <1>1, <2>4 DEF deployments, Lost, Condemned, Settled, Moved, Published
    <2>5. CASE Reserved \/ GivenUp \/ Dropped
      BY <1>1, <2>5 DEF Reserved, GivenUp, Failed, Dropped, Published, TypeOK, RowTypes
    <2> QED BY <2>1, <2>2, <2>3, <2>4, <2>5 DEF RowEffect
  <1>2. TypeOK /\ Consistent /\ [Next]_vars =>
          [\A i, e \in Ids :
             status[i] = "uploading" /\ status'[i] \in Published /\ e > i /\ project[e] = project[i]
               => status[e] \notin Published]_vars
    BY <1>1
  <1> QED BY <1>2, TypeCorrect, ConsistentAlways, PTL DEF Spec, UploadsMoveForward

\* No step brings back what failed, was lost, was collected or was deleted.
THEOREM NoResurrectionAlways == Spec => NoResurrection
PROOF
  <1>1. ASSUME TypeOK, Consistent, [Next]_vars, NEW i \in Ids PROVE ~Resurrects(i)
    <2>1. RowEffect
      BY <1>1, Effects
    <2>2. CASE CommittedJob
      BY <1>1, <2>2, CommittedJobRow, CommittedRows DEF CommittedJob, CommitRow, Resurrects
    <2>3. CASE ActivatedJob
      BY <1>1, <2>3, ActivatedRows DEF ActivatedJob, IsPublished, Published, Resurrects
    <2>4. CASE UNCHANGED deployments \/ Lost \/ Condemned \/ Settled
      BY <1>1, <2>4 DEF deployments, Lost, Condemned, Settled, Moved, Resurrects, Available,
         TypeOK, RowTypes
    <2>5. CASE Reserved \/ GivenUp
      BY <1>1, <2>5 DEF Reserved, GivenUp, Failed, Resurrects, Consistent, RowsOrdered,
         TypeOK, RowTypes
    <2>6. CASE Dropped
      BY <1>1, <2>6 DEF Dropped, Resurrects
    <2> QED BY <2>1, <2>2, <2>3, <2>4, <2>5, <2>6 DEF RowEffect
  <1>2. TypeOK /\ Consistent /\ [Next]_vars => [\A i \in Ids : ~Resurrects(i)]_vars
    BY <1>1
  <1> QED BY <1>2, TypeCorrect, ConsistentAlways, PTL DEF Spec, NoResurrection

\* A project keeps a production row until it is deleted, and a version that works until the
\* artifact of that row is found unusable.
THEOREM ProductionAlways == Spec => ProductionKept
PROOF
  <1>1. ASSUME TypeOK, Consistent, [Next]_vars, NEW p \in Projects, life'[p] # "deleted",
               NEW i \in ProductionRows(p)
        PROVE  \/ /\ status'[i] = "active" /\ project'[i] = p
                  /\ state[i] = "available" => state'[i] \in {"available", "missing"}
               \/ \E e \in Ids : /\ status'[e] = "active" /\ project'[e] = p
                                 /\ state'[e] = "available"
    <2>1. RowEffect
      BY <1>1, Effects
    <2>2. i \in Ids /\ status[i] = "active" /\ project[i] = p
      BY <1>1 DEF ProductionRows
    <2>3. ASSUME NEW a \in Actors, pc[a] = "committing", CommitRow(job[a]),
                 status' = Committed(job[a])
          PROVE  \/ status'[i] = "active" /\ project'[i] = p /\ state'[i] = state[i]
                 \/ /\ status'[job[a]] = "active" /\ project'[job[a]] = p
                    /\ state'[job[a]] = "available"
      <3>1. job[a] \in Ids /\ job[a] # i
        BY <1>1, <2>2, <2>3, CommittedJobRow DEF CommitRow
      <3>2. /\ state'[i] = state[i] /\ state'[job[a]] = "available" /\ project' = project
        BY <1>1, <2>2, <2>3, <3>1 DEF CommitRow, TypeOK, RowTypes
      <3>3. CASE status' = Activated(job[a])
        BY <1>1, <2>2, <3>1, <3>2, <3>3, ActivatedRows
      <3>4. CASE status' = [status EXCEPT ![job[a]] = "preview"]
        BY <1>1, <2>2, <3>1, <3>2, <3>4 DEF TypeOK, RowTypes
      <3> QED BY <2>3, <3>3, <3>4 DEF Committed
    <2>4. CASE CommittedJob
      BY <1>1, <2>3, <2>4, CommittedJobRow DEF CommittedJob
    <2>5. CASE ActivatedJob
      BY <1>1, <2>2, <2>5, ActivatedRows DEF ActivatedJob, Available
    <2>6. CASE UNCHANGED deployments \/ Lost \/ Condemned \/ Settled
      <3>1. CASE UNCHANGED deployments
        BY <2>2, <3>1 DEF deployments
      <3>2. ASSUME NEW e \in Ids, NEW s, Moved(e, s), s = "missing" \/ e # i
            PROVE  /\ status'[i] = "active" /\ project'[i] = p
                   /\ state'[i] \in {state[i], "missing"}
        BY <1>1, <2>2, <3>2 DEF Moved, TypeOK, RowTypes
      <3>3. CASE Lost
        BY <3>2, <3>3 DEF Lost
      <3>4. CASE Condemned
        BY <2>2, <3>2, <3>4 DEF Condemned, Pinned, Rows
      <3>5. CASE Settled
        <4>1. PICK e \in Ids : state[e] = "deleting" /\ Moved(e, "deleted")
          BY <3>5 DEF Settled
        <4>2. CASE e = i
          BY <2>2, <4>1, <4>2 DEF Moved
        <4> QED BY <3>2, <4>1, <4>2
      <3> QED BY <2>6, <3>1, <3>3, <3>4, <3>5
    <2>7. CASE Reserved \/ GivenUp
      BY <1>1, <2>2, <2>7 DEF Reserved, GivenUp, Failed, Consistent, RowsOrdered, TypeOK,
         RowTypes
    <2>8. CASE Dropped
      BY <1>1, <2>2, <2>8 DEF Dropped
    <2> QED BY <2>1, <2>4, <2>5, <2>6, <2>7, <2>8 DEF RowEffect
  <1>2. ASSUME TypeOK, Consistent, [Next]_vars, NEW p \in Projects, life'[p] # "deleted"
        PROVE  KeepsProduction(p)
    <2>1. ASSUME ProductionRows(p) # {} PROVE ProductionRows(p)' # {}
      BY <1>1, <1>2, <2>1 DEF ProductionRows
    <2>2. ASSUME ShowsProduction(p) PROVE ShowsProduction(p)' \/ LosesProduction(p)
      <3>1. PICK i \in ProductionRows(p) : state[i] = "available"
        BY <2>2 DEF ShowsProduction, Available
      <3>2. CASE status'[i] = "active" /\ project'[i] = p /\ state'[i] = "missing"
        BY <3>1, <3>2 DEF LosesProduction, Available
      <3>3. CASE \E e \in Ids : /\ status'[e] = "active" /\ project'[e] = p
                                /\ state'[e] = "available"
        BY <3>3 DEF ShowsProduction, ProductionRows, Available
      <3>4. i \in Ids
        BY DEF ProductionRows
      <3> QED BY <1>1, <1>2, <3>1, <3>2, <3>3, <3>4
    <2> QED BY <2>1, <2>2 DEF KeepsProduction
  <1>3. TypeOK /\ Consistent /\ [Next]_vars =>
          [\A p \in Projects : life'[p] # "deleted" => KeepsProduction(p)]_vars
    BY <1>2
  <1> QED BY <1>3, TypeCorrect, ConsistentAlways, PTL DEF Spec, ProductionKept

-----------------------------------------------------------------------------
(***************************************************************************)
(* Retention.  A pass ranks the rows of a project from the newest on, and  *)
(* its rank goes on counting versions that it condemns.  What makes that   *)
(* right is Ranked: they come only after as many that stay.                *)
(***************************************************************************)

\* The newer versions of i's project that can be served.
Newer(i) ==
  {e \in Ids : e > i /\ project[e] = project[i] /\ status[e] \in Published /\ Available(e)}

\* The rank of a pass counts versions it has condemned too, but only after so many that
\* stay: of every row it has still to look at, enough newer versions are left.
Ranked ==
  gc.pc \in {"scan", "remove", "settle"} =>
    /\ \A i, e \in gc.todo : project[i] = project[e]
    /\ gc.keep > 0 => \A i \in gc.todo :
         Cardinality(Newer(i)) >= gc.rank \/ Cardinality(Newer(i)) >= gc.keep

LEMMA NewerFinite ==
  /\ \A i \in Ids : IsFiniteSet(Newer(i)) /\ Cardinality(Newer(i)) \in Nat
  /\ \A i \in Ids : IsFiniteSet(Newer(i)') /\ Cardinality(Newer(i)') \in Nat
PROOF
  <1>1. IsFiniteSet(Ids)
    BY FS_Interval, ConstantsAssumption DEF Ids
  <1>2. \A i \in Ids : Newer(i) \subseteq Ids /\ Newer(i)' \subseteq Ids
    BY DEF Newer
  <1> QED BY <1>1, <1>2, FS_Subset, FS_CardinalityType

\* While a pass is under way nothing else takes a version away.
LEMMA PassUndisturbed ==
  ASSUME TypeOK, Consistent, gc.pc # "idle", [Next]_vars, ~Collecting
  PROVE  \/ gc' = IdleCollector
         \/ /\ gc' = gc
            /\ \A i \in Ids : /\ project'[i] = project[i] \/ status[i] = "absent"
                              /\ state[i] = "available" /\ status[i] \in Published =>
                                   state'[i] = "available" /\ status'[i] \in Published
PROOF
  <1>1. ~Quiet /\ power = "up"
    BY ConstantsAssumption DEF Quiet, Consistent, Locking, TypeOK, PowerTypes
  <1>2. ASSUME NEW a \in Actors, Deploying(a)
        PROVE  /\ gc' = gc
               /\ \A i \in Ids : /\ project'[i] = project[i] \/ status[i] = "absent"
                                 /\ state[i] = "available" /\ status[i] \in Published =>
                                      state'[i] = "available" /\ status'[i] \in Published
    <2>1. gc' = gc
      BY <1>2 DEF Deploying, RequestDeploy, TakeUploadLock, RejectDeploy, Reserve, BeginStage,
         FinishStage, FailUpload, RefusePublication, RenameArtifact, SyncArtifact, FailSync,
         Commit, CommitUncertain, ClearStage, process
    <2>2. pc[a] # "committing"
      BY ConstantsAssumption DEF Consistent, Locking, TypeOK, RequestTypes
    <2>3. CASE \E p \in Projects, t \in Targets : Reserve(a, p, t)
      BY <1>1, <2>3 DEF Reserve
    <2>4. CASE ~\E p \in Projects, t \in Targets : Reserve(a, p, t)
      <3>1. UNCHANGED <<project, state>> /\ (status' = status \/ status' = Failed(status, job[a]))
        BY <1>2, <2>2, <2>4 DEF Deploying, RequestDeploy, TakeUploadLock, RejectDeploy, BeginStage,
           FinishStage, FailUpload, RefusePublication, RenameArtifact, SyncArtifact, FailSync,
           Commit, CommitUncertain, ClearStage, rows
      <3> QED BY <2>1, <3>1 DEF Failed, Published, TypeOK, RowTypes
    <2> QED BY <2>3, <2>4
  <1>3. ASSUME NEW a \in Actors, Switching(a) PROVE UNCHANGED <<gc, project, status, state>>
    BY <1>1, <1>3 DEF Switching, RequestSwitch, RefuseSwitch, Switch, RetireArtifact, rows, process
  <1>4. ~Managing
    BY <1>1 DEF Managing, Grant, Revoke, DeleteProject
  <1>5. CASE Visiting
    BY <1>5 DEF Visiting, BeginResponse, EndResponse, rows, process
  <1>6. CASE Recovering
    BY <1>1, <1>6 DEF Recovering, Crash, Start, Listen, RecoverAvailable, RecoverUploading,
       RecoverTombstone, RecoverNothing, NextToRecover
  <1>7. CASE Environment
    BY <1>7 DEF Environment, Age, Damage, rows, process
  <1>8. CASE UNCHANGED vars
    BY <1>8 DEF vars, rows, process
  <1> QED BY <1>2, <1>3, <1>4, <1>5, <1>6, <1>7, <1>8 DEF Next

\* A row is looked at when it is the newest left, and the next ones are older.
LEMMA NewerGrows ==
  ASSUME NEW i \in Ids, NEW e \in Ids, e < i, project'[e] = project[i],
         UNCHANGED <<project, status>>,
         \A k \in Ids : k # i => state'[k] = state[k]
  PROVE  /\ Cardinality(Newer(e)') >= Cardinality(Newer(i))
         /\ Available(i) /\ Available(i)' /\ IsPublished(i) =>
              Cardinality(Newer(e)') >= Cardinality(Newer(i)) + 1
PROOF
  <1>1. Newer(i) \subseteq Newer(e)' /\ i \notin Newer(i)
    BY DEF Newer, Available, Ids
  <1>2. Cardinality(Newer(e)') >= Cardinality(Newer(i))
    BY <1>1, NewerFinite, FS_Subset
  <1>3. ASSUME Available(i), Available(i)', IsPublished(i)
        PROVE  Cardinality(Newer(e)') >= Cardinality(Newer(i)) + 1
    <2>1. Newer(i) \cup {i} \subseteq Newer(e)'
      BY <1>1, <1>3 DEF Newer, IsPublished
    <2>2. IsFiniteSet(Newer(i) \cup {i}) /\ Cardinality(Newer(i) \cup {i}) = Cardinality(Newer(i)) + 1
      BY <1>1, NewerFinite, FS_AddElement
    <2> QED BY <2>1, <2>2, NewerFinite, FS_Subset
  <1> QED BY <1>2, <1>3

LEMMA SpareRank ==
  ASSUME TypeOK, NEW i \in Ids, ~Spared(i), Available(i), IsPublished(i), ~Pinned(i)
  PROVE  /\ gc.keep > 0 => gc.rank >= gc.keep
         /\ gc.days => i \in old
  BY DEF Spared, RankOf, Available, TypeOK, CollectorType

LEMMA ScanRanked ==
  ASSUME TypeOK, Consistent, Ranked, NEW i \in Ids, SkipRow(i) \/ MarkDeleting(i) PROVE Ranked'
PROOF
  <1>1. /\ gc.pc = "scan" /\ i \in gc.todo /\ (\A e \in gc.todo : e <= i) /\ gc.todo \subseteq Ids
        /\ gc'.todo = gc.todo \ {i} /\ gc'.rank = RankOf(i) /\ gc'.keep = gc.keep
        /\ gc.rank \in Nat /\ gc.keep \in Nat
    BY DEF SkipRow, MarkDeleting, Scanned, TypeOK, CollectorType
  <1>2. UNCHANGED <<project, status>> /\ \A k \in Ids : k # i => state'[k] = state[k]
    BY DEF SkipRow, MarkDeleting, rows, TypeOK, RowTypes
  <1>3. ASSUME NEW e \in gc'.todo, gc.keep > 0
        PROVE  Cardinality(Newer(e)') >= gc'.rank \/ Cardinality(Newer(e)') >= gc.keep
    <2>1. e \in Ids /\ e < i /\ project'[e] = project[i]
      BY <1>1, <1>2, <1>3 DEF Ranked, Ids
    <2>2. Cardinality(Newer(i)) >= gc.rank \/ Cardinality(Newer(i)) >= gc.keep
      BY <1>1, <1>3 DEF Ranked
    <2>3. /\ Cardinality(Newer(e)') \in Nat /\ Cardinality(Newer(i)) \in Nat
          /\ Cardinality(Newer(e)') >= Cardinality(Newer(i))
      BY <1>2, <2>1, NewerGrows, NewerFinite
    <2>4. CASE ~(Available(i) /\ IsPublished(i))
      BY <1>1, <2>2, <2>3, <2>4 DEF RankOf
    <2>5. CASE SkipRow(i) /\ Available(i) /\ IsPublished(i)
      <3>1. Available(i)'
        BY <2>5 DEF SkipRow, rows, Available
      <3>2. Cardinality(Newer(e)') >= Cardinality(Newer(i)) + 1
        BY <1>2, <2>1, <2>5, <3>1, NewerGrows
      <3> QED BY <1>1, <2>2, <2>3, <2>5, <3>2 DEF RankOf
    <2>6. CASE MarkDeleting(i) /\ Available(i) /\ IsPublished(i)
      <3>1. gc.rank >= gc.keep
        BY <1>3, <2>6, SpareRank DEF MarkDeleting
      <3> QED BY <1>1, <2>2, <2>3, <3>1
    <2> QED BY <2>4, <2>5, <2>6
  <1> QED BY <1>1, <1>2, <1>3 DEF Ranked

\* What a pass does beside looking at rows changes neither its rank nor what counts.
LEMMA CollectRanked ==
  ASSUME TypeOK, Consistent, Ranked, Collecting PROVE Ranked'
PROOF
  <1>1. CASE OperatorCleanup \/ Maintenance \/ EndProject \/ StartSweep \/ EndCleanup
    <2>1. ASSUME OperatorCleanup \/ Maintenance PROVE gc'.pc = "next"
      <3>1. PICK ps, keep, days, sweep : BeginCleanup(ps, keep, days, sweep)
        BY <2>1 DEF OperatorCleanup, Maintenance
      <3> QED BY <3>1 DEF BeginCleanup, IdleCollector
    <2>2. ASSUME EndProject \/ StartSweep PROVE gc'.pc \in {"next", "sweep"}
      BY <2>2 DEF EndProject, StartSweep, TypeOK, CollectorType
    <2>3. ASSUME EndCleanup PROVE gc'.pc = "idle"
      BY <2>3 DEF EndCleanup, IdleCollector
    <2>4. gc'.pc \notin {"scan", "remove", "settle"}
      BY <1>1, <2>1, <2>2, <2>3
    <2> QED BY <2>4 DEF Ranked
  <1>2. ASSUME NEW p \in Projects, StartProject(p) PROVE Ranked'
    <2>1. gc'.todo = RowsOf(p) /\ gc'.rank = 0 /\ project' = project
      BY <1>2 DEF StartProject, rows, TypeOK, CollectorType
    <2>2. \A i \in gc'.todo : i \in Ids /\ project'[i] = p
      BY <2>1 DEF RowsOf, Rows
    <2>3. \A i \in gc'.todo : Cardinality(Newer(i)') >= 0
      BY <2>2, NewerFinite
    <2> QED BY <2>1, <2>2, <2>3 DEF Ranked
  <1>3. ASSUME NEW i \in Ids, SkipRow(i) \/ MarkDeleting(i) PROVE Ranked'
    BY <1>3, ScanRanked
  <1>4. ASSUME NEW i \in Ids, RemoveTrees(i) \/ FailRemove(i) \/ SettleRow(i) PROVE Ranked'
    <2>1. /\ gc.pc \in {"remove", "settle"} /\ gc'.todo = gc.todo
          /\ gc'.rank = gc.rank /\ gc'.keep = gc.keep /\ UNCHANGED <<project, status>>
      BY <1>4 DEF RemoveTrees, FailRemove, SettleRow, rows, TypeOK, CollectorType
    <2>2. \A k \in Ids : Available(k)' <=> Available(k)
      BY <1>4 DEF RemoveTrees, FailRemove, SettleRow, rows, Available, Consistent, CollectorSafe,
         TypeOK, RowTypes
    <2>3. \A k \in Ids : Newer(k)' = Newer(k)
      BY <2>1, <2>2 DEF Newer
    <2>4. gc.todo \subseteq Ids
      BY DEF TypeOK, CollectorType
    <2> QED BY <2>1, <2>3, <2>4 DEF Ranked
  <1>5. ASSUME NEW i \in Ids, SweepOrphan(i) PROVE Ranked'
    <2>1. gc.pc = "sweep" /\ gc' = gc
      BY <1>5 DEF SweepOrphan, process
    <2> QED BY <2>1 DEF Ranked
  <1> QED BY <1>1, <1>2, <1>3, <1>4, <1>5 DEF Collecting

LEMMA RankedStep ==
  ASSUME TypeOK, Consistent, Ranked, [Next]_vars PROVE Ranked'
PROOF
  <1>1. CASE Collecting
    BY <1>1, CollectRanked
  <1>2. CASE gc.pc = "idle" /\ ~Collecting
    <2>1. gc' \in {gc, IdleCollector}
      <3>1. ASSUME NEW a \in Actors, Deploying(a) \/ Switching(a) PROVE gc' = gc
        BY <3>1 DEF Deploying, RequestDeploy, TakeUploadLock, RejectDeploy, Reserve, BeginStage,
           FinishStage, FailUpload, RefusePublication, RenameArtifact, SyncArtifact, FailSync,
           Commit, CommitUncertain, ClearStage, Switching, RequestSwitch, RefuseSwitch, Switch,
           RetireArtifact, process
      <3>2. CASE Managing \/ Visiting \/ Environment \/ UNCHANGED vars
        BY <3>2 DEF Managing, Grant, Revoke, DeleteProject, Visiting, BeginResponse, EndResponse,
           Environment, Age, Damage, vars, process
      <3>3. CASE Recovering
        BY <3>3 DEF Recovering, Crash, Start, Listen, RecoverAvailable, RecoverUploading,
           RecoverTombstone, RecoverNothing
      <3> QED BY <1>2, <3>1, <3>2, <3>3 DEF Next
    <2> QED BY <1>2, <2>1 DEF IdleCollector, Ranked
  <1>3. CASE gc.pc # "idle" /\ ~Collecting
    <2>1. CASE gc' = IdleCollector
      BY <2>1 DEF IdleCollector, Ranked
    <2>2. CASE gc' = gc /\ gc.pc \in {"scan", "remove", "settle"}
      <3>1. \A i \in gc.todo : i \in Ids /\ status[i] # "absent" /\ project'[i] = project[i]
        BY <1>3, <2>2, PassUndisturbed DEF Consistent, CollectorSafe, Rows, Live, IdleCollector
      <3>2. \A i \in gc.todo : Newer(i) \subseteq Newer(i)'
        BY <1>3, <2>2, <3>1, PassUndisturbed DEF Newer, Available, Published, IdleCollector
      <3>3. \A i \in gc.todo : /\ Cardinality(Newer(i)') >= Cardinality(Newer(i))
                               /\ Cardinality(Newer(i)') \in Nat /\ Cardinality(Newer(i)) \in Nat
        BY <3>1, <3>2, NewerFinite, FS_Subset
      <3>4. gc.rank \in Nat /\ gc.keep \in Nat
        BY DEF TypeOK, CollectorType
      <3> QED BY <2>2, <3>1, <3>3, <3>4 DEF Ranked
    <2>3. CASE gc' = gc /\ gc.pc \notin {"scan", "remove", "settle"}
      BY <2>3 DEF Ranked
    <2> QED BY <1>3, <2>1, <2>2, <2>3, PassUndisturbed
  <1> QED BY <1>1, <1>2, <1>3

\* Only a pass condemns, and it looks at the row first.
LEMMA CondemnedByPass ==
  ASSUME TypeOK, [Next]_vars, NEW i \in Ids, Available(i), state'[i] = "deleting"
  PROVE  MarkDeleting(i)
PROOF
  <1>1. state'[i] # state[i]
    BY DEF Available
  <1>2. ASSUME NEW a \in Actors, Deploying(a) PROVE FALSE
    BY <1>1, <1>2 DEF Deploying, RequestDeploy, TakeUploadLock, RejectDeploy, Reserve, BeginStage,
       FinishStage, FailUpload, RefusePublication, RenameArtifact, SyncArtifact, FailSync,
       Commit, CommitUncertain, CommitRow, ClearStage, rows, TypeOK, RowTypes
  <1>3. ASSUME NEW a \in Actors, Switching(a) PROVE FALSE
    BY <1>1, <1>3 DEF Switching, RequestSwitch, RefuseSwitch, Switch, RetireArtifact, rows, TypeOK,
       RowTypes
  <1>4. ~Managing
    BY <1>1 DEF Managing, Grant, Revoke, DeleteProject
  <1>5. ~Visiting
    BY <1>1 DEF Visiting, BeginResponse, EndResponse, rows
  <1>6. ~Recovering
    BY <1>1 DEF Recovering, Crash, Start, Listen, RecoverAvailable, RecoverUploading,
       RecoverTombstone, RecoverNothing, rows, TypeOK, RowTypes
  <1>7. ~Environment /\ vars' # vars
    BY <1>1 DEF Environment, Age, Damage, vars, rows
  <1>8. CASE Collecting
    BY <1>1, <1>8 DEF Collecting, OperatorCleanup, Maintenance, BeginCleanup, StartProject, SkipRow,
       MarkDeleting, RemoveTrees, FailRemove, SettleRow, SweepOrphan, EndProject, StartSweep,
       EndCleanup, rows, TypeOK, RowTypes
  <1> QED BY <1>2, <1>3, <1>4, <1>5, <1>6, <1>7, <1>8 DEF Next

\* cleanupProject collects a version only when as many newer ones stay as were asked for,
\* and only when it is old where days count, whatever has failed, was lost or is collected too.
THEOREM RetentionAlways == Spec => RetentionHonored
PROOF
  <1>1. Init => Ranked
    BY DEF Init, IdleCollector, Ranked
  <1>2. TypeOK /\ Consistent /\ Ranked /\ [Next]_vars => Ranked'
    BY RankedStep
  <1>3. Spec => []Ranked
    BY <1>1, <1>2, TypeCorrect, ConsistentAlways, PTL DEF Spec
  <1>4. ASSUME TypeOK, Consistent, Ranked, [Next]_vars, NEW i \in Ids,
               Available(i), state'[i] = "deleting"
        PROVE  /\ gc.keep > 0 => Cardinality(Survivors(i)) >= gc.keep
               /\ gc.days => i \in old
    <2>1. MarkDeleting(i)
      BY <1>4, CondemnedByPass
    <2>2. /\ i \in gc.todo /\ gc.pc = "scan" /\ ~Spared(i) /\ ~Pinned(i) /\ IsPublished(i)
          /\ gc.rank \in Nat /\ gc.keep \in Nat
      BY <1>4, <2>1 DEF MarkDeleting, Scanned, Consistent, RowsOrdered, TypeOK, CollectorType
    <2>3. \A k \in Ids : k # i => state'[k] = state[k]
      BY <1>4, <2>1 DEF MarkDeleting, TypeOK, RowTypes
    <2>4. Survivors(i) = Newer(i)
      BY <2>3 DEF Survivors, Newer, Available, Ids
    <2>5. (gc.keep > 0 => gc.rank >= gc.keep) /\ (gc.days => i \in old)
      BY <1>4, <2>2, SpareRank
    <2>6. gc.keep > 0 => Cardinality(Newer(i)) >= gc.rank \/ Cardinality(Newer(i)) >= gc.keep
      BY <1>4, <2>2 DEF Ranked
    <2> QED BY <2>2, <2>4, <2>5, <2>6, NewerFinite
  <1>5. TypeOK /\ Consistent /\ Ranked /\ [Next]_vars =>
          [\A i \in Ids : Available(i) /\ state'[i] = "deleting" =>
             /\ gc.keep > 0 => Cardinality(Survivors(i)) >= gc.keep
             /\ gc.days => i \in old]_vars
    BY <1>4
  <1> QED BY <1>3, <1>5, TypeCorrect, ConsistentAlways, PTL DEF Spec, RetentionHonored

-----------------------------------------------------------------------------
(***************************************************************************)
(* The refinement.  What Publication sees of a row is its phase, its home  *)
(* and the pointers to it; each lemma below takes one effect to one step.  *)
(***************************************************************************)

\* Only a version that was published can be found missing.
LostWasPublished == \A i \in Ids : state[i] = "missing" => IsPublished(i)

LEMMA LostStep ==
  ASSUME TypeOK, Consistent, LostWasPublished, [Next]_vars PROVE LostWasPublished'
PROOF
  <1> SUFFICES ASSUME NEW i \in Ids, state'[i] = "missing" PROVE IsPublished(i)'
    BY DEF LostWasPublished
  <1>1. RowEffect
    BY Effects
  <1>2. CASE UNCHANGED deployments
    BY <1>2 DEF deployments, LostWasPublished, IsPublished
  <1>3. CASE Reserved \/ GivenUp
    BY <1>3 DEF Reserved, GivenUp, Failed, LostWasPublished, IsPublished, Published, Consistent,
       RowsOrdered, TypeOK, RowTypes
  <1>4. CASE CommittedJob
    BY <1>4, CommittedJobRow, CommittedRows DEF CommittedJob, CommitRow, LostWasPublished,
       IsPublished, Published
  <1>5. CASE ActivatedJob
    BY <1>5, ActivatedRows DEF ActivatedJob, LostWasPublished, IsPublished, Published
  <1>6. CASE Lost \/ Condemned \/ Settled
    BY <1>6 DEF Lost, Condemned, Settled, Moved, LostWasPublished, IsPublished, Consistent,
       RowsOrdered, TypeOK, RowTypes
  <1>7. CASE Dropped
    BY <1>7 DEF Dropped, LostWasPublished, IsPublished
  <1> QED BY <1>1, <1>2, <1>3, <1>4, <1>5, <1>6, <1>7 DEF RowEffect

\* Rows are numbered only by a reservation.
LEMMA Numbering ==
  ASSUME TypeOK, [Next]_vars
  PROVE  nextId' = nextId \/ (nextId' = nextId + 1 /\ Reserved)
PROOF
  <1>1. ASSUME NEW a \in Actors, Deploying(a) PROVE nextId' = nextId \/ (nextId' = nextId + 1 /\ Reserved)
    <2>1. ASSUME NEW p \in Projects, NEW t \in Targets, Reserve(a, p, t)
          PROVE  nextId' = nextId + 1 /\ Reserved
      BY <2>1 DEF Reserve, Reserved
    <2> QED
      BY <1>1, <2>1 DEF Deploying, RequestDeploy, TakeUploadLock, RejectDeploy, BeginStage,
         FinishStage, FailUpload, RefusePublication, RenameArtifact, SyncArtifact, FailSync,
         Commit, CommitUncertain, CommitRow, ClearStage, rows
  <1>2. ASSUME NEW a \in Actors, Switching(a) PROVE nextId' = nextId
    BY <1>2 DEF Switching, RequestSwitch, RefuseSwitch, Switch, RetireArtifact, rows
  <1>3. CASE Managing
    BY <1>3 DEF Managing, Grant, Revoke, DeleteProject
  <1>4. CASE Visiting
    BY <1>4 DEF Visiting, BeginResponse, EndResponse, rows
  <1>5. CASE Collecting
    BY <1>5 DEF Collecting, OperatorCleanup, Maintenance, BeginCleanup, StartProject, SkipRow,
       MarkDeleting, RemoveTrees, FailRemove, SettleRow, SweepOrphan, EndProject, StartSweep,
       EndCleanup, rows
  <1>6. CASE Recovering
    BY <1>6 DEF Recovering, Crash, Start, Listen, RecoverAvailable, RecoverUploading,
       RecoverTombstone, RecoverNothing, rows
  <1>7. CASE Environment
    BY <1>7 DEF Environment, Age, Damage, rows
  <1>8. CASE UNCHANGED vars
    BY <1>8 DEF vars, rows
  <1> QED BY <1>1, <1>2, <1>3, <1>4, <1>5, <1>6, <1>7, <1>8 DEF Next

\* Responses begin and end in steps that change no row.
Responding ==
  /\ UNCHANGED <<deployments, nextId>>
  /\ \/ \A v \in Visitors : serving'[v] \in {serving[v], None}
     \/ \E v \in Visitors, i \in Ids :
          serving[v] = None /\ Selectable(i) /\ serving' = [serving EXCEPT ![v] = i]

LEMMA Responses ==
  ASSUME TypeOK, [Next]_vars PROVE UNCHANGED serving \/ Responding
PROOF
  <1>1. ASSUME NEW a \in Actors, Deploying(a) PROVE serving' = serving
    BY <1>1 DEF Deploying, RequestDeploy, TakeUploadLock, RejectDeploy, Reserve, BeginStage,
       FinishStage, FailUpload, RefusePublication, RenameArtifact, SyncArtifact, FailSync,
       Commit, CommitUncertain, ClearStage, locks
  <1>2. ASSUME NEW a \in Actors, Switching(a) PROVE serving' = serving
    BY <1>2 DEF Switching, RequestSwitch, RefuseSwitch, Switch, RetireArtifact, locks
  <1>3. CASE Managing
    BY <1>3 DEF Managing, Grant, Revoke, DeleteProject, locks
  <1>4. CASE Visiting
    <2>1. ASSUME NEW v \in Visitors, NEW i \in Ids, BeginResponse(v, i) PROVE Responding
      BY <2>1 DEF BeginResponse, Responding, deployments, rows
    <2>2. ASSUME NEW v \in Visitors, EndResponse(v) PROVE Responding
      BY <2>2 DEF EndResponse, Responding, deployments, rows, TypeOK, LockTypes
    <2> QED BY <1>4, <2>1, <2>2 DEF Visiting
  <1>5. CASE Collecting
    BY <1>5 DEF Collecting, OperatorCleanup, Maintenance, BeginCleanup, StartProject, SkipRow,
       MarkDeleting, RemoveTrees, FailRemove, SettleRow, SweepOrphan, EndProject, StartSweep,
       EndCleanup, locks
  <1>6. CASE Recovering
    <2>1. CASE Crash
      BY <2>1 DEF Crash, Responding, deployments, rows
    <2> QED
      BY <1>6, <2>1 DEF Recovering, Start, Listen, RecoverAvailable, RecoverUploading,
         RecoverTombstone, RecoverNothing, locks
  <1>7. CASE Environment
    BY <1>7 DEF Environment, Age, Damage, locks
  <1>8. CASE UNCHANGED vars
    BY <1>8 DEF vars, locks
  <1> QED BY <1>1, <1>2, <1>3, <1>4, <1>5, <1>6, <1>7, <1>8 DEF Next

-----------------------------------------------------------------------------
Promised == [Promise!Next]_(Promise!vars)

Labelled(i) == IsPublished(i) /\ target[i] # "production"
Shown(p) == {i \in RowsOf(p) : status[i] = "active"}
Some(S) == IF S = {} THEN None ELSE CHOOSE i \in S : TRUE

\* What a project shows depends only on its active rows, of which there is one at most.
LEMMA ShownAlone ==
  ASSUME NEW p, NEW i
  PROVE  /\ OneProduction /\ i \in Shown(p) => Production(p) = i
         /\ OneProduction' /\ i \in Shown(p)' => Production(p)' = i
PROOF
  <1>1. OneProduction /\ i \in Shown(p) => Shown(p) = {i}
    BY DEF OneProduction, Shown, RowsOf, Rows
  <1>2. OneProduction' /\ i \in Shown(p)' => Shown(p)' = {i}
    BY DEF OneProduction, Shown, RowsOf, Rows
  <1>3. Production(p) = Some(Shown(p)) /\ Production(p)' = Some(Shown(p)')
    BY DEF Production, Shown, Some
  <1> QED BY <1>1, <1>2, <1>3 DEF Some

LEMMA ShownIsActive ==
  ASSUME NEW p, NEW i \in Ids, Production(p) = i PROVE i \in Shown(p)
PROOF
  <1>1. Production(p) = Some(Shown(p))
    BY DEF Production, Shown, Some
  <1>2. None \notin Ids
    BY ConstantsAssumption DEF Ids
  <1>3. Shown(p) # {}
    BY <1>1, <1>2 DEF Some
  <1> QED BY <1>1, <1>3 DEF Some

LEMMA ProductionFrame ==
  ASSUME NEW p, Shown(p)' = Shown(p) PROVE Production(p)' = Production(p)
PROOF
  <1>1. Production(p) = Some(Shown(p)) /\ Production(p)' = Some(Shown(p)')
    BY DEF Production, Shown, Some
  <1> QED BY <1>1

\* A step that changes no row in a way that the promise sees.
LEMMA Stutter ==
  ASSUME \A i \in Ids : Phase(i)' = Phase(i) /\ Home(i)' = Home(i) /\ (Labelled(i)' <=> Labelled(i)),
         \A p \in Projects : Shown(p)' = Shown(p),
         UNCHANGED <<alias, serving>>
  PROVE  Promised
PROOF
  <1>1. \A p \in Projects : Production(p)' = Production(p)
    BY ProductionFrame
  <1>2. UNCHANGED Promise!vars
    BY <1>1 DEF Promise!vars, Labelled
  <1> QED BY <1>2 DEF Promised

LEMMA ReservedPromised ==
  ASSUME TypeOK, Consistent, Reserved, nextId' \in {nextId, nextId + 1}, UNCHANGED serving
  PROVE  Promised
PROOF
  <1>1. nextId \in Ids /\ status[nextId] = "absent" /\ state[nextId] = "pending"
    BY DEF Reserved, Consistent, RowsOrdered, TypeOK, RowTypes
  <1>2. /\ status'[nextId] = "uploading" /\ UNCHANGED <<state, alias>>
        /\ \A i \in Ids : i # nextId =>
             status'[i] = status[i] /\ project'[i] = project[i] /\ target'[i] = target[i]
    BY DEF Reserved, TypeOK, RowTypes
  <1>3. \A i \in Ids : i # nextId => (i >= nextId' <=> i >= nextId)
    BY DEF Ids, TypeOK, RowTypes
  <1>4. \A i \in Ids : Phase(i)' = Phase(i)
    BY <1>1, <1>2, <1>3 DEF Phase, Available, Ids, TypeOK, RowTypes
  <1>5. \A i \in Ids : Home(i)' = Home(i) /\ (Labelled(i)' <=> Labelled(i))
    BY <1>1, <1>2 DEF Home, Labelled, IsPublished, Published
  <1>6. \A p \in Projects : Shown(p)' = Shown(p)
    BY <1>1, <1>2 DEF Shown, RowsOf, Rows, Live
  <1> QED BY <1>2, <1>4, <1>5, <1>6, Stutter

LEMMA GivenUpPromised ==
  ASSUME TypeOK, Consistent, LostWasPublished, GivenUp, UNCHANGED <<nextId, serving>>
  PROVE  Promised
PROOF
  <1>1. PICK i \in Ids : status' = Failed(status, i) /\ UNCHANGED <<project, target, state, alias>>
    BY DEF GivenUp
  <1>2. CASE status[i] # "uploading"
    <2>1. status' = status
      BY <1>1, <1>2 DEF Failed, TypeOK, RowTypes
    <2> QED
      BY <1>1, <2>1, Stutter DEF Phase, Home, Labelled, Shown, RowsOf, Rows, Live, Available,
         IsPublished
  <1>3. CASE status[i] = "uploading"
    <2>1. status'[i] = "failed" /\ \A e \in Ids : e # i => status'[e] = status[e]
      BY <1>1, <1>3 DEF Failed, TypeOK, RowTypes
    <2>2. i < nextId /\ ~Available(i) /\ state[i] # "missing"
      BY <1>3 DEF Consistent, RowsOrdered, LostWasPublished, IsPublished, Published, Ids, TypeOK,
         RowTypes
    <2>3. Phase(i) = "draft" /\ Phase(i)' = "gone"
      BY <1>1, <1>3, <2>1, <2>2 DEF Phase, Available, Ids, TypeOK, RowTypes
    <2>4. \A e \in Ids : e # i => Phase(e)' = Phase(e)
      BY <1>1, <2>1 DEF Phase, Available
    <2>5. \A e \in Ids : Home(e)' = Home(e) /\ (Labelled(e)' <=> Labelled(e))
      BY <1>1, <1>3, <2>1 DEF Home, Labelled, IsPublished, Published
    <2>6. \A p \in Projects : Shown(p)' = Shown(p)
      BY <1>1, <1>3, <2>1 DEF Shown, RowsOf, Rows, Live
    <2>7. \A p \in Projects : Production(p)' = Production(p)
      BY <2>6, ProductionFrame
    <2>8. Promise!Abandon(i)
      BY <1>1, <2>3, <2>4, <2>5, <2>7 DEF Promise!Abandon, Labelled
    <2> QED BY <2>8 DEF Promised, Promise!Next
  <1> QED BY <1>2, <1>3

LEMMA CommittedPromised ==
  ASSUME TypeOK, Consistent, OneProduction, OneProduction', CommittedJob,
         UNCHANGED <<nextId, serving>>
  PROVE  Promised
PROOF
  <1>1. PICK i \in Ids : CommitRow(i) /\ status' = Committed(i)
    BY CommittedJobRow DEF CommittedJob
  <1>2. PICK p \in Projects :
          /\ p = project[i] /\ i < nextId
          /\ status[i] = "uploading" /\ state[i] = "pending" /\ target[i] \in Targets
    BY <1>1 DEF CommitRow, Consistent, RowsOrdered, Live, Ids, TypeOK, RowTypes
  <1>3. /\ UNCHANGED <<project, target>>
        /\ state'[i] = "available" /\ \A e \in Ids : e # i => state'[e] = state[e]
    BY <1>1, <1>2 DEF CommitRow, TypeOK, RowTypes
  <1>4. status'[i] = IF target[i] = "production" THEN "active" ELSE "preview"
    BY <1>1, <1>2, ActivatedRows DEF Committed, TypeOK, RowTypes
  <1>5. \A e \in Ids : e # i => /\ IsPublished(e)' <=> IsPublished(e)
                                /\ status'[e] = "uploading" <=> status[e] = "uploading"
    BY <1>1, <1>2, ActivatedRows DEF Committed, IsPublished, Published, TypeOK, RowTypes
  <1>6. Phase(i) = "draft" /\ Phase(i)' = "retained"
    BY <1>2, <1>3 DEF Phase, Available
  <1>7. \A e \in Ids : e # i => Phase(e)' = Phase(e)
    BY <1>3, <1>5 DEF Phase, Available
  <1>8. Home(i)' = p /\ \A e \in Ids : e # i => Home(e)' = Home(e)
    BY <1>2, <1>3, <1>4, <1>5 DEF Home, IsPublished, Published
  <1>9. Promise!Retain(i, p)
    BY <1>2, <1>6, <1>7, <1>8 DEF Promise!Retain
  <1>10. CASE target[i] = "production"
    <2>1. alias' = alias
      BY <1>1, <1>10 DEF CommitRow, Branches
    <2>2. \A e \in Ids : Labelled(e)' <=> Labelled(e)
      BY <1>2, <1>3, <1>5, <1>10 DEF Labelled, IsPublished, Published
    <2>3. i \in Shown(p)'
      BY <1>2, <1>3, <1>4, <1>10 DEF Shown, RowsOf, Rows, Live
    <2>4. Production(p)' = i
      BY <2>3, ShownAlone
    <2>5. ASSUME NEW q \in Projects, q # p PROVE Production(q)' = Production(q)
      <3>1. \A e \in Ids : project[e] = q => status'[e] = status[e]
        BY <1>1, <1>2, <1>10, <2>5, ActivatedRows DEF Committed
      <3>2. Shown(q)' = Shown(q)
        BY <1>3, <3>1 DEF Shown, RowsOf, Rows, Live
      <3> QED BY <3>2, ProductionFrame
    <2>6. Promise!Publish(i, p)
      BY <1>2, <1>9, <2>1, <2>2, <2>4, <2>5 DEF Promise!Publish, Labelled
    <2> QED BY <1>2, <2>6 DEF Promised, Promise!Next
  <1>11. CASE target[i] # "production"
    <2>1. status' = [status EXCEPT ![i] = "preview"]
      BY <1>1, <1>11 DEF Committed
    <2>2. alias' = alias \/ \E b \in Branches : alias' = [alias EXCEPT ![p][b] = i]
      BY <1>1, <1>2 DEF CommitRow
    <2>3. \A e \in Ids : Labelled(e)' <=> Labelled(e) \/ e = i
      BY <1>2, <1>3, <1>4, <1>5, <1>11 DEF Labelled, IsPublished, Published
    <2>4. \A q \in Projects : Shown(q)' = Shown(q)
      BY <1>2, <1>3, <2>1 DEF Shown, RowsOf, Rows, Live, TypeOK, RowTypes
    <2>5. \A q \in Projects : Production(q)' = Production(q)
      BY <2>4, ProductionFrame
    <2>6. {e \in Ids : IsPublished(e)' /\ target'[e] # "production"}
            = {e \in Ids : IsPublished(e) /\ target[e] # "production"} \cup {i}
      BY <1>2, <2>3 DEF Labelled
    <2>7. Promise!Preview(i, p)
      BY <1>9, <2>2, <2>5, <2>6 DEF Promise!Preview
    <2> QED BY <1>2, <2>7 DEF Promised, Promise!Next
  <1> QED BY <1>10, <1>11

LEMMA ActivatedPromised ==
  ASSUME TypeOK, Consistent, OneProduction', ActivatedJob, UNCHANGED <<nextId, serving>>
  PROVE  Promised
PROOF
  <1>1. PICK i \in Ids : /\ Available(i) /\ IsPublished(i) /\ status' = Activated(i)
                         /\ UNCHANGED <<project, target, state, alias>>
    BY DEF ActivatedJob
  <1>2. PICK p \in Projects : p = project[i]
    BY <1>1 DEF Consistent, RowsOrdered, Live, IsPublished, Published
  <1>3. \A e \in Ids : /\ IsPublished(e)' <=> IsPublished(e)
                       /\ status'[e] = "uploading" <=> status[e] = "uploading"
    BY <1>1, ActivatedRows DEF IsPublished, Published
  <1>4. \A e \in Ids : Phase(e)' = Phase(e) /\ Home(e)' = Home(e) /\ (Labelled(e)' <=> Labelled(e))
    BY <1>1, <1>3 DEF Phase, Home, Labelled, Available
  <1>5. Phase(i) = "retained" /\ Home(i) = p
    BY <1>1, <1>2 DEF Phase, Home
  <1>6. i \in Shown(p)'
    BY <1>1, <1>2, ActivatedRows DEF Shown, RowsOf, Rows, Live
  <1>7. Production(p)' = i
    BY <1>6, ShownAlone
  <1>8. ASSUME NEW q \in Projects, q # p PROVE Production(q)' = Production(q)
    <2>1. \A e \in Ids : project[e] = q => status'[e] = status[e]
      BY <1>1, <1>2, <1>8, ActivatedRows
    <2>2. Shown(q)' = Shown(q)
      BY <1>1, <2>1 DEF Shown, RowsOf, Rows, Live
    <2> QED BY <2>2, ProductionFrame
  <1>9. Promise!Activate(i)
    BY <1>1, <1>2, <1>4, <1>5, <1>7, <1>8 DEF Promise!Activate, Labelled
  <1> QED BY <1>9 DEF Promised, Promise!Next

\* A change of an artifact state alone leaves pointers and labels as they are.
LEMMA MovedFrame ==
  ASSUME TypeOK, NEW i \in Ids, NEW s, Moved(i, s), UNCHANGED nextId
  PROVE  /\ state'[i] = s
         /\ \A e \in Ids : Home(e)' = Home(e) /\ (Labelled(e)' <=> Labelled(e))
         /\ \A e \in Ids : e # i => Phase(e)' = Phase(e)
         /\ \A p \in Projects : Shown(p)' = Shown(p) /\ Production(p)' = Production(p)
PROOF
  <1>1. /\ UNCHANGED <<project, target, status, alias>> /\ state'[i] = s
        /\ \A e \in Ids : e # i => state'[e] = state[e]
    BY DEF Moved, TypeOK, RowTypes
  <1>2. \A e \in Ids : Home(e)' = Home(e) /\ (Labelled(e)' <=> Labelled(e))
    BY <1>1 DEF Home, Labelled, IsPublished
  <1>3. \A e \in Ids : e # i => Phase(e)' = Phase(e)
    BY <1>1 DEF Phase, Available
  <1>4. \A p \in Projects : Shown(p)' = Shown(p)
    BY <1>1 DEF Shown, RowsOf, Rows, Live
  <1> QED BY <1>1, <1>2, <1>3, <1>4, ProductionFrame

LEMMA LostPromised ==
  ASSUME TypeOK, Consistent, Lost, UNCHANGED <<nextId, serving>> PROVE Promised
PROOF
  <1>1. PICK i \in Ids : Available(i) /\ Unread(i) /\ Moved(i, "missing")
    BY DEF Lost
  <1>2. Phase(i) = "retained" /\ Phase(i)' = "lost"
    BY <1>1, MovedFrame DEF Phase, Available
  <1>3. Promise!Lose(i)
    BY <1>1, <1>2, MovedFrame DEF Promise!Lose, Promise!Unread, Unread, Labelled, Moved
  <1> QED BY <1>3 DEF Promised, Promise!Next

LEMMA CondemnedPromised ==
  ASSUME TypeOK, Consistent, LostWasPublished, Condemned, UNCHANGED <<nextId, serving>>
  PROVE  Promised
PROOF
  <1>1. PICK i \in Rows : ~Pinned(i) /\ state[i] # "deleted" /\ Unread(i) /\ Moved(i, "deleting")
    BY DEF Condemned
  <1>2. /\ i \in Ids /\ i < nextId /\ project[i] \in Projects
        /\ status[i] \notin {"active", "uploading"} /\ ~Referenced(i)
    BY <1>1 DEF Rows, Live, Pinned, Consistent, RowsOrdered, Ids, TypeOK, RowTypes
  <1>3. Phase(i)' = "gone"
    BY <1>1, <1>2, MovedFrame DEF Phase, Available, Moved, Ids, TypeOK, RowTypes
  <1>4. CASE Phase(i) \in {"retained", "lost"}
    <2>1. Home(i) = project[i]
      BY <1>2, <1>4 DEF Phase, Home, Consistent, RowsOrdered, LostWasPublished
    <2>2. Production(project[i]) # i
      BY <1>2, ShownIsActive DEF Shown
    <2>3. \A b \in Branches : alias[project[i]][b] # i
      BY <1>2 DEF Referenced
    <2>4. Promise!Collect(i)
      BY <1>1, <1>2, <1>3, <1>4, <2>1, <2>2, <2>3, MovedFrame
      DEF Promise!Collect, Promise!Unread, Unread, Labelled, Moved
    <2> QED BY <1>2, <2>4 DEF Promised, Promise!Next
  <1>5. CASE Phase(i) \notin {"retained", "lost"}
    <2>1. Phase(i) = "gone"
      BY <1>2, <1>5 DEF Phase, Ids, TypeOK, RowTypes
    <2>2. \A e \in Ids : Phase(e)' = Phase(e)
      BY <1>1, <1>2, <1>3, <2>1, MovedFrame
    <2> QED BY <1>1, <1>2, <2>2, MovedFrame, Stutter DEF Moved
  <1> QED BY <1>4, <1>5

LEMMA SettledPromised ==
  ASSUME TypeOK, Settled, UNCHANGED <<nextId, serving>> PROVE Promised
PROOF
  <1>1. PICK i \in Ids : state[i] = "deleting" /\ Moved(i, "deleted")
    BY DEF Settled
  <1>2. Phase(i)' = Phase(i)
    BY <1>1, MovedFrame DEF Phase, Available, Moved
  <1> QED BY <1>1, <1>2, MovedFrame, Stutter DEF Moved

LEMMA DroppedPromised ==
  ASSUME TypeOK, Consistent, LostWasPublished, Dropped, UNCHANGED <<nextId, serving>>
  PROVE  Promised
PROOF
  <1>1. PICK p \in Projects :
          /\ \A v \in Visitors : serving[v] = None
          /\ status' = [i \in Ids |-> IF project[i] = p THEN "absent" ELSE status[i]]
          /\ state' = [i \in Ids |-> IF project[i] = p THEN "pending" ELSE state[i]]
          /\ alias' = [alias EXCEPT ![p] = [b \in Branches |-> None]]
          /\ UNCHANGED <<project, target>>
    BY DEF Dropped
  <1> DEFINE drafts == {i \in Ids : Phase(i) = "draft" /\ project[i] = p /\ i < nextId}
  <1>2. None # p
    BY ConstantsAssumption
  <1>3. ASSUME NEW i \in Ids
        PROVE  Phase(i)' = IF Home(i) = p \/ i \in drafts THEN "gone" ELSE Phase(i)
    <2>1. CASE project[i] # p
      BY <1>1, <1>2, <2>1 DEF Phase, Home, Available
    <2>2. CASE project[i] = p /\ i >= nextId
      <3>1. status[i] = "absent" /\ state[i] = "pending"
        BY <2>2 DEF Consistent, RowsOrdered
      <3>2. Phase(i) = "draft" /\ Home(i) = None /\ ~(i < nextId)
        BY <2>2, <3>1 DEF Phase, Home, Available, IsPublished, Published, Ids, TypeOK, RowTypes
      <3> QED BY <1>1, <1>2, <2>2, <3>2 DEF Phase, Available
    <2>3. CASE project[i] = p /\ i < nextId
      <3>1. Phase(i)' = "gone"
        BY <1>1, <2>3 DEF Phase, Available, Ids, TypeOK, RowTypes
      <3>2. IsPublished(i) => Home(i) = p
        BY <2>3 DEF Home
      <3>3. ~IsPublished(i) => Phase(i) \in {"draft", "gone"}
        BY DEF Phase, Consistent, RowsOrdered, LostWasPublished
      <3> QED BY <2>3, <3>1, <3>2, <3>3
    <2> QED BY <2>1, <2>2, <2>3 DEF Ids, TypeOK, RowTypes
  <1>4. \A i \in Ids : Home(i)' = IF Home(i) = p THEN None ELSE Home(i)
    BY <1>1, <1>2 DEF Home, IsPublished, Published
  <1>5. \A i \in Ids : Labelled(i)' <=> Labelled(i) /\ Home(i) # p
    BY <1>1 DEF Labelled, Home, IsPublished, Published
  <1>6. Production(p)' = None
    <2>1. Shown(p)' = {}
      BY <1>1 DEF Shown, RowsOf, Rows, Live
    <2>2. Production(p)' = Some(Shown(p)')
      BY DEF Production, Shown, Some
    <2> QED BY <2>1, <2>2 DEF Some
  <1>7. ASSUME NEW q \in Projects, q # p PROVE Production(q)' = Production(q)
    <2>1. Shown(q)' = Shown(q)
      BY <1>1, <1>7 DEF Shown, RowsOf, Rows, Live
    <2> QED BY <2>1, ProductionFrame
  <1>8. Promise!Delete(p)
    <2>1. drafts \in SUBSET {i \in Ids : Phase(i) = "draft"}
      OBVIOUS
    <2>2. \A v \in Visitors : serving[v] = None
      BY <1>1
    <2>3. alias' = [alias EXCEPT ![p] = [b \in Branches |-> None]]
      BY <1>1
    <2> HIDE DEF drafts
    <2> QED
      BY <1>3, <1>4, <1>5, <1>6, <1>7, <2>1, <2>2, <2>3 DEF Promise!Delete, Labelled
  <1> QED BY <1>8 DEF Promised, Promise!Next

LEMMA RespondingPromised ==
  ASSUME TypeOK, TypeOK', Consistent, OneProduction, Responding PROVE Promised
PROOF
  <1>1. /\ \A i \in Ids : Phase(i)' = Phase(i) /\ Home(i)' = Home(i) /\ (Labelled(i)' <=> Labelled(i))
        /\ \A p \in Projects : Shown(p)' = Shown(p)
        /\ alias' = alias
    BY DEF Responding, deployments, Phase, Home, Labelled, Shown, RowsOf, Rows, Live, Available,
       IsPublished
  <1>2. \A p \in Projects : Production(p)' = Production(p)
    BY <1>1, ProductionFrame
  <1>3. serving \in [Visitors -> Ids \cup {None}]
    BY DEF TypeOK, LockTypes
  <1>4. CASE /\ serving' \in [Visitors -> Ids \cup {None}]
             /\ \A v \in Visitors : serving'[v] \in {serving[v], None}
    <2> DEFINE ended == {v \in Visitors : serving'[v] = None}
    <2>1. ended \in SUBSET Visitors
      OBVIOUS
    <2>2. serving' = [v \in Visitors |-> IF v \in ended THEN None ELSE serving[v]]
      BY <1>4
    <2> HIDE DEF ended
    <2>3. Promise!EndRead
      BY <1>1, <1>2, <2>1, <2>2 DEF Promise!EndRead, Labelled
    <2> QED BY <2>3 DEF Promised, Promise!Next
  <1>5. CASE \E v \in Visitors, i \in Ids :
               serving[v] = None /\ Selectable(i) /\ serving' = [serving EXCEPT ![v] = i]
    <2>1. PICK v \in Visitors, i \in Ids :
            serving[v] = None /\ Selectable(i) /\ serving' = [serving EXCEPT ![v] = i]
      BY <1>5
    <2>2. Phase(i) = "retained" /\ project[i] \in Projects /\ Home(i) = project[i]
      BY <2>1 DEF Selectable, Phase, Home, Consistent, RowsOrdered
    <2>3. Labelled(i) \/ Production(project[i]) = i
      BY <2>1, ShownAlone DEF Selectable, Labelled, Shown, RowsOf, Rows
    <2>4. Promise!BeginRead(v, i)
      BY <1>1, <1>2, <1>3, <2>1, <2>2, <2>3 DEF Promise!BeginRead, Promise!Visible, Labelled
    <2> QED BY <2>4 DEF Promised, Promise!Next
  <1>6. serving' \in [Visitors -> Ids \cup {None}]
    BY DEF TypeOK, LockTypes
  <1> QED BY <1>4, <1>5, <1>6 DEF Responding

LEMMA StepPromised ==
  ASSUME IInv, IInv', LostWasPublished, [Next]_vars PROVE Promised
PROOF
  <1> USE DEF IInv
  <1>1. CASE Responding
    BY <1>1, RespondingPromised
  <1>2. CASE serving' = serving /\ Reserved
    BY <1>2, Numbering, ReservedPromised
  <1>3. CASE UNCHANGED <<serving, nextId>> /\ ~Reserved
    <2>1. CASE UNCHANGED deployments
      BY <1>3, <2>1, Stutter DEF deployments, Phase, Home, Labelled, Shown, RowsOf, Rows, Live,
         Available, IsPublished
    <2> QED
      BY <1>3, <2>1, Effects, GivenUpPromised, CommittedPromised, ActivatedPromised, LostPromised,
         CondemnedPromised, SettledPromised, DroppedPromised DEF RowEffect
  <1> QED BY <1>1, <1>2, <1>3, Responses, Numbering

LEMMA InitPromised == Init => Promise!Init /\ LostWasPublished
PROOF
  <1> SUFFICES ASSUME Init PROVE Promise!Init /\ LostWasPublished
    OBVIOUS
  <1>1. \A i \in Ids : Phase(i) = "draft" /\ Home(i) = None /\ ~IsPublished(i)
    BY DEF Init, Ids, Phase, Home, Available, IsPublished, Published
  <1>2. \A p \in Projects : Production(p) = None
    BY DEF Init, Production, RowsOf, Rows
  <1> QED BY <1>1, <1>2 DEF Init, Promise!Init, LostWasPublished

\* Every step of handleDeploy, switchPublication, cleanupProject, prepareDeployments and
\* siteHandler, and every death, is a step that Publication allows or a stutter: the server
\* implements the abstract publication.
THEOREM Refinement == Spec => Publishes
PROOF
  <1>1. TypeOK /\ Consistent /\ LostWasPublished /\ [Next]_vars => LostWasPublished'
    BY LostStep
  <1>2. Spec => []LostWasPublished
    BY <1>1, InitPromised, TypeCorrect, ConsistentAlways, PTL DEF Spec
  <1>3. IInv /\ IInv' /\ LostWasPublished /\ [Next]_vars => [Promise!Next]_(Promise!vars)
    BY StepPromised DEF Promised
  <1> QED BY <1>2, <1>3, InitPromised, Inductive, PTL DEF Spec, Publishes, Promise!Spec
=============================================================================
