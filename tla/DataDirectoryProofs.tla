------------------------ MODULE DataDirectoryProofs ------------------------
(***************************************************************************)
(* What uses a data directory, for every size of the system: the server    *)
(* processes on it (ServerProcess), the import of an old site when one of  *)
(* them starts (LegacyImport), and its offline backups and their           *)
(* restoration (BackupRestore).  They share no variable, and each is       *)
(* proved by itself.                                                       *)
(***************************************************************************)
EXTENDS ServerProcess, LegacyImport, BackupRestore, TLAPS

-----------------------------------------------------------------------------
(***************************************************************************)
(* Server processes.  The parts of the invariant hardly depend on each     *)
(* other, so each is proved by itself, over groups of steps.               *)
(***************************************************************************)
\* The inductive invariant, in parts.
Starting == {"locked", "copying", "copied", "migrating", "stored", "creating", "keyed"}
Running == {"serving", "draining", "waiting", "flushing"}
Ending == {"flushed", "released", "exiting"}

DirectoryTypes ==
  /\ lock \in Processes \cup {Nobody}
  /\ original \subseteq Changes /\ schema \subseteq Changes /\ original \subseteq schema
  /\ version \in BOOLEAN /\ key \in {"none", "short", "whole"}

ProcessTypes ==
  /\ pc \in [Processes -> Starting \cup Running \cup Ending \cup {"off"}]
  /\ next \in [Processes -> 1..LastChange + 1]
  /\ opened \in [Processes -> BOOLEAN]

ServingTypes ==
  /\ handler \in [Processes -> [Handlers -> {"idle", "busy", "checked"}]]
  /\ queue \in [Processes -> Nat]
  /\ closed \in [Processes -> BOOLEAN]

Types == DirectoryTypes /\ ProcessTypes /\ ServingTypes

\* Whoever has the database open has the lock, until the two deferred calls.
Owned ==
  \A p \in Processes :
    /\ pc[p] \notin {"off", "exiting"} => lock = p
    /\ opened[p] => pc[p] \notin {"off", "released", "exiting"}

\* Once the queue is closed nobody is about to send; before the listeners there are no
\* requests, and after the flush no visits, not even from a start that failed.
Quiet(p) == \A h \in Handlers : handler[p][h] = "idle"

Delivered ==
  /\ ~panicked
  /\ \A p \in Processes :
       /\ closed[p] => NoneSending(p)
       /\ pc[p] \in Starting \cup {"off"} => Quiet(p) /\ ~closed[p] /\ queue[p] = 0
       /\ pc[p] \in Ending => queue[p] = 0 /\ (closed[p] \/ Quiet(p))

Pristine == [schema |-> original, synced |-> TRUE] \in snapshots

\* A process migrates only a new database, one whose snapshot is safe, or one that is
\* complete; what it has been through is there.
Upgraded ==
  /\ PristineSnapshot
  /\ version => schema = Changes
  /\ \A p \in Processes :
       /\ pc[p] # "migrating" => next[p] = 1
       /\ pc[p] = "migrating" =>
            /\ 1..(next[p] - 1) \subseteq schema
            /\ version \/ original = {} \/ Pristine

\* The later steps of a start have what the earlier ones made.
Prepared ==
  \A p \in Processes :
    /\ pc[p] \in {"stored", "creating", "keyed", "serving"} => version
    /\ pc[p] \in {"keyed", "serving"} => key = "whole"

IInv == Types /\ Owned /\ Delivered /\ Upgraded /\ Prepared

-----------------------------------------------------------------------------
(***************************************************************************)
(* Groups of steps                                                         *)
(***************************************************************************)
StartStep(p) ==
  \/ Lock(p) \/ Open(p) \/ CopyDatabase(p) \/ SyncSnapshot(p) \/ Migrate(p)
  \/ RecordVersion(p) \/ ReadKey(p) \/ CreateKey(p) \/ WriteKey(p) \/ Serve(p) \/ FailStart(p)

RequestStep(p, h) ==
  BeginRequest(p, h) \/ CheckQueue(p, h) \/ SendVisit(p, h) \/ EndRequest(p, h)

WorkerStep(p) == BeginPass(p) \/ EndPass(p) \/ StoreVisit(p)

StopStep(p) ==
  \/ BeginShutdown(p) \/ EndDrain(p) \/ EndWorkers(p) \/ CloseQueue(p) \/ EndFlush(p)
  \/ CloseStore(p) \/ Unlock(p)

LeaveStep(p) == Exit(p) \/ Crash(p)

LEMMA Steps ==
  ASSUME Next
  PROVE  \/ \E p \in Processes :
              \/ StartStep(p) \/ WorkerStep(p) \/ StopStep(p) \/ LeaveStep(p)
              \/ \E h \in Handlers : RequestStep(p, h)
         \/ PowerLoss
  BY DEF Next, Work, StartStep, RequestStep, WorkerStep, StopStep, LeaveStep

-----------------------------------------------------------------------------
(***************************************************************************)
(* Types                                                                   *)
(***************************************************************************)
LEMMA InitTypes == Init => Types
PROOF
  <1> SUFFICES ASSUME Init PROVE Types
    OBVIOUS
  <1>1. DirectoryTypes
    BY DEF Init, DirectoryTypes
  <1>2. 1 \in 1..LastChange + 1
    BY ProcessAssumption
  <1>3. ProcessTypes /\ ServingTypes
    BY <1>2 DEF Init, ProcessTypes, ServingTypes
  <1> QED BY <1>1, <1>3 DEF Types

LEMMA StartTypes ==
  ASSUME Types, NEW p \in Processes, StartStep(p) PROVE Types'
PROOF
  <1> USE DEF Types, DirectoryTypes, ProcessTypes, ServingTypes, Step, directory, serving,
          Starting, Running, Ending
  <1>1. CASE Lock(p) BY <1>1 DEF Lock
  <1>2. CASE Open(p) BY <1>2 DEF Open
  <1>3. CASE CopyDatabase(p) BY <1>3 DEF CopyDatabase
  <1>4. CASE SyncSnapshot(p) BY <1>4 DEF SyncSnapshot
  <1>5. CASE Migrate(p)
    <2>1. next[p] \in 1..LastChange
      BY <1>5, ProcessAssumption DEF Migrate
    <2>2. next[p] \in Changes /\ next[p] + 1 \in 1..LastChange + 1
      BY <2>1, ProcessAssumption DEF Changes
    <2> QED BY <1>5, <2>2 DEF Migrate, NextChange
  <1>6. CASE RecordVersion(p) BY <1>6, ProcessAssumption DEF RecordVersion
  <1>7. CASE ReadKey(p) BY <1>7 DEF ReadKey
  <1>8. CASE CreateKey(p) BY <1>8 DEF CreateKey
  <1>9. CASE WriteKey(p) BY <1>9 DEF WriteKey
  <1>10. CASE Serve(p) BY <1>10 DEF Serve
  <1>11. CASE FailStart(p) BY <1>11, ProcessAssumption DEF FailStart
  <1> QED BY <1>1, <1>2, <1>3, <1>4, <1>5, <1>6, <1>7, <1>8, <1>9, <1>10, <1>11 DEF StartStep

LEMMA RequestTypes ==
  ASSUME Types, NEW p \in Processes, NEW h \in Handlers, RequestStep(p, h) PROVE Types'
PROOF
  <1> USE DEF Types, DirectoryTypes, ProcessTypes, ServingTypes, directory
  <1>1. ASSUME NEW from \in {"idle", "busy", "checked"}, NEW to \in {"idle", "busy", "checked"},
               Handle(p, h, from, to)
        PROVE  handler' \in [Processes -> [Handlers -> {"idle", "busy", "checked"}]]
    BY <1>1 DEF Handle
  <1>2. CASE BeginRequest(p, h) BY <1>1, <1>2 DEF BeginRequest
  <1>3. CASE CheckQueue(p, h) BY <1>1, <1>3 DEF CheckQueue
  <1>4. CASE SendVisit(p, h)
    <2>1. queue' \in [Processes -> Nat]
      BY <1>4, ProcessAssumption DEF SendVisit
    <2> QED BY <1>1, <1>4, <2>1 DEF SendVisit
  <1>5. CASE EndRequest(p, h) BY <1>1, <1>5 DEF EndRequest
  <1> QED BY <1>2, <1>3, <1>4, <1>5 DEF RequestStep

LEMMA WorkerTypes ==
  ASSUME Types, NEW p \in Processes, WorkerStep(p) PROVE Types'
PROOF
  <1> USE DEF Types, DirectoryTypes, ProcessTypes, ServingTypes, directory
  <1>1. CASE BeginPass(p) BY <1>1 DEF BeginPass
  <1>2. CASE EndPass(p) BY <1>2 DEF EndPass
  <1>3. CASE StoreVisit(p) BY <1>3 DEF StoreVisit
  <1> QED BY <1>1, <1>2, <1>3 DEF WorkerStep

LEMMA StopTypes ==
  ASSUME Types, NEW p \in Processes, StopStep(p) PROVE Types'
PROOF
  <1> USE DEF Types, DirectoryTypes, ProcessTypes, ServingTypes, directory, serving, Step,
          DeferredStep, Deferred, Starting, Running, Ending
  <1>1. CASE BeginShutdown(p) BY <1>1 DEF BeginShutdown
  <1>2. CASE EndDrain(p) BY <1>2 DEF EndDrain
  <1>3. CASE EndWorkers(p) BY <1>3 DEF EndWorkers
  <1>4. CASE CloseQueue(p) BY <1>4 DEF CloseQueue
  <1>5. CASE EndFlush(p) BY <1>5 DEF EndFlush
  <1>6. CASE CloseStore(p) BY <1>6 DEF CloseStore
  <1>7. CASE Unlock(p) BY <1>7 DEF Unlock
  <1> QED BY <1>1, <1>2, <1>3, <1>4, <1>5, <1>6, <1>7 DEF StopStep

LEMMA LeaveTypes ==
  ASSUME Types, NEW p \in Processes, LeaveStep(p) PROVE Types'
PROOF
  <1>1. Ended(p)
    BY DEF LeaveStep, Exit, Crash
  <1>2. DirectoryTypes'
    BY <1>1 DEF Ended, Types, DirectoryTypes
  <1>3. 1 \in 1..LastChange + 1
    BY ProcessAssumption
  <1>4. ProcessTypes'
    BY <1>1, <1>3 DEF Ended, Types, ProcessTypes
  <1>5. ServingTypes'
    BY <1>1 DEF Ended, Types, ServingTypes
  <1> QED BY <1>2, <1>4, <1>5 DEF Types

LEMMA PowerTypes ==
  ASSUME Types, PowerLoss PROVE Types'
  BY ProcessAssumption DEF PowerLoss, Types, DirectoryTypes, ProcessTypes, ServingTypes

-----------------------------------------------------------------------------
(***************************************************************************)
(* The lock                                                                *)
(***************************************************************************)
LEMMA InitOwned == Init => Owned
  BY DEF Init, Owned

LEMMA StartOwned ==
  ASSUME Types, Owned, NEW p \in Processes, StartStep(p) PROVE Owned'
PROOF
  <1> USE DEF Types, DirectoryTypes, ProcessTypes, Owned, Step, directory
  <1>1. CASE Lock(p) BY <1>1, ProcessAssumption DEF Lock
  <1>2. CASE Open(p) BY <1>2 DEF Open
  <1>3. CASE CopyDatabase(p) BY <1>3 DEF CopyDatabase
  <1>4. CASE SyncSnapshot(p) BY <1>4 DEF SyncSnapshot
  <1>5. CASE Migrate(p) BY <1>5 DEF Migrate
  <1>6. CASE RecordVersion(p) BY <1>6 DEF RecordVersion
  <1>7. CASE ReadKey(p) BY <1>7 DEF ReadKey
  <1>8. CASE CreateKey(p) BY <1>8 DEF CreateKey
  <1>9. CASE WriteKey(p) BY <1>9 DEF WriteKey
  <1>10. CASE Serve(p) BY <1>10 DEF Serve
  <1>11. CASE FailStart(p) BY <1>11 DEF FailStart
  <1> QED BY <1>1, <1>2, <1>3, <1>4, <1>5, <1>6, <1>7, <1>8, <1>9, <1>10, <1>11 DEF StartStep

LEMMA RequestOwned ==
  ASSUME Owned, NEW p \in Processes, NEW h \in Handlers, RequestStep(p, h) PROVE Owned'
  BY DEF RequestStep, BeginRequest, CheckQueue, SendVisit, EndRequest, directory, Owned

LEMMA WorkerOwned ==
  ASSUME Owned, NEW p \in Processes, WorkerStep(p) PROVE Owned'
  BY DEF WorkerStep, BeginPass, EndPass, StoreVisit, directory, Owned

LEMMA StopOwned ==
  ASSUME Types, Owned, NEW p \in Processes, StopStep(p) PROVE Owned'
PROOF
  <1> USE DEF Types, DirectoryTypes, ProcessTypes, Owned, Step, directory, DeferredStep,
          Deferred
  <1>1. CASE BeginShutdown(p) BY <1>1 DEF BeginShutdown
  <1>2. CASE EndDrain(p) BY <1>2 DEF EndDrain
  <1>3. CASE EndWorkers(p) BY <1>3 DEF EndWorkers
  <1>4. CASE CloseQueue(p) BY <1>4 DEF CloseQueue
  <1>5. CASE EndFlush(p) BY <1>5 DEF EndFlush
  <1>6. CASE CloseStore(p) BY <1>6 DEF CloseStore
  <1>7. CASE Unlock(p)
    <2>1. \A q \in Processes : q # p => pc[q] \in {"off", "exiting"}
      BY <1>7 DEF Unlock
    <2> QED BY <1>7, <2>1 DEF Unlock
  <1> QED BY <1>1, <1>2, <1>3, <1>4, <1>5, <1>6, <1>7 DEF StopStep

LEMMA LeaveOwned ==
  ASSUME Types, Owned, NEW p \in Processes, LeaveStep(p) PROVE Owned'
PROOF
  <1>1. Ended(p)
    BY DEF LeaveStep, Exit, Crash
  <1>2. \A q \in Processes : pc'[q] \notin {"off", "exiting"} => q # p /\ lock = q
    BY <1>1 DEF Ended, Types, ProcessTypes, Owned
  <1> QED BY <1>1, <1>2 DEF Ended, Types, ProcessTypes, Owned

LEMMA PowerOwned == ASSUME PowerLoss PROVE Owned'
  BY DEF PowerLoss, Owned

-----------------------------------------------------------------------------
(***************************************************************************)
(* Visits                                                                  *)
(***************************************************************************)
LEMMA InitDelivered == Init => Delivered
  BY DEF Init, Delivered, Quiet, NoneSending, Starting, Ending

\* A start touches no request; the steps of it that matter are the first and the last.
LEMMA StartDelivered ==
  ASSUME Types, Delivered, NEW p \in Processes, StartStep(p) PROVE Delivered'
PROOF
  <1>1. UNCHANGED <<handler, queue, closed, panicked>>
    BY DEF StartStep, Lock, Open, CopyDatabase, SyncSnapshot, Migrate, RecordVersion, ReadKey,
       CreateKey, WriteKey, Serve, FailStart, serving
  <1>2. pc[p] \in Starting \cup {"off"}
    BY DEF StartStep, Lock, Open, CopyDatabase, SyncSnapshot, Migrate, RecordVersion, ReadKey,
       CreateKey, WriteKey, Serve, FailStart, Step, Starting
  <1>3. \A q \in Processes : q # p => pc'[q] = pc[q]
    BY DEF StartStep, Lock, Open, CopyDatabase, SyncSnapshot, Migrate, RecordVersion, ReadKey,
       CreateKey, WriteKey, Serve, FailStart, Step, Types, ProcessTypes
  <1>4. Quiet(p) /\ ~closed[p] /\ queue[p] = 0
    BY <1>2 DEF Delivered
  <1> QED BY <1>1, <1>3, <1>4 DEF Delivered, Quiet, NoneSending

LEMMA RequestDelivered ==
  ASSUME Types, Delivered, NEW p \in Processes, NEW h \in Handlers, RequestStep(p, h)
  PROVE  Delivered'
PROOF
  <1> USE DEF Types, ProcessTypes, ServingTypes, Handle, Quiet, NoneSending, Starting, Ending
  <1>1. ASSUME NEW q \in Processes, q # p PROVE UNCHANGED <<pc[q], handler[q], queue[q], closed[q]>>
    BY <1>1 DEF RequestStep, BeginRequest, CheckQueue, SendVisit, EndRequest
  <1>2. pc' = pc /\ closed' = closed
    BY DEF RequestStep, BeginRequest, CheckQueue, SendVisit, EndRequest
  <1>3. pc[p] \notin Starting \cup {"off"} /\ (pc[p] \in Ending => closed[p])
    BY DEF RequestStep, BeginRequest, CheckQueue, SendVisit, EndRequest, Delivered
  <1>4. ~panicked' /\ (pc[p] \in Ending => queue'[p] = 0) /\ (closed[p] => NoneSending(p)')
    <2>1. CASE BeginRequest(p, h) BY <2>1 DEF BeginRequest, Delivered
    <2>2. CASE CheckQueue(p, h) BY <2>2 DEF CheckQueue, Delivered
    <2>3. CASE SendVisit(p, h) BY <2>3, <1>3 DEF SendVisit, Delivered
    <2>4. CASE EndRequest(p, h) BY <2>4 DEF EndRequest, Delivered
    <2> QED BY <2>1, <2>2, <2>3, <2>4 DEF RequestStep
  <1> QED BY <1>1, <1>2, <1>3, <1>4 DEF Delivered

LEMMA WorkerDelivered ==
  ASSUME Types, Delivered, NEW p \in Processes, WorkerStep(p) PROVE Delivered'
PROOF
  <1>1. CASE BeginPass(p) BY <1>1 DEF BeginPass, Delivered, Quiet, NoneSending
  <1>2. CASE EndPass(p) BY <1>2 DEF EndPass, Delivered, Quiet, NoneSending
  <1>3. CASE StoreVisit(p)
    <2>1. queue[p] # 0 /\ UNCHANGED <<pc, handler, closed, panicked>>
      BY <1>3 DEF StoreVisit
    <2>2. \A q \in Processes : q # p => queue'[q] = queue[q]
      BY <1>3 DEF StoreVisit, Types, ServingTypes
    <2> QED BY <2>1, <2>2 DEF Delivered, Quiet, NoneSending
  <1> QED BY <1>1, <1>2, <1>3 DEF WorkerStep

LEMMA StopDelivered ==
  ASSUME Types, Delivered, NEW p \in Processes, StopStep(p) PROVE Delivered'
PROOF
  <1> USE DEF Types, ProcessTypes, ServingTypes, Step, DeferredStep, Deferred, directory,
          serving, Quiet, NoneSending, Starting, Ending, Delivered
  <1>1. CASE BeginShutdown(p) BY <1>1 DEF BeginShutdown
  <1>2. CASE EndDrain(p) BY <1>2 DEF EndDrain
  <1>3. CASE EndWorkers(p) BY <1>3 DEF EndWorkers
  <1>4. CASE CloseQueue(p) BY <1>4 DEF CloseQueue
  <1>5. CASE EndFlush(p) BY <1>5 DEF EndFlush, Flushed
  <1>6. CASE CloseStore(p) BY <1>6 DEF CloseStore
  <1>7. CASE Unlock(p) BY <1>7 DEF Unlock
  <1> QED BY <1>1, <1>2, <1>3, <1>4, <1>5, <1>6, <1>7 DEF StopStep

LEMMA LeaveDelivered ==
  ASSUME Types, Delivered, NEW p \in Processes, LeaveStep(p) PROVE Delivered'
  BY DEF LeaveStep, Exit, Crash, Ended, Types, ProcessTypes, ServingTypes, Delivered, Quiet,
     NoneSending, Starting, Ending

LEMMA PowerDelivered == ASSUME Delivered, PowerLoss PROVE Delivered'
  BY DEF PowerLoss, Delivered, Quiet, NoneSending, Starting, Ending

-----------------------------------------------------------------------------
(***************************************************************************)
(* The database                                                            *)
(***************************************************************************)
LEMMA InitUpgraded == Init => Upgraded
  BY DEF Init, Upgraded, PristineSnapshot

LEMMA StartUpgraded ==
  ASSUME Types, Upgraded, NEW p \in Processes, StartStep(p) PROVE Upgraded'
PROOF
  <1> USE DEF Types, DirectoryTypes, ProcessTypes, Step, directory
  <1>1. CASE Lock(p) BY <1>1 DEF Lock, Upgraded, PristineSnapshot, Pristine
  <1>2. CASE Open(p)
    <2>1. next[p] = 1 /\ 1..(next[p] - 1) \subseteq schema
      BY <1>2 DEF Open, Upgraded
    <2>2. ~Upgrade => version \/ original = {}
      BY DEF Upgrade
    <2> QED BY <1>2, <2>1, <2>2 DEF Open, Upgraded, PristineSnapshot, Pristine
  <1>3. CASE CopyDatabase(p) BY <1>3 DEF CopyDatabase, Upgraded, PristineSnapshot, Pristine
  <1>4. CASE SyncSnapshot(p)
    <2>1. original = {} \/ Pristine'
      BY <1>4 DEF SyncSnapshot, Synced, Upgraded, PristineSnapshot, Pristine
    <2>2. next[p] = 1 /\ 1..(next[p] - 1) \subseteq schema
      BY <1>4 DEF SyncSnapshot, Upgraded
    <2> QED BY <1>4, <2>1, <2>2 DEF SyncSnapshot, Synced, Upgraded, PristineSnapshot, Pristine
  <1>5. CASE Migrate(p)
    <2>1. pc[p] = "migrating" /\ next[p] \in 1..LastChange /\ LastChange \in Nat
      BY <1>5, ProcessAssumption DEF Migrate
    <2>2. /\ schema' = schema \cup {next[p]} /\ next' = [next EXCEPT ![p] = next[p] + 1]
          /\ UNCHANGED <<pc, version, original, snapshots>>
      BY <1>5 DEF Migrate, NextChange
    <2>3. version => schema' = schema
      BY <2>1, <2>2 DEF Upgraded, Changes
    <2>4. original # {} /\ schema' # original => Pristine
      BY <2>1, <2>3 DEF Upgraded, PristineSnapshot, Pristine
    <2>5. 1..(next'[p] - 1) \subseteq schema'
      <3>1. next'[p] - 1 = next[p]
        BY <2>1, <2>2
      <3>2. \A c \in 1..next[p] : c = next[p] \/ c \in 1..(next[p] - 1)
        BY <2>1
      <3> QED BY <2>1, <2>2, <3>1, <3>2 DEF Upgraded
    <2>6. ASSUME NEW q \in Processes, q # p, pc[q] = "migrating"
          PROVE  1..(next'[q] - 1) \subseteq schema'
      BY <2>2, <2>6 DEF Upgraded
    <2> QED BY <2>1, <2>2, <2>3, <2>4, <2>5, <2>6 DEF Upgraded, PristineSnapshot, Pristine
  <1>6. CASE RecordVersion(p)
    <2>1. next[p] = LastChange + 1 /\ pc[p] = "migrating"
      BY <1>6, ProcessAssumption DEF RecordVersion
    <2>2. next[p] - 1 = LastChange
      BY <2>1, ProcessAssumption
    <2>3. schema = Changes
      BY <2>1, <2>2 DEF Upgraded, Changes
    <2> QED BY <1>6, <2>3 DEF RecordVersion, Upgraded, PristineSnapshot, Pristine
  <1>7. CASE ReadKey(p) BY <1>7 DEF ReadKey, Upgraded, PristineSnapshot, Pristine
  <1>8. CASE CreateKey(p) BY <1>8 DEF CreateKey, Upgraded, PristineSnapshot, Pristine
  <1>9. CASE WriteKey(p) BY <1>9 DEF WriteKey, Upgraded, PristineSnapshot, Pristine
  <1>10. CASE Serve(p) BY <1>10 DEF Serve, Upgraded, PristineSnapshot, Pristine
  <1>11. CASE FailStart(p) BY <1>11 DEF FailStart, Upgraded, PristineSnapshot, Pristine
  <1> QED BY <1>1, <1>2, <1>3, <1>4, <1>5, <1>6, <1>7, <1>8, <1>9, <1>10, <1>11 DEF StartStep

\* q goes on as it was, or is not migrating afterwards.
Aside(q) ==
  \/ pc'[q] = pc[q] /\ next'[q] = next[q]
  \/ pc'[q] # "migrating" /\ next'[q] = 1

\* The steps after a start leave the database alone, and no process begins to migrate.
LEMMA UpgradedKept ==
  ASSUME Upgraded, UNCHANGED <<original, schema, version, snapshots>>,
         \A q \in Processes : Aside(q)
  PROVE  Upgraded'
PROOF
  <1>1. PristineSnapshot' /\ (version' => schema' = Changes)
    BY DEF Upgraded, PristineSnapshot
  <1>2. ASSUME NEW q \in Processes, pc'[q] # "migrating" PROVE next'[q] = 1
    BY <1>2 DEF Upgraded, Aside
  <1>3. ASSUME NEW q \in Processes, pc'[q] = "migrating"
        PROVE  1..(next'[q] - 1) \subseteq schema' /\ (version' \/ original' = {} \/ Pristine')
    <2>1. pc[q] = "migrating" /\ next'[q] = next[q]
      BY <1>3 DEF Aside
    <2> QED BY <2>1 DEF Upgraded, Pristine
  <1> QED BY <1>1, <1>2, <1>3 DEF Upgraded

LEMMA RequestUpgraded ==
  ASSUME Upgraded, NEW p \in Processes, NEW h \in Handlers, RequestStep(p, h) PROVE Upgraded'
PROOF
  <1>1. UNCHANGED <<directory, pc, next>>
    BY DEF RequestStep, BeginRequest, CheckQueue, SendVisit, EndRequest
  <1> QED BY <1>1, UpgradedKept DEF directory, Aside

LEMMA WorkerUpgraded ==
  ASSUME Upgraded, NEW p \in Processes, WorkerStep(p) PROVE Upgraded'
PROOF
  <1>1. UNCHANGED <<directory, pc, next>>
    BY DEF WorkerStep, BeginPass, EndPass, StoreVisit
  <1> QED BY <1>1, UpgradedKept DEF directory, Aside

LEMMA StopUpgraded ==
  ASSUME Types, Upgraded, NEW p \in Processes, StopStep(p) PROVE Upgraded'
PROOF
  <1>1. UNCHANGED <<original, schema, version, snapshots, next>>
    BY DEF StopStep, BeginShutdown, EndDrain, EndWorkers, CloseQueue, EndFlush, CloseStore,
       Unlock, directory
  <1>2. \A q \in Processes : pc'[q] = pc[q] \/ (pc'[q] # "migrating" /\ pc[q] # "migrating")
    <2> USE DEF Types, ProcessTypes, Step, DeferredStep, Deferred
    <2>1. CASE BeginShutdown(p) \/ EndDrain(p) \/ EndWorkers(p) \/ EndFlush(p)
      BY <2>1 DEF BeginShutdown, EndDrain, EndWorkers, EndFlush
    <2>2. CASE CloseStore(p) \/ Unlock(p)
      BY <2>2 DEF CloseStore, Unlock
    <2>3. CASE CloseQueue(p)
      BY <2>3 DEF CloseQueue
    <2> QED BY <2>1, <2>2, <2>3 DEF StopStep
  <1>3. \A q \in Processes : Aside(q)
    BY <1>1, <1>2 DEF Upgraded, Aside
  <1> QED BY <1>1, <1>3, UpgradedKept

LEMMA LeaveUpgraded ==
  ASSUME Types, Upgraded, NEW p \in Processes, LeaveStep(p) PROVE Upgraded'
PROOF
  <1>1. Ended(p)
    BY DEF LeaveStep, Exit, Crash
  <1>2. \A q \in Processes : Aside(q)
    BY <1>1 DEF Ended, Types, ProcessTypes, Aside
  <1> QED BY <1>1, <1>2, UpgradedKept DEF Ended

\* What was synced is not lost.
LEMMA PowerUpgraded == ASSUME Upgraded, PowerLoss PROVE Upgraded'
  BY DEF PowerLoss, Upgraded, PristineSnapshot, Pristine

-----------------------------------------------------------------------------
(***************************************************************************)
(* The order of a start                                                    *)
(***************************************************************************)
LEMMA InitPrepared == Init => Prepared
  BY DEF Init, Prepared

LEMMA StartPrepared ==
  ASSUME Types, Prepared, NEW p \in Processes, StartStep(p) PROVE Prepared'
PROOF
  <1> USE DEF Types, ProcessTypes, Step, directory, Prepared
  <1>1. CASE Lock(p) BY <1>1 DEF Lock
  <1>2. CASE Open(p) BY <1>2 DEF Open
  <1>3. CASE CopyDatabase(p) BY <1>3 DEF CopyDatabase
  <1>4. CASE SyncSnapshot(p) BY <1>4 DEF SyncSnapshot
  <1>5. CASE Migrate(p) BY <1>5 DEF Migrate
  <1>6. CASE RecordVersion(p) BY <1>6 DEF RecordVersion
  <1>7. CASE ReadKey(p) BY <1>7 DEF ReadKey
  <1>8. CASE CreateKey(p) BY <1>8 DEF CreateKey
  <1>9. CASE WriteKey(p) BY <1>9 DEF WriteKey
  <1>10. CASE Serve(p) BY <1>10 DEF Serve
  <1>11. CASE FailStart(p) BY <1>11 DEF FailStart
  <1> QED BY <1>1, <1>2, <1>3, <1>4, <1>5, <1>6, <1>7, <1>8, <1>9, <1>10, <1>11 DEF StartStep

LEMMA RequestPrepared ==
  ASSUME Prepared, NEW p \in Processes, NEW h \in Handlers, RequestStep(p, h) PROVE Prepared'
  BY DEF RequestStep, BeginRequest, CheckQueue, SendVisit, EndRequest, directory, Prepared

LEMMA WorkerPrepared ==
  ASSUME Prepared, NEW p \in Processes, WorkerStep(p) PROVE Prepared'
  BY DEF WorkerStep, BeginPass, EndPass, StoreVisit, directory, Prepared

LEMMA StopPrepared ==
  ASSUME Types, Prepared, NEW p \in Processes, StopStep(p) PROVE Prepared'
  BY DEF StopStep, BeginShutdown, EndDrain, EndWorkers, CloseQueue, EndFlush, CloseStore,
     Unlock, Step, DeferredStep, Deferred, directory, Types, ProcessTypes, Prepared

LEMMA LeavePrepared ==
  ASSUME Types, Prepared, NEW p \in Processes, LeaveStep(p) PROVE Prepared'
  BY DEF LeaveStep, Exit, Crash, Ended, Types, ProcessTypes, Prepared

LEMMA PowerPrepared == ASSUME Prepared, PowerLoss PROVE Prepared'
  BY DEF PowerLoss, Prepared

-----------------------------------------------------------------------------
(***************************************************************************)
(* Theorems                                                                *)
(***************************************************************************)
LEMMA InitIInv == Init => IInv
  BY InitTypes, InitOwned, InitDelivered, InitUpgraded, InitPrepared DEF IInv

LEMMA NextIInv == IInv /\ [Next]_vars => IInv'
PROOF
  <1> SUFFICES ASSUME IInv, [Next]_vars PROVE IInv'
    OBVIOUS
  <1>1. CASE UNCHANGED vars
    BY <1>1 DEF vars, directory, serving, IInv, Types, DirectoryTypes, ProcessTypes,
       ServingTypes, Owned, Delivered, Quiet, NoneSending, Upgraded, PristineSnapshot, Pristine,
       Prepared
  <1>2. ASSUME NEW p \in Processes, StartStep(p) PROVE IInv'
    BY <1>2, StartTypes, StartOwned, StartDelivered, StartUpgraded, StartPrepared DEF IInv
  <1>3. ASSUME NEW p \in Processes, NEW h \in Handlers, RequestStep(p, h) PROVE IInv'
    BY <1>3, RequestTypes, RequestOwned, RequestDelivered, RequestUpgraded, RequestPrepared
    DEF IInv
  <1>4. ASSUME NEW p \in Processes, WorkerStep(p) PROVE IInv'
    BY <1>4, WorkerTypes, WorkerOwned, WorkerDelivered, WorkerUpgraded, WorkerPrepared DEF IInv
  <1>5. ASSUME NEW p \in Processes, StopStep(p) PROVE IInv'
    BY <1>5, StopTypes, StopOwned, StopDelivered, StopUpgraded, StopPrepared DEF IInv
  <1>6. ASSUME NEW p \in Processes, LeaveStep(p) PROVE IInv'
    BY <1>6, LeaveTypes, LeaveOwned, LeaveDelivered, LeaveUpgraded, LeavePrepared DEF IInv
  <1>7. CASE PowerLoss
    BY <1>7, PowerTypes, PowerOwned, PowerDelivered, PowerUpgraded, PowerPrepared DEF IInv
  <1> QED BY <1>1, <1>2, <1>3, <1>4, <1>5, <1>6, <1>7, Steps

\* The invariant holds in every reachable state, whatever the number of processes, requests
\* and migrations.
THEOREM Inductive == Spec => []IInv
  BY InitIInv, NextIInv, PTL DEF Spec

\* The older database is in a synced snapshot as soon as an upgrade has changed it
\* (prepareSchemaUpgrade), wherever upgrades were interrupted.
THEOREM UpgradesAreUndoable == Spec => []PristineSnapshot
PROOF
  <1>1. IInv => PristineSnapshot
    BY DEF IInv, Upgraded
  <1> QED BY Inductive, <1>1, PTL

\* Who serves has a complete database and a whole key (the order of runServer).
THEOREM ServersAreComplete == Spec => []ServesComplete
PROOF
  <1>1. IInv => ServesComplete
    BY DEF IInv, Upgraded, Prepared, ServesComplete
  <1> QED BY Inductive, <1>1, PTL

\* One process at a time has the database open (LockDataDirectory and the order of the
\* deferred calls).
THEOREM OneStoreAtATime == Spec => []StoreExclusive
PROOF
  <1>1. IInv => StoreExclusive
    BY DEF IInv, Owned, StoreExclusive
  <1> QED BY Inductive, <1>1, PTL

\* No visit is sent into a closed queue, and none is left in it by an orderly shutdown
\* (recordVisit, Shutdown, processVisits).
THEOREM NoVisitIsLost == Spec => []VisitsFlushed
PROOF
  <1>1. IInv => VisitsFlushed
    BY DEF IInv, Delivered, Ending, VisitsFlushed
  <1> QED BY Inductive, <1>1, PTL

-----------------------------------------------------------------------------
(***************************************************************************)
(* The import of an old site.  An import is begun only where Wanted holds, *)
(* and nothing else runs until it is over (Starts); a first life that has  *)
(* got its site keeps a production deployment for good (FirstLife).        *)
(***************************************************************************)
SiteContents == Uploads \cup {Site, Part}
Deployments == [state : {"legacy", "available", "missing"}, content : SiteContents]

SiteTypes ==
  /\ lives \in Nat /\ life \in {0, lives}
  /\ production \in {Absent} \cup Deployments
  /\ archived \subseteq SiteContents /\ uploading \in SiteContents \cup {Absent}
  /\ oldDirectory \in {Absent, Site, Part}
  /\ step \in {"down", "recovered", "copied", "begun", "imported", "serving", "deleting"}
  /\ begun \in 0..MaxUploads /\ copies \in 0..2

\* There is a production deployment of this server.
Settled == production # Absent /\ production.state # "legacy"

\* What a start has seen still holds when it acts on it, for nothing else runs; and while
\* requests are served the first life of the project has its site.
Starts ==
  /\ step \in {"copied", "begun"} => Wanted
  /\ step = "begun" => production = Absent
  /\ step = "imported" => Settled
  /\ step = "deleting" => life = 0
  /\ step = "serving" /\ life = 1 /\ oldDirectory # Absent => Settled

\* A directory belongs to a life, and a first life that has got its site keeps a production
\* deployment, until it is over for good.
FirstLife ==
  /\ lives = 0 => oldDirectory = Absent /\ copies = 0
  /\ lives <= 1 => copies <= 1 /\ (copies = 1 => life = 0 \/ Settled)

\* Only the old server's deployments have no artifact.
OldSite == production # Absent /\ production.state = "legacy" => production.content = Site

SiteIInv == SiteTypes /\ Starts /\ FirstLife /\ OldSite

LEMMA LiveType == \A content \in SiteContents :
  Live(content) \in Deployments /\ Live(content) # Absent /\ Live(content).state = "available"
  BY ImportAssumption DEF Live, Deployments, SiteContents, Uploads

LEMMA InitSiteIInv == ImportInit => SiteIInv
  BY ImportAssumption DEF ImportInit, SiteIInv, SiteTypes, Starts, FirstLife, OldSite,
     Deployments, SiteContents, Settled, Wanted, Current

\* Recovery may find that an artifact is missing, and leaves the rest as it is.
LEMMA RecoverSiteIInv == ASSUME SiteIInv, Recover PROVE SiteIInv'
PROOF
  <1> USE DEF SiteIInv
  <1>1. SiteTypes'
    BY DEF Recover, SiteTypes, Deployments, SiteContents
  <1>2. CASE production' = production
    BY <1>1, <1>2 DEF Recover, Starts, FirstLife, OldSite, Settled
  <1>3. CASE /\ production # Absent /\ production.state = "available"
             /\ production' = [production EXCEPT !.state = "missing"]
    <2>1. Settled' /\ Settled /\ production'.state = "missing"
      BY <1>1, <1>3, ImportAssumption DEF SiteTypes, Deployments, SiteContents, Settled, Uploads
    <2> QED
      BY <1>1, <2>1 DEF Recover, Starts, FirstLife, OldSite
  <1> QED BY <1>2, <1>3 DEF Recover

\* An import makes the directory the production of a project that had none.
LEMMA ImportSiteIInv == ASSUME SiteIInv, Attach \/ Commit PROVE SiteIInv'
PROOF
  <1> USE DEF SiteIInv
  <1>1. /\ Wanted /\ production' = Live(oldDirectory) /\ step' = "imported"
        /\ copies' = (IF copies = 2 THEN 2 ELSE copies + 1)
        /\ uploading' \in {uploading, Absent}
        /\ UNCHANGED <<life, lives, archived, oldDirectory, begun>>
    BY DEF Attach, Commit, Import, Recorded, Starts
  <1>2. oldDirectory \in SiteContents
    BY <1>1 DEF Wanted, SiteTypes, SiteContents
  <1>3. SiteTypes' /\ Settled' /\ production'.state = "available"
    BY <1>1, <1>2, LiveType DEF SiteTypes, Settled
  <1>4. ~Settled /\ lives # 0 /\ life # 0
    BY <1>1 DEF Wanted, Current, Settled, SiteTypes
  <1> QED
    BY <1>1, <1>3, <1>4 DEF Starts, FirstLife, OldSite, SiteTypes

LEMMA StartSiteIInv == ASSUME SiteIInv, CopySite \/ Begin \/ Listen \/ Stop PROVE SiteIInv'
PROOF
  <1> USE DEF SiteIInv
  <1>1. UNCHANGED <<life, lives, production, archived, oldDirectory, begun, copies>>
    BY DEF CopySite, Begin, Listen, Stop, rows
  <1>2. SiteTypes'
    BY <1>1 DEF CopySite, Begin, Listen, Stop, rows, SiteTypes, SiteContents, Wanted
  <1>3. (Wanted' <=> Wanted) /\ (Settled' <=> Settled)
    BY <1>1 DEF Wanted, Current, Settled
  <1>4. Starts'
    BY <1>1, <1>3 DEF CopySite, Begin, Listen, Stop, Starts, Wanted, Current, Settled
  <1> QED
    BY <1>1, <1>2, <1>3, <1>4 DEF FirstLife, OldSite

\* Requests make deployments of this server, whatever they replace.
LEMMA PublishSiteIInv == ASSUME SiteIInv, EndUpload \/ Switch PROVE SiteIInv'
PROOF
  <1> USE DEF SiteIInv
  <1>1. /\ step = "serving" /\ step' = step
        /\ UNCHANGED <<life, lives, oldDirectory, begun, copies>>
        /\ uploading' \in {uploading, Absent}
    BY DEF EndUpload, Switch
  <1>2. Retained \subseteq SiteContents
    BY DEF Retained, SiteTypes, Deployments
  <1>3. archived' \subseteq SiteContents
    BY <1>2 DEF EndUpload, Switch, SiteTypes
  <1>4. CASE production' = production
    BY <1>1, <1>3, <1>4 DEF SiteTypes, Starts, FirstLife, OldSite, Settled, Wanted
  <1>5. ASSUME NEW content \in SiteContents, production' = Live(content) PROVE SiteIInv'
    <2>1. production' \in Deployments /\ Settled' /\ production'.state = "available"
      BY <1>5, LiveType DEF Settled
    <2> QED
      BY <1>1, <1>3, <2>1 DEF SiteTypes, Starts, FirstLife, OldSite
  <1>6. production' = production \/ \E content \in SiteContents : production' = Live(content)
    BY DEF EndUpload, Switch, SiteTypes
  <1> QED BY <1>4, <1>5, <1>6

LEMMA RequestSiteIInv ==
  ASSUME SiteIInv, BeginUpload \/ DeleteRows \/ RemoveDirectory
  PROVE  SiteIInv'
PROOF
  <1> USE DEF SiteIInv
  <1>1. CASE BeginUpload
    <2>1. begun' \in 1..MaxUploads /\ begun' \in 0..MaxUploads /\ begun' \in SiteContents
      BY <1>1, ImportAssumption DEF BeginUpload, SiteTypes, SiteContents, Uploads
    <2>2. SiteTypes'
      BY <1>1, <2>1 DEF BeginUpload, SiteTypes
    <2> QED
      BY <1>1, <2>2, ImportAssumption DEF BeginUpload, SiteTypes, Starts, FirstLife, OldSite,
         Settled
  <1>2. CASE DeleteRows
    BY <1>2 DEF DeleteRows, Gone, SiteTypes, Starts, FirstLife, OldSite
  <1>3. CASE RemoveDirectory
    BY <1>3, ImportAssumption DEF RemoveDirectory, rows, SiteTypes, Starts, FirstLife, OldSite,
       Settled
  <1> QED BY <1>1, <1>2, <1>3

LEMMA NextSiteIInv == ASSUME SiteIInv, [ImportNext]_importVars PROVE SiteIInv'
PROOF
  <1>1. CASE UNCHANGED importVars
    BY <1>1 DEF importVars, rows, SiteIInv, SiteTypes, Starts, FirstLife, OldSite, Settled,
       Wanted, Current
  <1> QED
    BY <1>1, RecoverSiteIInv, ImportSiteIInv, StartSiteIInv, PublishSiteIInv, RequestSiteIInv
       DEF ImportNext

\* The invariant holds in every reachable state, however many lives and uploads there are.
THEOREM SiteInductive == ImportSpec => []SiteIInv
  BY InitSiteIInv, NextSiteIInv, PTL DEF ImportSpec

\* The old site is back when requests are served, and comes back once (importLegacy,
\* wherever starts are interrupted).
THEOREM SiteIsBackOnce == ImportSpec => []SiteBackOnce
PROOF
  <1>1. SiteIInv => SiteBackOnce
    BY DEF SiteIInv, SiteTypes, Starts, FirstLife, Settled, SiteBackOnce
  <1> QED BY SiteInductive, <1>1, PTL

\* No start replaces what this server has published.
THEOREM NewerIsKept == ImportSpec => NewerKept
PROOF
  <1> DEFINE Kept == production # Absent /\ production.content \in Uploads /\ step # "serving"
                       => production' # Absent /\ production'.content = production.content
  <1>1. ASSUME SiteIInv, [ImportNext]_importVars,
               production # Absent, production.content \in Uploads, step # "serving"
        PROVE  production' # Absent /\ production'.content = production.content
    <2>1. ~Attach /\ ~Commit
      BY <1>1, ImportAssumption DEF Attach, Commit, SiteIInv, Starts, OldSite, Uploads
    <2>2. CASE Recover
      BY <1>1, <2>2, ImportAssumption DEF Recover, SiteIInv, SiteTypes, Deployments,
         SiteContents, Uploads
    <2>3. CASE UNCHANGED production
      BY <1>1, <2>3
    <2> QED
      BY <1>1, <2>1, <2>2, <2>3 DEF ImportNext, CopySite, Begin, Listen, Stop, BeginUpload,
         EndUpload, Switch, DeleteRows, RemoveDirectory, rows, importVars
  <1>2. SiteIInv /\ [ImportNext]_importVars => [Kept]_importVars
    BY <1>1
  <1> QED BY SiteInductive, <1>2, PTL DEF ImportSpec, NewerKept

-----------------------------------------------------------------------------
(***************************************************************************)
(* Backups and restoration.  What is linked or moved to its path has been  *)
(* written and synced before, so nothing that fails takes a part of it     *)
(* (Sealed); and what is reported has a directory entry that stays.        *)
(***************************************************************************)
\* Content that no failure takes anything of.
Sealed(content) ==
  content \in Content /\ content.written = TRUE /\ content.synced = TRUE /\ Complete(content)

Data == data \in [rows : SUBSET Ids, trees : SUBSET Ids]

\* What a backup is about to link is sealed, and stays at its path once linked.
Backups ==
  /\ backup \in [step : {"idle", "locked", "copying", "copied", "packed", "linked"},
                 output : Outputs \cup {None}, content : Content]
  /\ backup.content.written = TRUE
  /\ backup.step # "idle" => backup.output \in Outputs
  /\ backup.step \in {"packed", "linked"} => Sealed(backup.content)
  /\ backup.step = "linked" => output[backup.output] \in Content

Archives ==
  /\ output \in [Outputs -> {None, Foreign} \cup Content]
  /\ \A o \in Outputs : output[o] \in Content => Sealed(output[o])
  /\ created \subseteq Outputs
  /\ \A o \in created : o \in durable /\ output[o] \in Content

\* A restore moves only what it has validated and synced.
Restores ==
  /\ restore \in [Restorers -> [step : {"idle", "unpacked", "ready", "clear", "moved"},
                                content : Content]]
  /\ \A r \in Restorers :
       /\ restore[r].step \in {"ready", "clear", "moved"} => Sealed(restore[r].content)
       /\ restore[r].step = "moved" => target \in Content

Target ==
  /\ target \in {None, Empty, Foreign} \cup Content
  /\ target \in Content => Sealed(target)
  /\ restored => "target" \in durable /\ target \in Content

BackupIInv == Data /\ Backups /\ Archives /\ Restores /\ Target

-----------------------------------------------------------------------------
LEMMA NothingSealed == Nothing \in Content /\ Nothing.written = TRUE
  BY DEF Nothing, Content

LEMMA Outsiders == None \notin Content /\ Empty \notin Content /\ Foreign \notin Content
  BY BackupAssumption

\* A power failure leaves what is sealed as it is, or takes its entry, if that was not synced.
LEMMA SealedLeft ==
  ASSUME NEW path, NEW content, content \in Content => Sealed(content)
  PROVE  /\ content \in Left(path, content)
         /\ Left(path, content) \subseteq {None, content}
         /\ path \in durable => Left(path, content) = {content}
PROOF
  <1> DEFINE kept == IF content \in Content
                     THEN [content EXCEPT !.written = @ /\ content.synced] ELSE content
  <1>1. kept = content
    <2>1. CASE content \in Content
      <3>1. content.written = TRUE /\ content.synced = TRUE
        BY <2>1 DEF Sealed
      <3>2. (content.written /\ content.synced) = content.written
        BY <3>1
      <3>3. [content EXCEPT !.written = content.written] = content
        BY <2>1 DEF Content
      <3> QED BY <2>1, <3>2, <3>3
    <2>2. CASE content \notin Content
      BY <2>2
    <2> QED BY <2>1, <2>2
  <1>2. Left(path, content) = IF path \in durable THEN {kept} ELSE {None, kept}
    BY DEF Left
  <1> HIDE DEF kept
  <1> QED BY <1>1, <1>2

LEMMA InitBackupIInv == BackupInit => BackupIInv
PROOF
  <1> SUFFICES ASSUME BackupInit PROVE BackupIInv
    OBVIOUS
  <1>1. Data
    BY DEF BackupInit, Data
  <1>2. Backups
    BY NothingSealed DEF BackupInit, Idle, Backups
  <1>3. Archives
    BY Outsiders DEF BackupInit, Archives
  <1>4. Restores
    BY NothingSealed DEF BackupInit, Resting, Restores
  <1>5. Target
    BY Outsiders DEF BackupInit, Target
  <1> QED BY <1>1, <1>2, <1>3, <1>4, <1>5 DEF BackupIInv

-----------------------------------------------------------------------------
\* The server of the source touches the data only.
LEMMA ServingBackupIInv ==
  ASSUME BackupIInv, \/ StartServer \/ StopServer
               \/ \E id \in Ids : PublishArtifact(id) \/ Damage(id)
  PROVE  BackupIInv'
PROOF
  <1>1. UNCHANGED <<archives, restoration, durable>>
    BY DEF StartServer, StopServer, PublishArtifact, Damage
  <1>2. Data'
    BY DEF BackupIInv, Data, StartServer, StopServer, PublishArtifact, Damage
  <1> QED
    BY <1>1, <1>2 DEF BackupIInv, Backups, Archives, Restores, Target, archives, restoration,
       Sealed

\* Until it links its archive a backup works aside.
LEMMA AsideBackupIInv ==
  ASSUME BackupIInv, \/ \E o \in Outputs : BeginBackup(o)
               \/ Snapshot \/ CopyTree \/ Pack \/ FailBackup
  PROVE  BackupIInv'
PROOF
  <1>1. UNCHANGED <<data, output, rotten, created, restoration, durable>>
    BY DEF BeginBackup, Snapshot, CopyTree, Pack, FailBackup, source
  <1>2. Data' /\ Archives' /\ Restores' /\ Target'
    BY <1>1 DEF BackupIInv, Data, Archives, Restores, Target, restoration
  <1>3. ASSUME NEW o \in Outputs, BeginBackup(o) PROVE Backups'
    BY <1>3, NothingSealed DEF BeginBackup, Idle, Backups
  <1>4. ASSUME Snapshot PROVE Backups'
    <2>1. /\ backup'.content.rows = data.rows /\ backup'.content.written = TRUE
          /\ backup'.content \in Content /\ backup'.step = "copying"
      BY <1>4 DEF Snapshot, BackupIInv, Data, Backups, Content
    <2> QED BY <1>1, <1>4, <2>1 DEF Snapshot, BackupIInv, Backups
  <1>5. ASSUME CopyTree PROVE Backups'
    <2>1. /\ backup'.content.written = TRUE
          /\ backup'.content \in Content /\ backup'.step = "copied"
      BY <1>5 DEF CopyTree, BackupIInv, Data, Backups, Content
    <2> QED BY <1>1, <1>5, <2>1 DEF CopyTree, BackupIInv, Backups
  <1>6. ASSUME Pack PROVE Backups'
    <2>1. Sealed(backup'.content) /\ backup'.step = "packed"
      BY <1>6 DEF Pack, Packed, BackupIInv, Backups, Content, Sealed, Complete
    <2> QED BY <1>1, <1>6, <2>1 DEF Pack, BackupIInv, Backups, Sealed
  <1>7. ASSUME FailBackup PROVE Backups'
    BY <1>1, <1>7, NothingSealed DEF FailBackup, Idle, Backups
  <1>8. Backups'
    BY <1>3, <1>4, <1>5, <1>6, <1>7
  <1> QED BY <1>2, <1>8 DEF BackupIInv

\* What is linked is sealed, and what is reported is there, its entry synced.
LEMMA LinkBackupIInv == ASSUME BackupIInv, Link PROVE BackupIInv'
PROOF
  <1>1. /\ backup.step = "packed" /\ backup.output \in Outputs /\ Sealed(backup.content)
        /\ output[backup.output] = None
        /\ output' = [output EXCEPT ![backup.output] = backup.content]
        /\ backup' = [backup EXCEPT !.step = "linked"]
        /\ UNCHANGED <<data, created, restore, target, restored, durable>>
    BY DEF Link, Links, BackupIInv, Backups, source, restoration
  <1>2. output'[backup.output] = backup.content /\ Sealed(output'[backup.output])
    BY <1>1 DEF BackupIInv, Archives
  <1>3. \A o \in Outputs : o # backup.output => output'[o] = output[o]
    BY <1>1 DEF BackupIInv, Archives
  <1>4. Archives'
    <2>1. output' \in [Outputs -> {None, Foreign} \cup Content]
      BY <1>1 DEF BackupIInv, Archives, Sealed
    <2>2. \A o \in Outputs : output'[o] \in Content => Sealed(output'[o])
      BY <1>2, <1>3 DEF BackupIInv, Archives
    <2>3. backup.output \notin created
      BY <1>1, Outsiders DEF BackupIInv, Archives
    <2> QED BY <1>1, <1>3, <2>1, <2>2, <2>3 DEF BackupIInv, Archives
  <1>5. Backups'
    BY <1>1, <1>2 DEF BackupIInv, Backups, Sealed
  <1> QED BY <1>1, <1>4, <1>5 DEF BackupIInv, Data, Restores, Target

LEMMA EndBackupIInv == ASSUME BackupIInv, EndBackup PROVE BackupIInv'
PROOF
  <1>1. /\ backup.output \in Outputs /\ output[backup.output] \in Content
        /\ durable' = durable \cup {backup.output}
        /\ created' = created \cup {backup.output} /\ backup' = Idle
        /\ UNCHANGED <<data, output, restore, target, restored>>
    BY DEF EndBackup, SyncDir, BackupIInv, Backups, restoration
  <1>2. Backups'
    BY <1>1, NothingSealed DEF Idle, Backups
  <1> QED BY <1>1, <1>2 DEF BackupIInv, Data, Archives, Restores, Target

\* Somebody else's file at a path, or damage to an archive.
LEMMA InterferenceBackupIInv ==
  ASSUME BackupIInv, \E o \in Outputs : Occupy(o) \/ Rot(o) PROVE BackupIInv'
PROOF
  <1>1. ASSUME NEW o \in Outputs, Occupy(o) PROVE BackupIInv'
    <2>1. /\ output[o] = None /\ output' = [output EXCEPT ![o] = Foreign]
          /\ durable' = durable \cup {o}
          /\ UNCHANGED <<data, backup, created, restore, target, restored>>
      BY <1>1 DEF Occupy, source, restoration
    <2>2. o \notin created /\ (backup.step = "linked" => backup.output # o)
      BY <2>1, Outsiders DEF BackupIInv, Archives, Backups
    <2> QED BY <2>1, <2>2, Outsiders DEF BackupIInv, Data, Backups, Archives, Restores, Target
  <1>2. ASSUME NEW o \in Outputs, Rot(o) PROVE BackupIInv'
    BY <1>2 DEF Rot, source, restoration, BackupIInv, Data, Backups, Archives, Restores, Target
  <1> QED BY <1>1, <1>2

-----------------------------------------------------------------------------
\* Until it moves its directory a restore works aside.
LEMMA RestoringBackupIInv ==
  ASSUME BackupIInv, NEW r \in Restorers,
         \/ \E o \in Outputs : Unpack(r, o)
         \/ Assemble(r) \/ CheckTarget(r) \/ FailRestore(r)
  PROVE  BackupIInv'
PROOF
  <1>1. UNCHANGED <<data, backup, output, created, target, restored, durable>>
    BY DEF Unpack, Assemble, CheckTarget, FailRestore, source, archives
  <1>2. Data' /\ Backups' /\ Archives' /\ Target'
    BY <1>1 DEF BackupIInv, Data, Backups, Archives, Target
  <1>3. \A s \in Restorers : s # r => restore'[s] = restore[s]
    BY DEF Unpack, Assemble, CheckTarget, FailRestore, BackupIInv, Restores
  <1>4. /\ restore' = [restore EXCEPT ![r] = restore'[r]]
        /\ restore'[r].step \in {"idle", "unpacked", "ready", "clear"}
        /\ restore'[r] \in [step : {"idle", "unpacked", "ready", "clear", "moved"},
                            content : Content]
        /\ restore'[r].step \in {"ready", "clear"} => Sealed(restore'[r].content)
    <2>1. ASSUME NEW o \in Outputs, Unpack(r, o)
          PROVE  /\ restore' = [restore EXCEPT ![r] = restore'[r]]
                 /\ restore'[r].step = "unpacked" /\ restore'[r].content \in Content
                 /\ restore'[r] \in [step : {"unpacked"}, content : Content]
      <3> DEFINE damaged ==
            [output[o] EXCEPT !.written = @ /\ o \notin rotten, !.synced = FALSE]
      <3>1. output[o].written \in BOOLEAN /\ output[o] \in Content
        BY <2>1 DEF Unpack, Content
      <3>2. (output[o].written /\ o \notin rotten) \in BOOLEAN
        OBVIOUS
      <3>3. damaged \in Content
        BY <3>1, <3>2 DEF Content
      <3>4. restore' = [restore EXCEPT ![r] = [step |-> "unpacked", content |-> damaged]]
        BY <2>1 DEF Unpack
      <3> HIDE DEF damaged
      <3> QED BY <3>3, <3>4 DEF BackupIInv, Restores
    <2>2. CASE Assemble(r)
      <3>1. Sealed(SyncTree(restore[r].content))
        BY <2>2 DEF Assemble, Valid, SyncTree, Sealed, Complete, Content, BackupIInv, Restores
      <3>2. restore' = [restore EXCEPT ![r] =
                          [step |-> "ready", content |-> SyncTree(restore[r].content)]]
        BY <2>2 DEF Assemble
      <3> QED BY <3>1, <3>2 DEF Sealed, BackupIInv, Restores
    <2>3. CASE CheckTarget(r)
      BY <2>3 DEF CheckTarget, BackupIInv, Restores
    <2>4. CASE FailRestore(r)
      BY <2>4, NothingSealed DEF FailRestore, Resting, BackupIInv, Restores
    <2> QED BY <2>1, <2>2, <2>3, <2>4
  <1>5. Restores'
    BY <1>1, <1>3, <1>4 DEF BackupIInv, Restores
  <1> QED BY <1>2, <1>5 DEF BackupIInv

\* A directory is put where there is nothing that was restored.
LEMMA MoveBackupIInv ==
  ASSUME BackupIInv, NEW r \in Restorers, MoveIntoPlace(r) PROVE BackupIInv'
PROOF
  <1>1. /\ Sealed(restore[r].content) /\ target' = restore[r].content
        /\ target \notin Content /\ durable' = durable \ {"target"}
        /\ restore' = [restore EXCEPT ![r].step = "moved"]
        /\ UNCHANGED <<data, backup, output, created, restored>>
    BY Outsiders DEF MoveIntoPlace, Renames, BackupIInv, Restores, source, archives
  <1>2. Archives'
    BY <1>1, BackupAssumption DEF BackupIInv, Archives
  <1>3. Target'
    BY <1>1 DEF BackupIInv, Target, Sealed
  <1>4. Restores'
    BY <1>1 DEF BackupIInv, Restores, Sealed
  <1> QED BY <1>1, <1>2, <1>3, <1>4 DEF BackupIInv, Data, Backups

LEMMA EndRestoreIInv ==
  ASSUME BackupIInv, NEW r \in Restorers, EndRestore(r) PROVE BackupIInv'
PROOF
  <1>1. /\ target \in Content /\ durable' = durable \cup {"target"} /\ restored' = TRUE
        /\ restore' = [restore EXCEPT ![r] = Resting]
        /\ UNCHANGED <<data, backup, output, created, target>>
    BY DEF EndRestore, SyncDir, BackupIInv, Restores, source, archives
  <1> QED BY <1>1, NothingSealed DEF BackupIInv, Data, Backups, Archives, Restores, Target,
     Resting

\* A server makes and fills a directory only where there was none.
LEMMA HostBackupIInv == ASSUME BackupIInv, MakeDirectory \/ OpenDirectory PROVE BackupIInv'
PROOF
  <1>1. /\ UNCHANGED <<data, backup, output, created, restore, restored, durable>>
        /\ target' = target \/ (target \in {None, Empty} /\ target' \in {Empty, Foreign})
    BY DEF MakeDirectory, OpenDirectory, source, archives
  <1> QED BY <1>1, Outsiders DEF BackupIInv, Data, Backups, Archives, Restores, Target

-----------------------------------------------------------------------------
\* A power failure stops everybody, and takes of the paths what was not synced.
LEMMA PowerBackupIInv == ASSUME BackupIInv, PowerFails PROVE BackupIInv'
PROOF
  <1>1. /\ output' \in [Outputs -> UNION {Left(o, output[o]) : o \in Outputs}]
        /\ \A o \in Outputs : output'[o] \in Left(o, output[o])
        /\ target' \in Left("target", target)
        /\ backup' = Idle /\ restore' = [r \in Restorers |-> Resting]
        /\ UNCHANGED <<data, created, restored, durable>>
    BY DEF PowerFails
  <1>2. \A o \in Outputs : /\ output'[o] \in {None, output[o]}
                           /\ o \in durable => output'[o] = output[o]
    BY <1>1, SealedLeft DEF BackupIInv, Archives
  <1>3. /\ target' \in {None, target}
        /\ "target" \in durable => target' = target
    BY <1>1, SealedLeft DEF BackupIInv, Target
  <1>4. output' \in [Outputs -> {None, Foreign} \cup Content]
    BY <1>1, <1>2 DEF BackupIInv, Archives
  <1>5. Archives'
    BY <1>1, <1>2, <1>4, Outsiders DEF BackupIInv, Archives
  <1>6. Target'
    BY <1>1, <1>3, Outsiders DEF BackupIInv, Target
  <1>7. Backups' /\ Restores'
    BY <1>1, NothingSealed DEF Idle, Resting, Backups, Restores
  <1> QED BY <1>1, <1>5, <1>6, <1>7 DEF BackupIInv, Data

LEMMA NextBackupIInv == ASSUME BackupIInv, [BackupNext]_backupVars PROVE BackupIInv'
PROOF
  <1>1. CASE UNCHANGED backupVars
    BY <1>1 DEF backupVars, source, archives, restoration, BackupIInv, Data, Backups, Archives,
       Restores, Target
  <1> QED
    BY <1>1, ServingBackupIInv, AsideBackupIInv, LinkBackupIInv, EndBackupIInv,
       InterferenceBackupIInv, RestoringBackupIInv, MoveBackupIInv, EndRestoreIInv,
       HostBackupIInv, PowerBackupIInv DEF BackupNext

\* The invariant holds in every reachable state, whatever fails.
THEOREM BackupInductive == BackupSpec => []BackupIInv
  BY InitBackupIInv, NextBackupIInv, PTL DEF BackupSpec

\* An archive and a restored directory are whole or not there (Create, Restore).
THEOREM BackupsAreWhole == BackupSpec => []WholeOrAbsent
PROOF
  <1>1. BackupIInv => WholeOrAbsent
    BY DEF BackupIInv, Archives, Target, Sealed, Complete, WholeOrAbsent
  <1> QED BY BackupInductive, <1>1, PTL

\* What Create and Restore have reported stays.
THEOREM ReportsAreFinal == BackupSpec => []ReportedStays
PROOF
  <1>1. BackupIInv => ReportedStays
    BY DEF BackupIInv, Archives, Target, Sealed, ReportedStays
  <1> QED BY BackupInductive, <1>1, PTL

\* No step replaces what is at a path, except by what a power failure leaves of it.
THEOREM NothingIsReplaced == BackupSpec => NothingReplaced
PROOF
  <1> DEFINE Kept == /\ \A o \in Outputs : Untouched(o, output[o], output'[o])
                     /\ Untouched("target", target, target')
  <1>1. ASSUME BackupIInv, [BackupNext]_backupVars PROVE Kept
    <2>1. /\ \A o \in Outputs : output[o] \in Left(o, output[o])
          /\ target \in Left("target", target)
      BY <1>1, SealedLeft DEF BackupIInv, Archives, Target
    <2>2. CASE PowerFails
      BY <2>2 DEF PowerFails, Untouched
    <2>3. CASE ~PowerFails
      <3>1. \A o \in Outputs : output'[o] = output[o] \/ output[o] = None
        BY <1>1, <2>3 DEF BackupNext, StartServer, StopServer, PublishArtifact, Damage,
           BeginBackup, Occupy, Rot, Snapshot, CopyTree, Pack, Link, Links, EndBackup,
           FailBackup, Unpack, Assemble, CheckTarget, MoveIntoPlace, EndRestore, FailRestore,
           MakeDirectory, OpenDirectory, archives, backupVars, BackupIInv, Archives
      <3>2. target' = target \/ target \in {None, Empty}
        BY <1>1, <2>3 DEF BackupNext, StartServer, StopServer, PublishArtifact, Damage,
           BeginBackup, Occupy, Rot, Snapshot, CopyTree, Pack, Link, EndBackup, FailBackup,
           Unpack, Assemble, CheckTarget, MoveIntoPlace, Renames, EndRestore, FailRestore,
           MakeDirectory, OpenDirectory, restoration, backupVars
      <3> QED BY <2>1, <3>1, <3>2 DEF Untouched
    <2> QED BY <2>2, <2>3
  <1>2. BackupIInv /\ [BackupNext]_backupVars => [Kept]_backupVars
    BY <1>1
  <1> QED BY BackupInductive, <1>2, PTL DEF BackupSpec, NothingReplaced
=============================================================================
