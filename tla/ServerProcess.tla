----------------------------- MODULE ServerProcess -----------------------------
(***************************************************************************)
(* Server processes on one data directory, from the lock to the exit:      *)
(* upgrade of the database, key file, recovery, listeners, requests and    *)
(* the visits they record, and the bounded shutdown; with deaths and power *)
(* failures between any two steps, and with processes that are started     *)
(* while another runs.                                                     *)
(***************************************************************************)
EXTENDS Integers, FiniteSets, FiniteSetsExt

CONSTANTS
  Processes,   \* bound: processes at a time
  Handlers,    \* bound: requests in flight in a process
  LastChange,  \* number of statements in the migrations
  QueueSize,   \* bound: capacity of the queue of visits; 1000 in the code
  Nobody       \* the lock is free

ASSUME ProcessAssumption ==
  /\ LastChange \in Nat \ {0} /\ QueueSize \in Nat \ {0} /\ Nobody \notin Processes

\* The statements of all migrations, in their order.
Changes == 1..LastChange

VARIABLES
  \* the data directory
  lock,       \* server.lock: who holds it
  original,   \* tables and columns that the database had before this version
  schema,     \* and those it has now
  version,    \* user_version is SchemaVersion
  snapshots,  \* upgrade-backups: [schema, synced]
  key,        \* hmac.key: "none", "short", "whole"
  \* processes
  pc,         \* pc[p]: step of runServer
  next,       \* next[p]: the migration statement to run
  opened,     \* opened[p]: its database connection is open
  handler,    \* handler[p][h]: "idle", "busy", "checked" (in recordVisit, past the check)
  worker,     \* worker[p]: "off", "idle", "pass" (maintenance waits for handlers)
  queue,      \* queue[p]: visits in the channel
  closed,     \* closed[p]: visitsClosed
  panicked    \* a visit was sent into a closed channel

directory == <<lock, original, schema, version, snapshots, key>>
serving == <<handler, worker, queue, closed, panicked>>
vars == <<directory, pc, next, opened, serving>>

Init ==
  /\ lock = Nobody /\ original \in SUBSET Changes /\ schema = original
  /\ version = FALSE /\ snapshots = {} /\ key = "none"
  /\ pc = [p \in Processes |-> "off"] /\ next = [p \in Processes |-> 1]
  /\ opened = [p \in Processes |-> FALSE]
  /\ handler = [p \in Processes |-> [h \in Handlers |-> "idle"]]
  /\ worker = [p \in Processes |-> "off"] /\ queue = [p \in Processes |-> 0]
  /\ closed = [p \in Processes |-> FALSE] /\ panicked = FALSE

Step(p, from, to) == pc[p] = from /\ pc' = [pc EXCEPT ![p] = to]

-----------------------------------------------------------------------------
(***************************************************************************)
(* Start                                                                   *)
(***************************************************************************)
\* LockDataDirectory does not wait: a second process gives up.
Lock(p) ==
  /\ Step(p, "off", "locked") /\ lock = Nobody /\ lock' = p
  /\ UNCHANGED <<original, schema, version, snapshots, key, next, opened, serving>>

\* prepareSchemaUpgrade: an upgrade is ahead of a database that has tables.
Upgrade == ~version /\ schema # {}

Open(p) ==
  /\ \/ Upgrade /\ Step(p, "locked", "copying")
     \/ ~Upgrade /\ Step(p, "locked", "migrating")
  /\ opened' = [opened EXCEPT ![p] = TRUE]
  /\ UNCHANGED <<directory, next, serving>>

\* VACUUM INTO a new file.
CopyDatabase(p) ==
  /\ Step(p, "copying", "copied")
  /\ snapshots' = snapshots \cup {[schema |-> schema, synced |-> FALSE]}
  /\ UNCHANGED <<lock, original, schema, version, key, next, opened, serving>>

\* Fault: the snapshot is not flushed.
SyncedNothing == snapshots

\* The file, its directory, and the directory of that.
Synced == snapshots \cup {[schema |-> schema, synced |-> TRUE]}

SyncSnapshot(p) ==
  /\ Step(p, "copied", "migrating") /\ snapshots' = Synced
  /\ UNCHANGED <<lock, original, schema, version, key, next, opened, serving>>

\* Fault: the migrations go on where the database seems to have been left.
NextMissing(p) ==
  IF \E c \in schema : c >= next[p] THEN Max(schema) + 1 ELSE next[p] + 1

\* runMigrations: all of them, at every start, each unless it is there already.
NextChange(p) == next[p] + 1

Migrate(p) ==
  /\ pc[p] = "migrating" /\ next[p] <= LastChange
  /\ schema' = schema \cup {next[p]}
  /\ next' = [next EXCEPT ![p] = NextChange(p)]
  /\ UNCHANGED <<lock, original, version, snapshots, key, pc, opened, serving>>

RecordVersion(p) ==
  /\ Step(p, "migrating", "stored") /\ next[p] > LastChange
  /\ version' = TRUE /\ next' = [next EXCEPT ![p] = 1]
  /\ UNCHANGED <<lock, original, schema, snapshots, key, opened, serving>>

\* loadOrGenerateHMACKey.
ReadKey(p) ==
  /\ Step(p, "stored", "keyed") /\ key = "whole"
  /\ UNCHANGED <<directory, next, opened, serving>>

CreateKey(p) ==
  /\ Step(p, "stored", "creating") /\ key = "none" /\ key' = "short"
  /\ UNCHANGED <<lock, original, schema, version, snapshots, next, opened, serving>>

WriteKey(p) ==
  /\ Step(p, "creating", "keyed") /\ key' = "whole"
  /\ UNCHANGED <<lock, original, schema, version, snapshots, next, opened, serving>>

\* assembleServer with PrepareDeployments, the listeners, the consumer and the workers.
Serve(p) ==
  /\ Step(p, "keyed", "serving")
  /\ worker' = [worker EXCEPT ![p] = "idle"]
  /\ UNCHANGED <<directory, next, opened, handler, queue, closed, panicked>>

\* Any step of the start may fail; a short key always does.  The deferred calls follow.
FailStart(p) ==
  /\ pc[p] \in {"locked", "copying", "copied", "migrating", "stored", "creating", "keyed"}
  /\ pc' = [pc EXCEPT ![p] = "flushed"] /\ next' = [next EXCEPT ![p] = 1]
  /\ UNCHANGED <<directory, opened, serving>>

-----------------------------------------------------------------------------
(***************************************************************************)
(* Requests, visits and maintenance                                        *)
(***************************************************************************)
Handle(p, h, from, to) ==
  handler[p][h] = from /\ handler' = [handler EXCEPT ![p][h] = to]

BeginRequest(p, h) ==
  /\ pc[p] = "serving" /\ Handle(p, h, "idle", "busy")
  /\ UNCHANGED <<directory, pc, next, opened, worker, queue, closed, panicked>>

\* recordVisit takes visitsMu for reading and looks whether the queue is closed.
CheckQueue(p, h) ==
  /\ ~closed[p] /\ Handle(p, h, "busy", "checked")
  /\ UNCHANGED <<directory, pc, next, opened, worker, queue, closed, panicked>>

\* The visit is queued, or dropped when the queue is full.
SendVisit(p, h) ==
  /\ Handle(p, h, "checked", "idle")
  /\ IF closed[p] THEN panicked' = TRUE /\ queue' = queue
     ELSE /\ panicked' = panicked
          /\ queue' = [queue EXCEPT ![p] = IF @ = QueueSize THEN @ ELSE @ + 1]
  /\ UNCHANGED <<directory, pc, next, opened, worker, closed>>

\* A request that records no visit, or comes too late for it.
EndRequest(p, h) ==
  /\ Handle(p, h, "busy", "idle")
  /\ UNCHANGED <<directory, pc, next, opened, worker, queue, closed, panicked>>

\* processVisits: a visit is stored, or its failure is logged.
StoreVisit(p) ==
  /\ queue[p] > 0 /\ pc[p] \notin {"flushed", "released", "off"}
  /\ queue' = [queue EXCEPT ![p] = @ - 1]
  /\ UNCHANGED <<directory, pc, next, opened, handler, worker, closed, panicked>>

BeginPass(p) ==
  /\ pc[p] = "serving" /\ worker[p] = "idle" /\ worker' = [worker EXCEPT ![p] = "pass"]
  /\ UNCHANGED <<directory, pc, next, opened, handler, queue, closed, panicked>>

\* A pass takes deploymentMu, which requests hold for reading; bg or not, it waits for them.
EndPass(p) ==
  /\ worker[p] = "pass" /\ \A h \in Handlers : handler[p][h] = "idle"
  /\ worker' = [worker EXCEPT ![p] = "idle"]
  /\ UNCHANGED <<directory, pc, next, opened, handler, queue, closed, panicked>>

-----------------------------------------------------------------------------
(***************************************************************************)
(* Shutdown                                                                *)
(***************************************************************************)
\* A signal, or a listener that fails.
BeginShutdown(p) ==
  /\ Step(p, "serving", "draining")
  /\ UNCHANGED <<directory, next, opened, serving>>

\* Fault: Shutdown without a deadline.
DrainedFully(p) == \A h \in Handlers : handler[p][h] = "idle"

\* All requests are complete, or 15 seconds are over; then their connections are closed,
\* and they go on until they notice.
Drained(p) == TRUE

EndDrain(p) ==
  /\ Step(p, "draining", "waiting") /\ Drained(p)
  /\ UNCHANGED <<directory, next, opened, serving>>

\* workers.Wait.
EndWorkers(p) ==
  /\ Step(p, "waiting", "flushing") /\ worker[p] = "idle"
  /\ worker' = [worker EXCEPT ![p] = "off"]
  /\ UNCHANGED <<directory, next, opened, handler, queue, closed, panicked>>

\* Fault: visitsClosed is set without the lock.
UnsentIgnored(p) == TRUE

\* visitsMu: no request is between its check and its send.
NoneSending(p) == \A h \in Handlers : handler[p][h] # "checked"

CloseQueue(p) ==
  /\ pc[p] = "flushing" /\ ~closed[p] /\ NoneSending(p)
  /\ closed' = [closed EXCEPT ![p] = TRUE]
  /\ UNCHANGED <<directory, pc, next, opened, handler, worker, queue, panicked>>

Flushed(p) == closed[p] /\ queue[p] = 0

EndFlush(p) ==
  /\ Step(p, "flushing", "flushed") /\ Flushed(p)
  /\ UNCHANGED <<directory, next, opened, serving>>

\* Fault: the deferred calls in the other order.
ReleasedFirst(p) == [closes |-> "released", unlocks |-> "flushed"]

\* Which step each of the two deferred calls follows: the store is closed, then the lock.
Deferred(p) == [closes |-> "flushed", unlocks |-> "released"]

DeferredStep(p, from) ==
  pc[p] = from /\ pc' = [pc EXCEPT ![p] = IF from = "flushed" THEN "released" ELSE "exiting"]

CloseStore(p) ==
  /\ DeferredStep(p, Deferred(p).closes) /\ opened' = [opened EXCEPT ![p] = FALSE]
  /\ UNCHANGED <<directory, next, serving>>

Unlock(p) ==
  /\ DeferredStep(p, Deferred(p).unlocks) /\ lock' = Nobody
  /\ UNCHANGED <<original, schema, version, snapshots, key, next, opened, serving>>

Ended(p) ==
  /\ pc' = [pc EXCEPT ![p] = "off"] /\ next' = [next EXCEPT ![p] = 1]
  /\ opened' = [opened EXCEPT ![p] = FALSE]
  /\ handler' = [handler EXCEPT ![p] = [h \in Handlers |-> "idle"]]
  /\ worker' = [worker EXCEPT ![p] = "off"] /\ queue' = [queue EXCEPT ![p] = 0]
  /\ closed' = [closed EXCEPT ![p] = FALSE]
  /\ lock' = IF lock = p THEN Nobody ELSE lock
  /\ UNCHANGED <<original, schema, version, snapshots, key, panicked>>

\* main returns, whatever still runs.
Exit(p) == pc[p] = "exiting" /\ Ended(p)

Crash(p) == pc[p] \notin {"off", "exiting"} /\ Ended(p)

\* The machine stops: what was not synced may be lost, among it the entry of hmac.key, whose
\* directory nothing syncs when the key is made.
PowerLoss ==
  /\ snapshots' \in {{s \in snapshots : s.synced}, snapshots}
  /\ key' \in {"none", key}
  /\ lock' = Nobody /\ pc' = [p \in Processes |-> "off"] /\ next' = [p \in Processes |-> 1]
  /\ opened' = [p \in Processes |-> FALSE]
  /\ handler' = [p \in Processes |-> [h \in Handlers |-> "idle"]]
  /\ worker' = [p \in Processes |-> "off"] /\ queue' = [p \in Processes |-> 0]
  /\ closed' = [p \in Processes |-> FALSE]
  /\ UNCHANGED <<original, schema, version, panicked>>

Work(p) ==
  \/ EndDrain(p) \/ EndPass(p) \/ EndWorkers(p) \/ CloseQueue(p) \/ EndFlush(p)
  \/ CloseStore(p) \/ Unlock(p) \/ Exit(p) \/ StoreVisit(p)

Next ==
  \/ \E p \in Processes :
       \/ Lock(p) \/ Open(p) \/ CopyDatabase(p) \/ SyncSnapshot(p) \/ Migrate(p)
       \/ RecordVersion(p) \/ ReadKey(p) \/ CreateKey(p) \/ WriteKey(p) \/ Serve(p)
       \/ FailStart(p) \/ BeginPass(p) \/ BeginShutdown(p) \/ Crash(p) \/ Work(p)
       \/ \E h \in Handlers :
            BeginRequest(p, h) \/ CheckQueue(p, h) \/ SendVisit(p, h) \/ EndRequest(p, h)
  \/ PowerLoss

Spec == Init /\ [][Next]_vars

\* A request whose connection was closed ends, and one that has checked the queue sends; a
\* request whose connection is open may take as long as its visitor likes.
Ends(p, h) ==
  \/ SendVisit(p, h)
  \/ pc[p] \notin {"serving", "draining"} /\ (CheckQueue(p, h) \/ EndRequest(p, h))

Fairness ==
  \A p \in Processes :
    /\ WF_vars(EndDrain(p)) /\ WF_vars(EndPass(p)) /\ WF_vars(EndWorkers(p))
    /\ WF_vars(CloseQueue(p)) /\ WF_vars(EndFlush(p)) /\ WF_vars(StoreVisit(p))
    /\ WF_vars(CloseStore(p)) /\ WF_vars(Unlock(p)) /\ WF_vars(Exit(p))
    /\ \A h \in Handlers : WF_vars(Ends(p, h))

FairSpec == Spec /\ Fairness

-----------------------------------------------------------------------------
(***************************************************************************)
(* Properties                                                              *)
(***************************************************************************)
\* As soon as an upgrade has changed an older database there is a snapshot of it as it
\* was, which no power failure can take away, however often upgrades were interrupted.
PristineSnapshot ==
  original # {} /\ schema # original => [schema |-> original, synced |-> TRUE] \in snapshots

\* Whoever serves has a database with every table and column, whatever it started from
\* and wherever earlier upgrades were interrupted, and a whole key.
ServesComplete ==
  \A p \in Processes : pc[p] = "serving" => schema = Changes /\ version /\ key = "whole"

\* Two processes never have the database open at once: what one recovers as interrupted,
\* no other can still commit, not even a request that outlives its shutdown.
StoreExclusive == \A p, q \in Processes : opened[p] /\ opened[q] => p = q

\* No visit is sent into the closed queue, by however late a request, and every visit that
\* was queued has been stored when an orderly shutdown closes the store.
VisitsFlushed ==
  /\ ~panicked
  /\ \A p \in Processes : pc[p] \in {"flushed", "released", "exiting"} => queue[p] = 0

\* A shutdown ends, though requests may take for ever and maintenance waits for them.
ShutdownEnds == \A p \in Processes : pc[p] = "draining" ~> pc[p] = "off"
=============================================================================
