---------------------------- MODULE BackupRestore ----------------------------
(***************************************************************************)
(* Offline backups of a data directory and their restoration into a new    *)
(* one, with processes that die and power that fails between any two       *)
(* steps, and with others that use the same paths.                         *)
(*                                                                         *)
(* A data directory is the rows of its available deployments and the       *)
(* artifact trees that are whole.  The rest of it (certificates, keys,     *)
(* external files) is copied along with the trees.                         *)
(***************************************************************************)
EXTENDS Integers, FiniteSets

CONSTANTS
  Ids,         \* bound: deployments, each published at most once
  Outputs,     \* paths of archives
  Restorers,   \* restore commands; all restore into the same directory
  None,        \* a path with nothing at it
  Empty,       \* a directory with nothing in it
  Foreign      \* a file or directory that somebody else has put something in

\* What a data directory or an archive holds; written: all of it was written, and nothing
\* of that was lost; synced: and it cannot be lost any more.
Content == [rows : SUBSET Ids, trees : SUBSET Ids, written : BOOLEAN, synced : BOOLEAN]

\* The three values are nothing that can be backed up or restored, nor one another.
ASSUME BackupAssumption ==
  /\ None # Empty /\ None # Foreign /\ Empty # Foreign
  /\ {None, Empty, Foreign} \cap Content = {}
  /\ "target" \notin Outputs

VARIABLES
  data,        \* rows and trees of the data directory
  used,        \* deployments that have had a row
  sourceLock,  \* who holds the lock of the data directory
  backup,      \* the backup command: its step, its output and what it has copied
  output,      \* output[o]: what is at the path
  durable,     \* paths whose directory entry cannot be lost; "target" is the restored one's
  rotten,      \* archives damaged since they were written
  created,     \* outputs of the backups that have reported success
  restore,     \* restore[r]: a restore command: its step and what it has unpacked
  target,      \* what is at the path to restore into
  restored,    \* a restore has reported success
  host         \* a server on the restored directory

source == <<data, used, sourceLock>>
archives == <<backup, output, rotten, created>>
restoration == <<restore, target, restored, host>>
backupVars == <<source, archives, restoration, durable>>

Nothing == [rows |-> {}, trees |-> {}, written |-> TRUE, synced |-> FALSE]
Idle == [step |-> "idle", output |-> None, content |-> Nothing]
Resting == [step |-> "idle", content |-> Nothing]

BackupInit ==
  /\ data = [rows |-> {}, trees |-> {}] /\ used = {} /\ sourceLock = "free"
  /\ backup = Idle /\ output = [o \in Outputs |-> None] /\ durable = {}
  /\ rotten = {} /\ created = {}
  /\ restore = [r \in Restorers |-> Resting]
  /\ target = None /\ restored = FALSE /\ host = "off"

-----------------------------------------------------------------------------
(***************************************************************************)
(* The server of the data directory                                        *)
(***************************************************************************)
\* LockDataDirectory, which does not wait; the lock goes with its process.
StartServer ==
  /\ sourceLock = "free" /\ sourceLock' = "server"
  /\ UNCHANGED <<data, used, archives, restoration, durable>>

StopServer ==
  /\ sourceLock = "server" /\ sourceLock' = "free"
  /\ UNCHANGED <<data, used, archives, restoration, durable>>

\* An artifact is published before its row, and removed after it.
PublishArtifact(id) ==
  /\ sourceLock = "server"
  /\ \/ id \notin used /\ data' = [data EXCEPT !.trees = @ \cup {id}] /\ used' = used
     \/ /\ id \notin used /\ id \in data.trees /\ used' = used \cup {id}
        /\ data' = [data EXCEPT !.rows = @ \cup {id}]
     \/ data' = [data EXCEPT !.rows = @ \ {id}] /\ used' = used
     \/ id \notin data.rows /\ data' = [data EXCEPT !.trees = @ \ {id}] /\ used' = used
  /\ UNCHANGED <<sourceLock, archives, restoration, durable>>

\* Interference from outside: a tree is damaged, whoever runs.
Damage(id) ==
  /\ id \in data.trees /\ data' = [data EXCEPT !.trees = @ \ {id}]
  /\ UNCHANGED <<used, sourceLock, archives, restoration, durable>>

-----------------------------------------------------------------------------
(***************************************************************************)
(* Create                                                                  *)
(***************************************************************************)
BeginBackup(o) ==
  /\ backup.step = "idle" /\ output[o] = None /\ sourceLock = "free"
  /\ sourceLock' = "backup" /\ backup' = [Idle EXCEPT !.step = "locked", !.output = o]
  /\ UNCHANGED <<data, used, output, rotten, created, restoration, durable>>

Snapshot ==
  /\ backup.step = "locked"
  /\ backup' = [backup EXCEPT !.step = "copying", !.content.rows = data.rows]
  /\ UNCHANGED <<source, output, rotten, created, restoration, durable>>

CopyTree ==
  /\ backup.step = "copying"
  /\ backup' = [backup EXCEPT !.step = "copied", !.content.trees = data.trees]
  /\ UNCHANGED <<source, output, rotten, created, restoration, durable>>

\* Fault: the artifacts are taken on trust.
Unchecked(content) == TRUE

\* checkArtifacts: the artifact of every available row verifies.
Complete(content) == content.rows \subseteq content.trees

\* Fault: the archive is not flushed.
PackedUnsynced(content) == content

\* pack: the archive is written aside and synced.
Packed(content) == [content EXCEPT !.synced = TRUE]

Pack ==
  /\ backup.step = "copied" /\ Complete(backup.content)
  /\ backup' = [backup EXCEPT !.step = "packed", !.content = Packed(@)]
  /\ UNCHANGED <<source, output, rotten, created, restoration, durable>>

\* A hard link never replaces anything.
Links(o) == output[o] = None

Link ==
  /\ backup.step = "packed" /\ Links(backup.output)
  /\ output' = [output EXCEPT ![backup.output] = backup.content]
  /\ backup' = [backup EXCEPT !.step = "linked"]
  /\ UNCHANGED <<source, rotten, created, restoration, durable>>

SyncDir(path) == durable \cup {path}

\* Create returns nil, and its lock is released.
EndBackup ==
  /\ backup.step = "linked"
  /\ durable' = SyncDir(backup.output) /\ created' = created \cup {backup.output}
  /\ backup' = Idle /\ sourceLock' = "free"
  /\ UNCHANGED <<data, used, output, rotten, restoration>>

\* Any step may fail, or the command die, and its lock is released: also at the last one,
\* syncDir, with the archive at its path.
FailBackup ==
  /\ backup.step # "idle" /\ backup' = Idle /\ sourceLock' = "free"
  /\ UNCHANGED <<data, used, output, rotten, created, restoration, durable>>

\* Somebody else writes a file at the path.
Occupy(o) ==
  /\ output[o] = None /\ output' = [output EXCEPT ![o] = Foreign]
  /\ durable' = durable \cup {o}
  /\ UNCHANGED <<source, backup, rotten, created, restoration>>

\* An archive is damaged on its way.
Rot(o) ==
  /\ output[o] \in Content /\ rotten' = rotten \cup {o}
  /\ UNCHANGED <<source, backup, output, created, restoration, durable>>

-----------------------------------------------------------------------------
(***************************************************************************)
(* Restore                                                                 *)
(***************************************************************************)
\* Every file is synced as it is extracted; a damaged archive is extracted, if at all,
\* with what it has become.
Unpack(r, o) ==
  /\ restore[r].step = "idle" /\ target = None /\ output[o] \in Content
  /\ restore' = [restore EXCEPT ![r] =
       [step |-> "unpacked",
        content |-> [output[o] EXCEPT !.written = @ /\ o \notin rotten, !.synced = FALSE]]]
  /\ UNCHANGED <<source, archives, target, restored, host, durable>>

\* Fault: the manifest is not compared with what was unpacked.
Accepted(content) == TRUE

\* validate: sizes and checksums of all files, and checkArtifacts.
Valid(content) == content.written /\ Complete(content)

\* prepareRestoredTree, the manifest and syncTree.
SyncTree(content) == [content EXCEPT !.synced = TRUE]

Assemble(r) ==
  /\ restore[r].step = "unpacked" /\ Valid(restore[r].content)
  /\ restore' = [restore EXCEPT ![r] = [step |-> "ready", content |-> SyncTree(@.content)]]
  /\ UNCHANGED <<source, archives, target, restored, host, durable>>

\* absent, for the second time, and the look that os.Rename itself takes.
CheckTarget(r) ==
  /\ restore[r].step = "ready" /\ target = None
  /\ restore' = [restore EXCEPT ![r].step = "clear"]
  /\ UNCHANGED <<source, archives, target, restored, host, durable>>

\* Fault: what is there is moved out of the way.
MovesOver == TRUE

\* The system call puts a directory where there is nothing, or an empty directory.
Renames == target \in {None, Empty}

MoveIntoPlace(r) ==
  /\ restore[r].step = "clear" /\ Renames
  /\ target' = restore[r].content /\ durable' = durable \ {"target"}
  /\ restore' = [restore EXCEPT ![r].step = "moved"]
  /\ UNCHANGED <<source, archives, restored, host>>

EndRestore(r) ==
  /\ restore[r].step = "moved"
  /\ durable' = SyncDir("target") /\ restored' = TRUE
  /\ restore' = [restore EXCEPT ![r] = Resting]
  /\ UNCHANGED <<source, archives, target, host>>

\* Any step may fail, or the command die; what it was assembling is left aside.
FailRestore(r) ==
  /\ restore[r].step # "idle"
  /\ restore' = [restore EXCEPT ![r] = Resting]
  /\ UNCHANGED <<source, archives, target, restored, host, durable>>

\* Meanwhile a server is started on the new path: it makes the directory if there is
\* none, and then puts its lock and its database into it.
MakeDirectory ==
  /\ host = "off" /\ host' = "made"
  /\ target' = IF target = None THEN Empty ELSE target
  /\ UNCHANGED <<source, archives, restore, restored, durable>>

OpenDirectory ==
  /\ host = "made" /\ target # None /\ host' = "serving"
  /\ target' = IF target = Empty THEN Foreign ELSE target
  /\ UNCHANGED <<source, archives, restore, restored, durable>>

-----------------------------------------------------------------------------
\* What is left of a file or directory after a power failure: nothing, if its entry was
\* not synced, or what was synced of it.
Left(path, content) ==
  LET kept == IF content \in Content
              THEN [content EXCEPT !.written = @ /\ content.synced] ELSE content
  IN  IF path \in durable THEN {kept} ELSE {None, kept}

\* The power fails, and with it all processes.
PowerFails ==
  /\ output' \in {f \in [Outputs -> UNION {Left(o, output[o]) : o \in Outputs}] :
                    \A o \in Outputs : f[o] \in Left(o, output[o])}
  /\ target' \in Left("target", target)
  /\ sourceLock' = "free" /\ backup' = Idle
  /\ restore' = [r \in Restorers |-> Resting] /\ host' = "off"
  /\ UNCHANGED <<data, used, rotten, created, restored, durable>>

BackupNext ==
  \/ StartServer \/ StopServer
  \/ \E id \in Ids : PublishArtifact(id) \/ Damage(id)
  \/ \E o \in Outputs : BeginBackup(o) \/ Occupy(o) \/ Rot(o)
  \/ Snapshot \/ CopyTree \/ Pack \/ Link \/ EndBackup \/ FailBackup
  \/ \E r \in Restorers :
       \/ \E o \in Outputs : Unpack(r, o)
       \/ Assemble(r) \/ CheckTarget(r) \/ MoveIntoPlace(r) \/ EndRestore(r) \/ FailRestore(r)
  \/ MakeDirectory \/ OpenDirectory \/ PowerFails

BackupSpec == BackupInit /\ [][BackupNext]_backupVars

-----------------------------------------------------------------------------
(***************************************************************************)
(* Properties                                                              *)
(***************************************************************************)
\* An archive has the artifact of every row in it, whatever was damaged while it was
\* made, and whatever the server had begun when it was stopped or killed.  The directory
\* that a server can be started on is all of a valid archive or none of it, whenever the
\* restore is killed or the power fails, and however the archive was damaged.
WholeOrAbsent ==
  /\ \A o \in Outputs :
       output[o] \in Content /\ output[o].written => output[o].rows \subseteq output[o].trees
  /\ target \in Content => target.written /\ target.rows \subseteq target.trees

\* A backup that has reported success is at its path, all of it, from then on, and a
\* restore at its own: processes that die and power that fails take nothing of them.
ReportedStays ==
  /\ \A o \in created : output[o] \in Content /\ output[o].written
  /\ restored => target \in Content

Untouched(path, before, after) == before \notin {None, Empty} => after \in Left(path, before)

\* No backup and no restore replaces or mixes with what has come to its path since it
\* looked: another archive, another restore, or the data of a server started there.
NothingReplaced ==
  [][/\ \A o \in Outputs : Untouched(o, output[o], output'[o])
     /\ Untouched("target", target, target')]_backupVars
=============================================================================
