--------------------------- MODULE MCBackupRestore ---------------------------
(* Backups and restores for model checking: two paths for archives, two restores. *)
EXTENDS BackupRestore, TLC

CONSTANTS o1, o2, r1, r2

Symmetric == Permutations({o1, o2}) \cup Permutations({r1, r2})
=============================================================================
