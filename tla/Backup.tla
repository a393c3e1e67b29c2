------------------------------- MODULE Backup -------------------------------
(***************************************************************************)
(* utils/mod.rs: backup_db, called again and again with one backup_path.   *)
(***************************************************************************)
VARIABLES
  path,     \* what is at backup_path: "absent", "dir" or "file"
  result    \* of the last call

vars == <<path, result>>

Init == path \in {"absent", "dir", "file"} /\ result = "none"

\* Checkpoint::create_checkpoint makes its directory itself and refuses one
\* that is there.
create_checkpoint(at) == IF at = "absent" THEN "ok" ELSE "directory_exists"

\* The store does not open, or the directory cannot be made.
BackupErr ==
  /\ result' = "io_err"
  /\ UNCHANGED path

\* Something else than a directory is in the way.
BackupRefused ==
  /\ path = "file"
  /\ result' = "invalid"
  /\ UNCHANGED path

\* A missing directory is created, then the checkpoint is made in it.
backup_db ==
  /\ path \in {"absent", "dir"}
  /\ path' = "dir"
  /\ result' = create_checkpoint("dir")

Next == BackupErr \/ BackupRefused \/ backup_db

Spec == Init /\ [][Next]_vars

\* The comment at utils/mod.rs:206, "Checkpoint::create_checkpoint expects the
\* target dir to exist": a checkpoint is not refused for a directory that is
\* there, the one that backup_db has just made included.
CheckpointAccepted == result # "directory_exists"
=============================================================================
