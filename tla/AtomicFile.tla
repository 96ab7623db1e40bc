------------------------------ MODULE AtomicFile ------------------------------
(***************************************************************************)
(* What fs_atomic.rs promises of one file: an atomic register that a power *)
(* loss may roll back, but only to a whole value it could still hold on    *)
(* stable storage.  Nothing here knows of staging, renaming or syncing.    *)
(***************************************************************************)

CONSTANTS Values,   \* the contents a caller may write
          NoFile    \* what a reader finds where there is no file

VARIABLES file,     \* what a reader sees now
          disk      \* what a reader may see after a power loss

Contents == Values \cup {NoFile}

Init == file \in Contents /\ disk = {file}

Replace(v) == file' = v /\ disk' = disk \cup {v}

Flush == disk' = {file} /\ UNCHANGED file

PowerLoss == file' \in disk /\ disk' = {file'}

Next == (\E v \in Values : Replace(v)) \/ Flush \/ PowerLoss

Spec == Init /\ [][Next]_<<file, disk>>
=============================================================================
