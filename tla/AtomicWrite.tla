------------------------------ MODULE AtomicWrite ------------------------------
(***************************************************************************)
(* write_atomically of fs_atomic.rs: concurrent writers replace one file   *)
(* by staging a copy beside it and renaming over it, on a file system that *)
(* keeps in memory what has not been synced.  A writer may be killed, a    *)
(* system call may fail and the power may go between any two steps.        *)
(***************************************************************************)
EXTENDS Naturals

CONSTANTS Writers, Values, NoFile,
          Original,        \* the inode the target names at first
          Names,           \* staging names, one per v4 UUID drawn
          Empty, Partial,  \* contents nobody meant to publish
          MaxPowerLosses   \* bound on power losses

ASSUME DistinctAssumption == /\ Original \notin Names
                             /\ NoFile \notin Names \cup {Original}
                             /\ {Empty, Partial, NoFile} \cap Values = {}
                             /\ MaxPowerLosses \in Nat

VARIABLES link,     \* is the path a symbolic link to the target?
          target,   \* the inode the target's directory entry names
          temps,    \* the staging names present in the directory
          data,     \* what each inode holds, as a reader sees it
          mode,     \* the permissions of each inode
          synced,   \* the inodes whose data is on stable storage
          onDisk,   \* the inodes the entry may name after a power loss
          losses,   \* power losses so far
          phase, name, val,  \* each writer's step, staging name and contents
          seen,     \* the permissions a writer found on the target
          before,   \* history: what the entry might name when w renamed
          settled,  \* history: writers whose directory sync succeeded
          published,\* history: what w's rename made visible
          warned    \* has a writer warned of losing the permissions?

fs == <<link, target, temps, data, mode, synced, onDisk>>
fileHistory == <<before, settled, published, warned>>
fileVars == <<fs, losses, phase, name, val, seen, fileHistory>>

Inodes == Names \cup {Original}
Contents == Values \cup {Empty, Partial}
Modes == {"default", "restricted", "readonly"}
Final == {"idle", "ok", "failed", "dead"}
Staging == {"created", "writing", "written"}
Steps == Final \cup Staging \cup {"resolved", "staged", "ready", "renamed"}

FileTypeOK ==
  /\ link \in BOOLEAN
  /\ target \in Inodes \cup {NoFile}
  /\ temps \subseteq Inodes
  /\ data \in [Inodes -> Contents]
  /\ mode \in [Inodes -> Modes]
  /\ synced \subseteq Inodes
  /\ onDisk \subseteq Inodes \cup {NoFile}
  /\ losses \in 0..MaxPowerLosses
  /\ phase \in [Writers -> Steps]
  /\ name \in [Writers -> Inodes]
  /\ val \in [Writers -> Values]
  /\ seen \in [Writers -> Modes \cup {"absent"}]
  /\ before \in [Writers -> SUBSET (Inodes \cup {NoFile})]
  /\ settled \subseteq Writers
  /\ published \in [Writers -> Contents]
  /\ warned \in BOOLEAN

FileInit ==
  /\ link \in BOOLEAN
  /\ target \in {Original, NoFile}
  /\ temps = {}
  /\ \E v \in Values : /\ data = [i \in Inodes |-> v]
                       /\ val = [w \in Writers |-> v]
                       /\ published = [w \in Writers |-> v]
  /\ \E m \in Modes :
       mode = [i \in Inodes |-> IF i = Original /\ target = Original
                                THEN m ELSE "default"]
  /\ synced = {Original}
  /\ onDisk = {target}
  /\ losses = 0
  /\ phase = [w \in Writers |-> "idle"]
  /\ name = [w \in Writers |-> Original]
  /\ seen = [w \in Writers |-> "absent"]
  /\ before = [w \in Writers |-> {}]
  /\ settled = {}
  /\ warned = FALSE

GoTo(w, step) == phase' = [phase EXCEPT ![w] = step]

\* Mutant: a name that only no finished write has used, as a clock reading is.
Unused_ClockName(n) == n \notin synced

\* A v4 UUID: no other writer holds it, and no file left behind bears it.
Unused(n) == /\ n \notin temps \cup synced
             /\ \A u \in Writers : phase[u] \notin Final => name[u] # n

\* Mutant: the dangling link is not looked for.
Dangling_Unchecked == FALSE

Dangling == link /\ target = NoFile
ReadOnly == target # NoFile /\ mode[target] = "readonly"

\* Resolve the path and draw a staging name, or refuse the write.  The look-ups of
\* the code (whether there is a link, where it leads, what is there) are one step:
\* a link that somebody replaces between them, or afterwards, is not modelled.
Resolve(w) ==
  /\ phase[w] \in Final
  /\ settled' = settled \ {w}
  /\ \/ /\ Dangling \/ ReadOnly
        /\ GoTo(w, "failed")
        /\ UNCHANGED <<name, val, seen>>
     \/ /\ ~Dangling /\ ~ReadOnly
        /\ \E n \in Names, v \in Values : /\ Unused(n)
                                          /\ name' = [name EXCEPT ![w] = n]
                                          /\ val' = [val EXCEPT ![w] = v]
        /\ seen' = [seen EXCEPT ![w] = IF target = NoFile THEN "absent"
                                       ELSE mode[target]]
        /\ GoTo(w, "resolved")
  /\ UNCHANGED <<fs, losses, before, published, warned>>

\* File::create: the staged file appears empty, at the umask default.
Create(w) ==
  /\ phase[w] = "resolved"
  /\ temps' = temps \cup {name[w]}
  /\ data' = [data EXCEPT ![name[w]] = Empty]
  /\ mode' = [mode EXCEPT ![name[w]] = "default"]
  /\ GoTo(w, "created")
  /\ UNCHANGED <<link, target, synced, onDisk, losses, name, val, seen, fileHistory>>

\* write_all, which may need more than one write(2).
Fill(w, from, to, contents) ==
  /\ phase[w] = from
  /\ data' = [data EXCEPT ![name[w]] = contents]
  /\ GoTo(w, to)
  /\ UNCHANGED <<link, target, temps, mode, synced, onDisk,
                 losses, name, val, seen, fileHistory>>

\* Mutant: the staged copy is never synced.
SyncData_Skipped(w) ==
  /\ phase[w] = "written"
  /\ GoTo(w, "staged")
  /\ UNCHANGED <<fs, losses, name, val, seen, fileHistory>>

SyncData(w) ==
  /\ phase[w] = "written"
  /\ synced' = synced \cup {name[w]}
  /\ GoTo(w, "staged")
  /\ UNCHANGED <<link, target, temps, data, mode, onDisk,
                 losses, name, val, seen, fileHistory>>

Stage(w) == \/ Create(w)
            \/ Fill(w, "created", "writing", Partial)
            \/ Fill(w, "writing", "written", val[w])
            \/ SyncData(w)

\* Staging or the rename fails: the staged file is removed.
Abandon(w) ==
  /\ phase[w] \in Staging \cup {"resolved", "ready"}
  /\ temps' = temps \ {name[w]}
  /\ synced' = synced \ {name[w]}
  /\ GoTo(w, "failed")
  /\ UNCHANGED <<link, target, data, mode, onDisk,
                 losses, name, val, seen, fileHistory>>

\* Mutant: the permissions are not carried over.
CarryMode_Skipped(w) ==
  /\ phase[w] = "staged"
  /\ GoTo(w, "ready")
  /\ UNCHANGED <<fs, losses, name, val, seen, fileHistory>>

\* Carry the permissions over; failing to is only warned about.
CarryMode(w) ==
  /\ phase[w] = "staged"
  /\ \/ /\ seen[w] # "absent"
        /\ mode' = [mode EXCEPT ![name[w]] = seen[w]]
        /\ UNCHANGED warned
     \/ /\ seen[w] # "absent"
        /\ warned' = TRUE
        /\ UNCHANGED mode
     \/ seen[w] = "absent" /\ UNCHANGED <<mode, warned>>
  /\ GoTo(w, "ready")
  /\ UNCHANGED <<link, target, temps, data, synced, onDisk,
                 losses, name, val, seen, before, settled, published>>

\* Mutant: the rename may come before the sync.
Rename_Early(w) ==
  /\ phase[w] \in {"written", "ready"}
  /\ target' = name[w]
  /\ temps' = temps \ {name[w]}
  /\ onDisk' = onDisk \cup {name[w]}
  /\ GoTo(w, "renamed")
  /\ UNCHANGED <<link, data, mode, synced, losses, name, val, seen, fileHistory>>

\* A path that resolved to no file is renamed onto itself, link or not.
Rename(w) ==
  /\ phase[w] = "ready"
  /\ target' = name[w]
  /\ link' = (link /\ seen[w] # "absent")
  /\ temps' = temps \ {name[w]}
  /\ onDisk' = onDisk \cup {name[w]}
  /\ before' = [before EXCEPT ![w] = onDisk]
  /\ published' = [published EXCEPT ![w] = data[name[w]]]
  /\ GoTo(w, "renamed")
  /\ UNCHANGED <<data, mode, synced, losses, name, val, seen, settled, warned>>

\* Mutant: success is reported without syncing the directory.
SyncDir_Skipped(w) ==
  /\ phase[w] = "renamed"
  /\ settled' = settled \cup {w}
  /\ GoTo(w, "ok")
  /\ UNCHANGED <<fs, losses, name, val, seen, before, published, warned>>

\* The directory sync is best effort: the write succeeds without it.
SyncDir(w) ==
  /\ phase[w] = "renamed"
  /\ \/ onDisk' = {target} /\ settled' = settled \cup {w}
     \/ UNCHANGED <<onDisk, settled>>
  /\ GoTo(w, "ok")
  /\ UNCHANGED <<link, target, temps, data, mode, synced,
                 losses, name, val, seen, before, published, warned>>

KillWriter(w) ==
  /\ phase[w] \notin Final
  /\ GoTo(w, "dead")
  /\ UNCHANGED <<fs, losses, name, val, seen, fileHistory>>

\* What was not synced comes back whole, torn or empty; so may a staging name.  The
\* permissions are taken to come back with the entry: they are set after the only
\* sync of the file, so this is a file system that logs metadata in order.
PowerLoss ==
  /\ losses < MaxPowerLosses
  /\ losses' = losses + 1
  /\ phase' = [w \in Writers |-> IF phase[w] \in Final THEN phase[w] ELSE "dead"]
  /\ \E lost \in SUBSET (Inodes \ synced), torn \in {Empty, Partial} :
       data' = [i \in Inodes |-> IF i \in lost THEN torn ELSE data[i]]
  /\ target' \in onDisk
  /\ onDisk' = {target'}
  /\ temps' \in SUBSET temps
  /\ synced' = synced
  /\ UNCHANGED <<link, mode, name, val, seen, fileHistory>>

FileNext == \/ \E w \in Writers : \/ Resolve(w) \/ Stage(w) \/ Abandon(w)
                                  \/ CarryMode(w) \/ Rename(w) \/ SyncDir(w)
                                  \/ KillWriter(w)
            \/ PowerLoss

FileSpec == FileInit /\ [][FileNext]_fileVars

-----------------------------------------------------------------------------
(* Properties *)

\* A reader finds one writer's contents, whole, before and after a power loss,
\* whatever was killed and whoever else was writing (fs_atomic.rs:37-38).
NeverTorn == \A i \in onDisk \cup {target} : i # NoFile => data[i] \in Values

\* A writer that renamed published its own contents, never those another one
\* staged to the same name (fs_atomic.rs:23-28).
PublishedOwn == \A w \in Writers : phase[w] \in {"renamed", "ok"} =>
                                     published[w] = val[w]

\* Once a write has succeeded and its directory entry was synced, no power
\* loss brings back what it replaced (fs_atomic.rs:103-104).
SettledStays == \A w \in settled : onDisk \cap before[w] = {}

\* Nothing but a warned-about failure changes the target's permissions, and a
\* target found read-only is never replaced (fs_atomic.rs:66-95).
ModeKept ==
  target # NoFile => /\ mode[target] # mode[Original] => warned
                     /\ mode[Original] = "readonly" => target = Original

\* The write goes through a symbolic link, never over it (fs_atomic.rs:45-62).
LinkKept == [][link' = link]_fileVars

\* The staged, renamed and synced file is the atomic register of AtomicFile.
Seen(i) == IF i = NoFile THEN NoFile ELSE data[i]
File == Seen(target)
Disk == {Seen(i) : i \in onDisk}
Register == INSTANCE AtomicFile WITH file <- File, disk <- Disk
RefinesRegister == Register!Spec
=============================================================================
