---------------------------- MODULE ProjectStore ----------------------------
(***************************************************************************)
(* The durable clean/dirty marker of a project (src/src/project.rs) and    *)
(* what it promises about the project tree.                                *)
(*                                                                         *)
(* One project is modelled: markers and trees of different projects share  *)
(* nothing but the workflow slot.  Storage has a visible state, what the   *)
(* running service reads back, and the states a power loss may leave.      *)
(***************************************************************************)

CONSTANT Faults     \* The faults the environment may inject.

(* "io": a write, sync or removal fails; "unreadable": a marker cannot be  *)
(* read; "panic": a task panics; "crash": the process or the power fails;  *)
(* "silence": a client disappears.                                         *)
FaultKinds == {"io", "unreadable", "panic", "crash", "silence"}

ASSUME FaultsAssumption == Faults \subseteq FaultKinds

VARIABLES
  marker,     \* The marker a reader of the state file sees now.
  disk,       \* The markers a restart after a power loss may find.
  tree,       \* "trusted": a complete tree; "partial": anything else.
  tree_on,    \* "disk": every write to the tree is durable; or "cache".
  mw,         \* Stage of the marker write under marker_lock.
  mw_value    \* The value that write publishes.

storeVars == <<marker, disk, tree, tree_on, mw, mw_value>>
markerVars == <<marker, disk, mw, mw_value>>

Markers == {"clean", "dirty"}
Trees == {"trusted", "partial"}
MarkStages == {"idle", "syncfs", "rename", "fsync", "ok", "err"}

StoreTypeOK ==
  /\ marker \in Markers
  /\ disk \in SUBSET Markers
  /\ tree \in Trees
  /\ tree_on \in {"disk", "cache"}
  /\ mw \in MarkStages
  /\ mw_value \in Markers

(***************************************************************************)
(* A workspace is new (no marker: read as dirty, nothing to trust) or was  *)
(* left clean by an earlier run of the service.                            *)
(***************************************************************************)
StoreInit ==
  /\ \/ marker = "dirty" /\ tree = "partial"
     \/ marker = "clean" /\ tree = "trusted"
  /\ disk = {marker}
  /\ tree_on = "disk"
  /\ mw = "idle"
  /\ mw_value = "dirty"

-----------------------------------------------------------------------------
(* What is_clean may answer: an unreadable marker never restores trust.    *)
is_clean ==
  {c \in BOOLEAN : \/ c = (marker = "clean")
                   \/ c = FALSE /\ "unreadable" \in Faults}

(* write_marker begins: its caller waits until the stage is ok or err.     *)
(* Only a clean marker waits for the data of the tree to become durable.   *)
write_marker(v) ==
  /\ mw = "idle"
  /\ mw' = IF v = "clean" THEN "syncfs" ELSE "rename"
  /\ mw_value' = v
  /\ UNCHANGED <<marker, disk, tree, tree_on>>

mark_dirty == write_marker("dirty")
mark_clean == write_marker("clean")

(* syncfs on the project directory.                                        *)
Syncfs ==
  /\ mw = "syncfs"
  /\ tree_on' = "disk"
  /\ mw' = "rename"
  /\ UNCHANGED <<marker, disk, tree, mw_value>>

(* atomic_marker renames the synced temporary file over the state file:    *)
(* visible at once, durable only if the directory entry reaches the disk.  *)
Rename ==
  /\ mw = "rename"
  /\ marker' = mw_value
  /\ disk' = disk \cup {mw_value}
  /\ mw' = "fsync"
  /\ UNCHANGED <<tree, tree_on, mw_value>>

(* sync_directory on the metadata directory ends a successful write.       *)
DirSync ==
  /\ mw = "fsync"
  /\ disk' = {mw_value}
  /\ mw' = "ok"
  /\ UNCHANGED <<marker, tree, tree_on, mw_value>>

(* Any stage may fail; the marker, old or just renamed, stays as it is.    *)
MarkFails ==
  /\ "io" \in Faults
  /\ mw \in {"syncfs", "rename", "fsync"}
  /\ mw' = "err"
  /\ UNCHANGED <<marker, disk, tree, tree_on, mw_value>>

(* The caller of write_marker receives Ok(()) or the error.                *)
MarkReturns(outcome) ==
  /\ mw = outcome
  /\ mw' = "idle"
  /\ UNCHANGED <<marker, disk, tree, tree_on, mw_value>>

StoreStep == Syncfs \/ Rename \/ DirSync \/ MarkFails

(***************************************************************************)
(* The process dies.  A kill leaves the page cache alone; a power loss     *)
(* keeps one of the possible markers, and a tree that was not synced is    *)
(* anything.                                                               *)
(***************************************************************************)
StoreCrash ==
  /\ \/ UNCHANGED <<marker, disk, tree, tree_on>>
     \/ /\ marker' \in disk
        /\ disk' = {marker'}
        /\ tree' = IF tree_on = "disk" THEN tree ELSE "partial"
        /\ tree_on' = "disk"
  /\ mw' = "idle"
  /\ UNCHANGED mw_value
=============================================================================
