------------------------- MODULE WorkflowInductive -------------------------
(***************************************************************************)
(* The inductive invariant behind the safety invariants of Workflow: what  *)
(* the holder of the write lock, the session, the plan and the marker owe  *)
(* each other at every point of every operation.                           *)
(***************************************************************************)
EXTENDS Workflow

(* Points that wait for a marker write: of a clean marker, of any.         *)
CleanMarkOps == {"commit_clean_retry", "commit_clean_fail", "observe_mark"}
DirtyMarkOps == {"commit_dirty", "start_dirty", "cleanup_dirty"}
MarkOps == CleanMarkOps \cup DirtyMarkOps

(* Points of the cleanup after the session, and after the plan, settled.   *)
SettledOps == {"cleanup_check", "cleanup_decide", "cleanup_to_failed", "cleanup_to_cancelled"}
StoppedOps == {"cleanup_mark", "cleanup_dirty", "cleanup_abort"} \cup SettledOps

(* Points reached only before Vivado was started, and before any plan.     *)
BeforeVivado == CreateOps \cup CommitOps \cup {"push_plan", "start_dirty"}
WithoutPlan == CreateOps \cup StartOps \cup SettledOps \cup {"push_plan", "finish_publish"}

(* An operation past its first check holds the lock of the owner; only the *)
(* cleanup of a workflow that ended meanwhile may find out later.          *)
HolderOwns ==
  \A w \in Workflows : op[w] \notin {"idle", "cleanup"} => active = w

(* A workflow not yet created has left no trace.                           *)
AbsentIsFresh ==
  \A w \in Workflows : status[w] = "absent" =>
    /\ op[w] = "idle"
    /\ sess[w] = "none"
    /\ observer[w] = "none"
    /\ w \notin cleanup_queued
    /\ w \notin baseline_clean

(* Which operations and which sessions a status allows.                    *)
StatusFits ==
  \A w \in Workflows :
    /\ status[w] \in {"preparing", "running", "pulling"} =>
         w \notin cleanup_queued /\ op[w] \notin CleanupOps
    /\ status[w] = "preparing" =>
         /\ op[w] \notin {"observe_mark", "finish_publish"}
         /\ op[w] # "start_create" => sess[w] = "none"
    /\ status[w] = "running" => op[w] \in {"idle", "observe_mark"} /\ sess[w] # "none"
    /\ status[w] = "pulling" => op[w] \in {"idle", "finish_publish"} /\ sess[w] = "exit0"
    /\ status[w] \in Owning /\ observer[w] = "exit0" => sess[w] = "exit0"

(* What each point knows about the session.                                *)
SessionFits ==
  \A w \in Workflows :
    /\ op[w] \in BeforeVivado => sess[w] = "none"
    /\ op[w] \in {"observe_mark", "finish_publish"} => sess[w] = "exit0"
    /\ op[w] \in StoppedOps => sess[w] \notin Vivado
    /\ sess[w] \in {"live", "stopping"} => w \in session_id \/ op[w] = "start_create"

(* A marker write belongs to the one operation that waits for it.          *)
MarkerFits ==
  /\ marker \in disk
  /\ mw # "idle" => \E w \in Workflows : op[w] \in MarkOps
  /\ \A w \in Workflows : op[w] \in CleanMarkOps => mw_value = "clean"
  /\ \A w \in Workflows : op[w] \in DirtyMarkOps => mw_value = "dirty"
  /\ mw \in {"fsync", "ok"} => marker = mw_value
  /\ mw = "ok" => disk = {mw_value}

(* What each point knows about the upload plan.                            *)
PlanFits ==
  /\ plan = "committing" => op[active] = "commit_wait" /\ commit_result = "none"
  /\ commit_result = "ok" => plan = "committed"
  /\ \A w \in Workflows :
       /\ active = w /\ op[w] \notin {"commit_wait", "commit_settle"} => commit_result = "none"
       /\ op[w] = "commit_wait" => plan \in {"committing", "committed", "failed"}
       /\ op[w] \in WithoutPlan => plan \notin {"open", "committing"}
       /\ active = w /\ sess[w] # "none" => plan \notin {"open", "committing"}
  /\ active = None => commit_result = "none"

(* The marker was durably dirty before anything could write.               *)
DirtyBeforeWriting ==
  \A w \in Workflows :
    op[w] \in {"commit_apply", "commit_wait", "commit_settle", "start_create"}
      => disk = {"dirty"}

(* An upload, as long as its commit may still be undone or retried.        *)
Uploading(w) ==
  op[w] \in {"push_plan", "commit_dirty", "commit_apply", "commit_wait", "commit_settle"}

(* Why the tree is complete wherever an operation relies on it: it marks   *)
(* the project clean, remembers a clean marker or a committed baseline, or *)
(* is about to patch it.                                                   *)
TreeFits ==
  /\ commit_result = "ok" => tree = "trusted"
  /\ \A w \in Workflows :
       /\ op[w] \in CleanMarkOps =>
            tree = "trusted" /\ (mw \in {"rename", "fsync", "ok"} => tree_on = "disk")
       /\ active = w /\ sess[w] = "exit0" => tree = "trusted"
       /\ w \in seen_clean /\ op[w] \in {"create_publish", "commit_dirty", "commit_apply"}
            => tree = "trusted"
       /\ w \in seen_clean /\ op[w] = "commit_settle" /\ plan = "open" => tree = "trusted"

Baseline ==
  \A w \in Workflows :
    /\ w \in baseline_clean /\ (status[w] = "preparing" \/ Uploading(w))
         /\ sess[w] = "none" /\ plan # "committing" /\ commit_result # "reupload"
         => tree = "trusted"
    /\ status[w] = "preparing" /\ w \notin initializing /\ w \notin requires_full_upload
         => w \in baseline_clean
    /\ active = w /\ plan_kind = "incremental"
         /\ (plan \in {"open", "committing"} \/ op[w] = "push_plan")
         => w \in baseline_clean
    /\ active = w /\ plan = "committing" /\ w \in baseline_clean => tree_before = "trusted"

(* What a release relies on: whoever holds the write lock has seen the     *)
(* last transfer go, and a marker read as clean is not written any more.   *)
ReleaseInv ==
  \A w \in Workflows :
    /\ op[w] # "idle" \/ status[w] = "absent" => transfers[w] = 0
    /\ op[w] \in {"cleanup_decide", "cleanup_to_failed", "cleanup_to_cancelled"}
         /\ w \in seen_clean => marker = "clean"

(* Layers, each inductive given those before it: who holds the slot, the   *)
(* lock and the session; the marker write and the plan; the tree; and what *)
(* a release relies on.                                                    *)
SlotInv == SlotAgrees /\ HolderOwns /\ AbsentIsFresh /\ StatusFits /\ SessionFits

PlanInv == MarkerFits /\ PlanFits /\ PlanHasOwner

TreeInv ==
  /\ DirtyBeforeWriting /\ TreeFits /\ Baseline
  /\ ReusableIsTrusted /\ VivadoHoldsSlot /\ PatchesTrustedTree /\ PullingIsPublished

(* The marker, the slot, the session, the plan and the tree agree at every *)
(* point of every operation: implies all the safety invariants above.      *)
IndInv == TypeOK /\ SlotInv /\ PlanInv /\ TreeInv /\ ReleaseInv
=============================================================================
