---------------------------- MODULE WorkflowPush ----------------------------
(***************************************************************************)
(* The preparing phase: transfers under a read lease, the upload plan and  *)
(* its commit (src/src/workflow.rs with the part of src/src/sync.rs that   *)
(* the workflow manager sees).                                             *)
(***************************************************************************)
EXTENDS WorkflowState

(* Transfers that hold a read lease.                                       *)

(* lease: manifest and upload while preparing; manifest, pull_plan,        *)
(* download and head_download while pulling.                               *)
lease(w) ==
  /\ service = "up"
  /\ op[w] = "idle"
  /\ w \notin initializing
  /\ status[w] \in {"preparing", "pulling"}
  /\ w \notin cleanup_started
  /\ transfers[w] < MaxTransfers
  /\ transfers' = [transfers EXCEPT ![w] = @ + 1]
  /\ UNCHANGED <<cleanupVars, storeVars, dataVars, planVars, registryVars, sessionVars,
                 silent, failing, op, observer>>

(* TransferLease::drop: the transfer ended or its token was cancelled.     *)
Mut_LeaseHeld(w) == TRUE

LeaseHeld(w) == transfers[w] > 0

LeaseDrop(w) ==
  /\ LeaseHeld(w)
  /\ transfers' = [transfers EXCEPT ![w] = @ - 1]
  /\ UNCHANGED <<cleanupVars, storeVars, dataVars, planVars, registryVars, sessionVars,
                 silent, failing, op, observer>>

-----------------------------------------------------------------------------
(* push_plan, abort_sync and the plan's own expiry.                        *)

(* A workflow that owes a full upload replaces the tree.                   *)
Mut_PlanKind(w) == "incremental"

PlanKind(w) == IF w \in requires_full_upload THEN "reset" ELSE "incremental"

PushBegin(w) ==
  /\ Lock(w, "push_plan")
  /\ InPhase(w, "preparing")
  /\ refresh_open_sync(w)
  /\ plan_kind' = PlanKind(w)
  /\ UNCHANGED <<outsideVars, cleanupVars, storeVars, localVars, initializing,
                 baseline_clean, tree_before, commit_result>>

(* The SyncManager accepts the manifest, or refuses it.                    *)
PushPlan(w) ==
  /\ Goto(w, "push_plan", "idle")
  /\ \/ /\ plan \notin {"open", "committing"}
        /\ plan' = "open"
        /\ open_sync' = open_sync \cup {w}
     \/ UNCHANGED <<plan, open_sync>>
  /\ UNCHANGED <<outsideVars, cleanupVars, storeVars, localVars, initializing,
                 baseline_clean, plan_kind, tree_before, commit_result>>

(* abort_sync; a failure to remove the staging leaves open_sync behind.    *)
abort_sync(w) ==
  /\ LockFree(w)
  /\ InPhase(w, "preparing")
  /\ w \in open_sync
  /\ plan \in {"open", "aborted"}
  /\ plan' = "aborted"
  /\ \/ open_sync' = open_sync \ {w}
     \/ "io" \in Faults /\ UNCHANGED open_sync
  /\ UNCHANGED <<outsideVars, cleanupVars, storeVars, localVars, initializing,
                 baseline_clean, plan_kind, tree_before, commit_result, op>>

(* The SyncManager's reaper expires an open plan on its own.               *)
PlanExpires ==
  /\ plan = "open"
  /\ plan' = "expired"
  /\ UNCHANGED <<outsideVars, cleanupVars, storeVars, dataVars, plan_kind, tree_before,
                 commit_result, op>>

-----------------------------------------------------------------------------
(* commit                                                                  *)

(* The dirty marker is written before the SyncManager may touch the tree.  *)
CommitBegin(w) ==
  /\ Lock(w, "commit_dirty")
  /\ InPhase(w, "preparing")
  /\ w \in open_sync
  /\ \E clean \in is_clean : seen_clean' = SetFlag(seen_clean, w, clean)
  /\ mark_dirty
  /\ UNCHANGED <<outsideVars, cleanupVars, planVars, seen_invalid, initializing,
                 open_sync, baseline_clean>>

CommitMarked(w) ==
  /\ Goto(w, "commit_dirty", "commit_apply")
  /\ MarkReturns("ok")
  /\ UNCHANGED <<outsideVars, cleanupVars, dataVars, planVars>>

(* sync.commit rejects a plan with missing uploads, which stays open, or   *)
(* one that is past its deadline; otherwise its worker starts.             *)
CommitApply(w) ==
  /\ op[w] = "commit_apply"
  /\ \/ /\ plan = "open"
        /\ plan' = "committing"
        /\ tree_before' = tree
        /\ commit_result' = "none"
        /\ Goto(w, "commit_apply", "commit_wait")
     \/ /\ plan = "open"
        /\ commit_result' = "missing"
        /\ Goto(w, "commit_apply", "commit_settle")
        /\ UNCHANGED <<plan, tree_before>>
     \/ /\ plan' = IF plan = "open" THEN "expired" ELSE plan
        /\ commit_result' = "error"
        /\ Goto(w, "commit_apply", "commit_settle")
        /\ UNCHANGED tree_before
  /\ UNCHANGED <<outsideVars, cleanupVars, storeVars, dataVars, plan_kind>>

(* apply_commit changes the tree in place ...                              *)
ApplyWrites ==
  /\ plan = "committing"
  /\ tree' = "partial"
  /\ tree_on' = "cache"
  /\ UNCHANGED <<workflowVars, markerVars>>

(* ... and succeeds (a reset installs a complete tree, a patch is as good  *)
(* as what it patched), is rolled back, or cannot be rolled back.          *)
ApplySettles ==
  /\ plan = "committing"
  /\ tree_on' = "cache"
  /\ tree_before' = "partial"
  /\ \/ /\ plan' = "committed" /\ commit_result' = "ok"
        /\ tree' = IF plan_kind = "reset" THEN "trusted" ELSE tree_before
     \/ /\ plan' = "failed" /\ commit_result' = "error"
        /\ tree' = tree_before
     \/ /\ Faults \cap {"io", "panic"} # {}
        /\ plan' = "failed" /\ commit_result' = "reupload"
        /\ tree' = "partial"
  /\ UNCHANGED <<outsideVars, cleanupVars, markerVars, dataVars, plan_kind, op>>

(* Ok: the tree is complete, but the marker stays dirty until Vivado ends. *)
CommitOk(w) ==
  /\ Done(w, "commit_wait")
  /\ commit_result = "ok"
  /\ open_sync' = open_sync \ {w}
  /\ requires_full_upload' = requires_full_upload \ {w}
  /\ baseline_clean' = baseline_clean \cup {w}
  /\ commit_result' = "none"
  /\ UNCHANGED <<outsideVars, storeVars, requestVars, plan, plan_kind, tree_before,
                 status, initializing>>

CommitErr(w) ==
  /\ Goto(w, "commit_wait", "commit_settle")
  /\ commit_result \in {"error", "reupload"}
  /\ UNCHANGED <<outsideVars, cleanupVars, storeVars, dataVars, planVars>>

(* May a failed commit give the project its clean marker back?             *)
Mut_CommitRestores(w) == IF plan = "open" THEN w \in seen_clean ELSE w \in baseline_clean

CommitRestores(w) ==
  /\ commit_result # "reupload"
  /\ \/ plan = "open" /\ w \in seen_clean
     \/ plan # "open" /\ w \in baseline_clean

CommitRestore(w) ==
  /\ CommitRestores(w)
  /\ Goto(w, "commit_settle",
          IF plan = "open" THEN "commit_clean_retry" ELSE "commit_clean_fail")
  /\ mark_clean
  /\ commit_result' = "none"
  /\ UNCHANGED <<outsideVars, cleanupVars, dataVars, plan, plan_kind, tree_before>>

(* Without a marker to restore: the client may retry an open plan; any     *)
(* other error fails the workflow.                                         *)
CommitGivesUp(w) ==
  /\ ~CommitRestores(w)
  /\ Done(w, "commit_settle")
  /\ IF plan = "open" /\ commit_result # "reupload"
     THEN UNCHANGED cleanupVars
     ELSE fail(w, commit_result = "reupload")
  /\ commit_result' = "none"
  /\ UNCHANGED <<outsideVars, storeVars, flagVars, plan, plan_kind, tree_before>>

CommitRestored(w) ==
  /\ MarkReturns("ok")
  /\ \/ Done(w, "commit_clean_retry") /\ UNCHANGED cleanupVars
     \/ Done(w, "commit_clean_fail") /\ fail(w, FALSE)
  /\ UNCHANGED <<outsideVars, flagVars, planVars>>
=============================================================================
