-------------------------- MODULE WorkflowCleanup ---------------------------
(***************************************************************************)
(* How a workflow ends: finish, cancel, and the cleanup worker that keeps  *)
(* the slot until the session, the plan and the marker are settled; and    *)
(* the recovery from a task that panics.                                   *)
(***************************************************************************)
EXTENDS WorkflowState

(* finish, cancel                                                          *)

(* sync.abort_open waits out a running commit and closes an open plan.     *)
Mut_abort_open == UNCHANGED plan

abort_open ==
  /\ plan # "committing"
  /\ plan' = IF plan = "open" THEN "aborted" ELSE plan

(* finish only tries the lock, then aborts what plan is left.              *)
FinishBegin(w) ==
  /\ Lock(w, "finish_publish")
  /\ InPhase(w, "pulling")
  /\ abort_open
  /\ UNCHANGED <<outsideVars, cleanupVars, storeVars, dataVars, plan_kind, tree_before,
                 commit_result>>

(* Staging that refuses to go leaves the workflow pulling.                 *)
FinishFails(w) ==
  /\ "io" \in Faults
  /\ Goto(w, "finish_publish", "idle")
  /\ UNCHANGED <<outsideVars, cleanupVars, storeVars, dataVars, planVars>>

FinishPublishes(w) ==
  /\ Goto(w, "finish_publish", "idle")
  /\ IF TerminalAllowed(w, "completed", FALSE)
     THEN Publish(w, "completed", FALSE)
     ELSE UNCHANGED PublishedVars
  /\ UNCHANGED <<storeVars, clientVars, sessionVars, requestVars, localVars,
                 tree_before, commit_result, initializing, baseline_clean, service,
                 observer>>

cancel(w) ==
  /\ service = "up"
  /\ status[w] \in Owning
  /\ request_cleanup(w, "cancelled", FALSE)
  /\ UNCHANGED <<outsideVars, storeVars, dataVars, planVars, op>>

-----------------------------------------------------------------------------
(* cleanup_workflow: one worker owns the lock until everything is settled. *)

CleanupLocks(w) ==
  /\ w \in cleanup_queued
  /\ Lock(w, "cleanup")
  /\ cleanup_queued' = cleanup_queued \ {w}
  /\ UNCHANGED <<outsideVars, storeVars, dataVars, planVars, status, cleanup_failed,
                 invalidate_project, requires_full_upload, cleanup_started>>

(* What stop_session does to a process: only a live one is told to stop.   *)
Mut_StopSession(w) == sess

Mut_StopsEnded(w) == [sess EXCEPT ![w] = "stopping"]

StopSession(w) == [sess EXCEPT ![w] = IF @ = "live" THEN "stopping" ELSE @]

(* One round begins: nothing left to do, a session to stop, or none.  A    *)
(* process whose start was never confirmed blocks the round (is_degraded). *)
CleanupRound(w) ==
  /\ \/ /\ status[w] \notin Owning
        /\ Done(w, "cleanup")
        /\ UNCHANGED sess
     \/ /\ status[w] \in Owning
        /\ UNCHANGED seen_clean
        /\ seen_invalid' = SetFlag(seen_invalid, w, w \in invalidate_project)
        /\ \/ /\ w \in session_id
              /\ Goto(w, "cleanup", "cleanup_stop")
              /\ sess' = StopSession(w)
           \/ /\ w \notin session_id
              /\ \A v \in Workflows : sess[v] # "unknown"
              /\ Goto(w, "cleanup", "cleanup_mark")
              /\ UNCHANGED sess
  /\ UNCHANGED <<cleanupVars, storeVars, flagVars, planVars, registryVars, clientVars,
                 session_id, observer>>

(* stop_session of the SessionManager waits for the reaped process, but    *)
(* no longer than ten seconds.                                             *)
Mut_SessionStopped(w) == TRUE

SessionStopped(w) == sess[w] \notin Vivado

CleanupStops(w) ==
  /\ Goto(w, "cleanup_stop", IF SessionStopped(w) THEN "cleanup_mark" ELSE "cleanup")
  /\ UNCHANGED <<outsideVars, cleanupVars, storeVars, dataVars, planVars>>

CleanupMarks(w) ==
  /\ \/ /\ w \in seen_invalid
        /\ Goto(w, "cleanup_mark", "cleanup_dirty")
        /\ mark_dirty
     \/ /\ w \notin seen_invalid
        /\ Goto(w, "cleanup_mark", "cleanup_abort")
        /\ UNCHANGED storeVars
  /\ UNCHANGED <<outsideVars, cleanupVars, dataVars, planVars>>

CleanupMarked(w) ==
  /\ \/ MarkReturns("ok") /\ Goto(w, "cleanup_dirty", "cleanup_abort")
     \/ MarkReturns("err") /\ Goto(w, "cleanup_dirty", "cleanup")
  /\ UNCHANGED <<outsideVars, cleanupVars, dataVars, planVars>>

(* abort_open, whose staging may refuse to go.                             *)
CleanupAborts(w) ==
  /\ abort_open
  /\ Goto(w, "cleanup_abort", "cleanup_check")
  /\ UNCHANGED <<outsideVars, cleanupVars, storeVars, dataVars, plan_kind, tree_before,
                 commit_result>>

CleanupAbortFails(w) ==
  /\ "io" \in Faults
  /\ abort_open
  /\ Goto(w, "cleanup_abort", "cleanup")
  /\ UNCHANGED <<outsideVars, cleanupVars, storeVars, dataVars, plan_kind, tree_before,
                 commit_result>>

CleanupChecks(w) ==
  /\ Goto(w, "cleanup_check", "cleanup_decide")
  /\ \E clean \in is_clean : seen_clean' = SetFlag(seen_clean, w, clean)
  /\ UNCHANGED <<outsideVars, cleanupVars, storeVars, planVars, seen_invalid,
                 initializing, open_sync, baseline_clean>>

(* A request that arrived meanwhile may have asked for the dirty marker.   *)
CleanupDecides(w) ==
  /\ Goto(w, "cleanup_decide",
          IF w \in invalidate_project \ seen_invalid THEN "cleanup"
          ELSE IF w \in cleanup_failed THEN "cleanup_to_failed" ELSE "cleanup_to_cancelled")
  /\ UNCHANGED <<outsideVars, cleanupVars, storeVars, dataVars, planVars>>

CleanupPublishes(w, st) ==
  LET full == w \notin seen_clean IN
  /\ op[w] = (IF st = "failed" THEN "cleanup_to_failed" ELSE "cleanup_to_cancelled")
  /\ IF TerminalAllowed(w, st, full)
     THEN Done(w, op[w]) /\ Publish(w, st, full)
     ELSE Goto(w, op[w], "cleanup") /\ UNCHANGED <<PublishedVars, localVars>>
  /\ UNCHANGED <<storeVars, clientVars, sessionVars, requestVars, tree_before,
                 commit_result, initializing, baseline_clean, service, observer>>

-----------------------------------------------------------------------------
(* Panics.                                                                 *)

(* A panic drops the lock and the locals; the task's supervisor reports it *)
(* later.  Only where a task runs code that may panic: between a commit's  *)
(* result and its handling there is none but for a poisoned lock, after    *)
(* which ownership is retained for good.                                   *)
TaskPanics(w) ==
  /\ "panic" \in Faults
  /\ op[w] \in CreateOps \cup {"push_plan", "commit_apply", "finish_publish"}
  /\ Done(w, op[w])
  /\ failing' = failing \cup {w}
  /\ UNCHANGED <<cleanupVars, storeVars, flagVars, planVars, registryVars, sessionVars,
                 silent, transfers, observer>>

ObserverPanics(w) ==
  /\ "panic" \in Faults
  /\ observer[w] \in {"watch", "exit0", "other"}
  /\ op[w] # "observe_mark"
  /\ observer' = [observer EXCEPT ![w] = "done"]
  /\ failing' = failing \cup {w}
  /\ UNCHANGED <<cleanupVars, storeVars, dataVars, planVars, registryVars, sessionVars,
                 silent, transfers, op>>

(* The cleanup's supervisor starts the worker again.                       *)
CleanupPanics(w) ==
  /\ "panic" \in Faults
  /\ op[w] \in CleanupOps \ {"cleanup_dirty"}
  /\ status[w] \in Owning
  /\ Done(w, op[w])
  /\ cleanup_failed' = cleanup_failed \cup {w}
  /\ invalidate_project' = invalidate_project \cup {w}
  /\ requires_full_upload' = requires_full_upload \cup {w}
  /\ cleanup_queued' = cleanup_queued \cup {w}
  /\ UNCHANGED <<outsideVars, storeVars, flagVars, planVars, status, cleanup_started>>
=============================================================================
