---------------------------- MODULE WorkflowRun -----------------------------
(***************************************************************************)
(* The running phase: start_session, the Vivado process behind it, the     *)
(* observer that publishes its success, and stop_session.                  *)
(***************************************************************************)
EXTENDS WorkflowState

(* start_session and the Vivado process.                                   *)

(* A plan still open, or a full upload still owed, refuses the start; the  *)
(* refreshed open_sync stays either way.                                   *)
StartRefused(w) ==
  /\ LockFree(w)
  /\ InPhase(w, "preparing")
  /\ refresh_open_sync(w)
  /\ w \in requires_full_upload
  /\ UNCHANGED <<outsideVars, cleanupVars, storeVars, localVars, initializing,
                 baseline_clean, plan_kind, tree_before, commit_result, op>>

StartBegin(w) ==
  /\ Lock(w, "start_dirty")
  /\ InPhase(w, "preparing")
  /\ refresh_open_sync(w)
  /\ w \notin requires_full_upload
  /\ mark_dirty
  /\ UNCHANGED <<outsideVars, cleanupVars, localVars, initializing, baseline_clean,
                 plan_kind, tree_before, commit_result>>

(* The phase is checked again: a cancellation may have come meanwhile.     *)
StartMarked(w) ==
  /\ MarkReturns("ok")
  /\ Goto(w, "start_dirty", IF InPhase(w, "preparing") THEN "start_create" ELSE "idle")
  /\ UNCHANGED <<outsideVars, cleanupVars, dataVars, planVars>>

(* The supervisor has started Vivado, which writes to the project.         *)
Spawn(w) ==
  /\ op[w] = "start_create"
  /\ sess[w] = "none"
  /\ sess' = [sess EXCEPT ![w] = "live"]
  /\ tree' = "partial"
  /\ tree_on' = "cache"
  /\ UNCHANGED <<cleanupVars, markerVars, dataVars, planVars, registryVars, clientVars,
                 session_id, op, observer>>

(* create_session fails: nothing was started, or it was started, refused   *)
(* (its terminal could not be watched) and reaped, or the spawning task    *)
(* panicked and the manager, degraded, cannot tell.                        *)
SpawnFails(w) ==
  /\ Goto(w, "start_create", "idle")
  /\ \/ sess[w] \in {"none", "dead"} /\ UNCHANGED <<sess, tree, tree_on>>
     \/ /\ sess[w] = "none"
        /\ "panic" \in Faults
        /\ sess' = [sess EXCEPT ![w] = "unknown"]
        /\ tree' = "partial"
        /\ tree_on' = "cache"
  /\ fail(w, TRUE)
  /\ UNCHANGED <<markerVars, dataVars, planVars, registryVars, clientVars, session_id,
                 observer>>

(* create_session succeeds; the session may already have ended.            *)
Mut_StartOk(w) ==
  /\ Goto(w, "start_create", "idle")
  /\ sess[w] # "none"
  /\ session_id' = session_id \cup {w}
  /\ status' = [status EXCEPT ![w] = "running"]
  /\ observer' = [observer EXCEPT ![w] = "watch"]
  /\ UNCHANGED <<storeVars, dataVars, planVars, registryVars, clientVars, requestVars,
                 requires_full_upload, sess>>

StartOk(w) ==
  /\ Goto(w, "start_create", "idle")
  /\ sess[w] # "none"
  /\ session_id' = session_id \cup {w}
  /\ status' = [status EXCEPT ![w] = IF @ = "stopping" THEN @ ELSE "running"]
  /\ observer' = [observer EXCEPT ![w] = "watch"]
  /\ UNCHANGED <<storeVars, dataVars, planVars, registryVars, clientVars, requestVars,
                 requires_full_upload, sess>>

(* The process and its group are dead and reaped.  Exit code zero counts   *)
(* as natural even when a stop arrived while the output was drained.       *)
SessionEnds(w) ==
  /\ sess[w] \in {"live", "stopping"}
  /\ \/ sess' = [sess EXCEPT ![w] = "exit0"] /\ tree' = "trusted"
     \/ sess' = [sess EXCEPT ![w] = "dead"] /\ UNCHANGED tree
  /\ UNCHANGED <<cleanupVars, markerVars, dataVars, planVars, registryVars, clientVars,
                 tree_on, session_id, op, observer>>

-----------------------------------------------------------------------------
(* observe_session                                                         *)

(* ProcessExited with exit code zero.                                      *)
ExitedWell(w) == sess[w] = "exit0"

(* The observer leaves when its workflow is no longer running, or takes a  *)
(* snapshot of the session that ended.  A session is retained until its    *)
(* workflow is released, so get_session finds it.                          *)
ObserverPolls(w) ==
  /\ observer[w] = "watch"
  /\ \/ /\ status[w] # "running"
        /\ observer' = [observer EXCEPT ![w] = "done"]
     \/ /\ status[w] = "running"
        /\ sess[w] \in {"exit0", "dead"}
        /\ observer' = [observer EXCEPT ![w] = IF ExitedWell(w) THEN "exit0" ELSE "other"]
  /\ UNCHANGED <<cleanupVars, storeVars, dataVars, planVars, registryVars, clientVars,
                 sessionVars, op>>

(* With the lock, the status is checked again.                             *)
ObserverLocks(w) ==
  /\ observer[w] \in {"exit0", "other"}
  /\ \/ /\ status[w] = "running" /\ observer[w] = "exit0"
        /\ Lock(w, "observe_mark")
        /\ mark_clean
        /\ UNCHANGED <<cleanupVars, observer>>
     \/ /\ LockFree(w)
        /\ status[w] # "running" \/ observer[w] = "other"
        /\ observer' = [observer EXCEPT ![w] = "done"]
        /\ IF status[w] = "running" THEN fail(w, TRUE) ELSE UNCHANGED cleanupVars
        /\ UNCHANGED <<storeVars, op>>
  /\ UNCHANGED <<dataVars, planVars, registryVars, clientVars, sessionVars>>

(* Pulling is published once the clean marker is durable.                  *)
Mut_ObserverPublishes(w) ==
  /\ Goto(w, "observe_mark", "idle")
  /\ \E outcome \in {"ok", "err"} : MarkReturns(outcome)
  /\ observer' = [observer EXCEPT ![w] = "done"]
  /\ IF status[w] = "running"
     THEN /\ status' = [status EXCEPT ![w] = "pulling"]
          /\ requires_full_upload' = requires_full_upload \ {w}
     ELSE UNCHANGED <<status, requires_full_upload>>
  /\ UNCHANGED <<dataVars, planVars, registryVars, clientVars, sessionVars,
                 requestVars>>

ObserverPublishes(w) ==
  /\ Goto(w, "observe_mark", "idle")
  /\ MarkReturns("ok")
  /\ observer' = [observer EXCEPT ![w] = "done"]
  /\ IF status[w] = "running"
     THEN /\ status' = [status EXCEPT ![w] = "pulling"]
          /\ requires_full_upload' = requires_full_upload \ {w}
     ELSE UNCHANGED <<status, requires_full_upload>>
  /\ UNCHANGED <<dataVars, planVars, registryVars, clientVars, sessionVars,
                 requestVars>>

-----------------------------------------------------------------------------
(* stop_session                                                            *)

(* The session's status is read first, without any lock ...                *)
StopReads(w) ==
  /\ service = "up"
  /\ status[w] \notin {"absent", "gone"}
  /\ w \in session_id
  /\ sess[w] \notin {"exit0", "dead"}
  /\ failing' = failing \cup {w}
  /\ UNCHANGED <<cleanupVars, storeVars, dataVars, planVars, registryVars, sessionVars,
                 silent, transfers, op, observer>>

(* ... and acted upon later.  recover_task_failure does the same for a     *)
(* task that panicked, whose lock is free by then, and also ends an        *)
(* initialization.                                                         *)
ReportFailure(w) ==
  /\ w \in failing
  /\ failing' = failing \ {w}
  /\ initializing' = initializing \ {w}
  /\ request_cleanup(w, "failed", TRUE)
  /\ UNCHANGED <<storeVars, localVars, open_sync, baseline_clean, planVars, registryVars,
                 sessionVars, silent, transfers, op, observer>>
=============================================================================
