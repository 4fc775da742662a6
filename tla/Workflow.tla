------------------------------ MODULE Workflow ------------------------------
(***************************************************************************)
(* The workflow manager (src/src/workflow.rs): one workflow at a time owns *)
(* the service from the upload of its sources, through Vivado, to the      *)
(* download of its outputs, and gives the slot back only when its cleanup  *)
(* has settled the session, the upload plan and the project's marker.      *)
(*                                                                         *)
(* This module composes the phases with creation, expiry, retention,       *)
(* shutdown and restart, and states the properties.                        *)
(***************************************************************************)
EXTENDS WorkflowPush, WorkflowRun, WorkflowCleanup

(* create                                                                  *)

(* The slot is reserved, the activity lock held, before the marker is read.*)
CreateReserve(w) ==
  /\ service = "up"
  /\ status[w] = "absent"
  /\ active = None
  /\ active' = w
  /\ status' = [status EXCEPT ![w] = "preparing"]
  /\ initializing' = initializing \cup {w}
  /\ requires_full_upload' = requires_full_upload \cup {w}
  /\ Goto(w, "idle", "create_read")
  /\ UNCHANGED <<storeVars, planVars, clientVars, sessionVars, requestVars, localVars,
                 service, open_sync, baseline_clean, observer>>

(* project_path fails, or is_clean answers.                                *)
CreateRead(w) ==
  /\ \/ /\ Goto(w, "create_read", "create_publish")
        /\ \E clean \in is_clean : seen_clean' = SetFlag(seen_clean, w, clean)
     \/ /\ "io" \in Faults
        /\ Goto(w, "create_read", "create_fail")
        /\ UNCHANGED seen_clean
  /\ UNCHANGED <<outsideVars, cleanupVars, storeVars, planVars, seen_invalid,
                 initializing, open_sync, baseline_clean>>

(* The request chose whether to reset the project; without a clean project *)
(* and without a reset the new workflow fails at once.                     *)
CreateAccept(w, reset) ==
  LET clean == w \in seen_clean IN
  /\ Done(w, "create_publish")
  /\ clean \/ reset
  /\ initializing' = initializing \ {w}
  /\ baseline_clean' = SetFlag(baseline_clean, w, clean)
  /\ requires_full_upload' = SetFlag(requires_full_upload, w, reset \/ ~clean)
  /\ UNCHANGED <<outsideVars, storeVars, planVars, requestVars, status, open_sync>>

CreateRefuse(w) ==
  /\ \/ Done(w, "create_publish") /\ w \notin seen_clean
     \/ Done(w, "create_fail")
  /\ initializing' = initializing \ {w}
  /\ IF TerminalAllowed(w, "failed", TRUE)
     THEN Publish(w, "failed", TRUE)
     ELSE UNCHANGED PublishedVars
  /\ UNCHANGED <<storeVars, clientVars, sessionVars, requestVars, tree_before,
                 commit_result, service, baseline_clean, observer>>

-----------------------------------------------------------------------------
(* heartbeat and expire_active                                             *)

Heartbeat(w) ==
  /\ service = "up"
  /\ status[w] \in Owning \ {"stopping"}
  /\ silent' = silent \ {w}
  /\ UNCHANGED <<cleanupVars, storeVars, dataVars, planVars, registryVars, sessionVars,
                 failing, transfers, op, observer>>

(* heartbeat_timeout passes without a heartbeat; once stopping, nobody     *)
(* looks at the clock any more.                                            *)
FallSilent(w) ==
  /\ "silence" \in Faults
  /\ status[w] \in Owning \ {"stopping"}
  /\ silent' = silent \cup {w}
  /\ UNCHANGED <<cleanupVars, storeVars, dataVars, planVars, registryVars, sessionVars,
                 failing, transfers, op, observer>>

(* The reaper's check, under the registry lock that heartbeat also takes.  *)
Mut_HeartbeatExpired(w) == status[w] = "running" /\ w \in silent

HeartbeatExpired(w) == status[w] \in Owning \ {"stopping"} /\ w \in silent

expire_active(w) ==
  /\ service = "up"
  /\ active = w
  /\ HeartbeatExpired(w)
  /\ request_cleanup(w, "cancelled", FALSE)
  /\ UNCHANGED <<outsideVars, storeVars, dataVars, planVars, op>>

-----------------------------------------------------------------------------
(* Retention, shutdown and restart.                                        *)

(* prune forgets a workflow that ended, and what it knew: nobody can name  *)
(* its session any more, and whoever was about to fail it finds no entry.  *)
prune(w) ==
  /\ status[w] \in Terminal
  /\ status' = [status EXCEPT ![w] = "gone"]
  /\ requires_full_upload' = requires_full_upload \ {w}
  /\ baseline_clean' = baseline_clean \ {w}
  /\ cleanup_failed' = cleanup_failed \ {w}
  /\ invalidate_project' = invalidate_project \ {w}
  /\ cleanup_started' = cleanup_started \ {w}
  /\ session_id' = session_id \ {w}
  /\ sess' = [sess EXCEPT ![w] = "none"]
  /\ observer' = [observer EXCEPT ![w] = IF @ = "done" THEN "none" ELSE @]
  /\ silent' = silent \ {w} /\ failing' = failing \ {w}
  /\ initializing' = initializing \ {w}
  /\ UNCHANGED <<storeVars, registryVars, planVars, localVars, open_sync, cleanup_queued,
                 transfers, op>>

(* shutdown closes admission and cancels the active workflow in one step.  *)
Mut_ShutdownCancels == UNCHANGED cleanupVars

ShutdownCancels ==
  IF active = None THEN UNCHANGED cleanupVars
                   ELSE request_cleanup(active, "cancelled", FALSE)

shutdown ==
  /\ service = "up"
  /\ service' = "stopping"
  /\ ShutdownCancels
  /\ UNCHANGED <<storeVars, dataVars, planVars, clientVars, sessionVars, active, op,
                 observer>>

(* The tracked tasks end, then the session and sync managers shut down.    *)
TasksDone ==
  /\ \A w \in Workflows : op[w] = "idle" /\ observer[w] \in {"none", "done"}
  /\ cleanup_queued = {}
  /\ failing = {}

ShutdownEnds ==
  /\ service = "stopping"
  /\ TasksDone
  /\ service' = "down"
  /\ plan' = IF plan = "open" THEN "aborted" ELSE plan
  /\ UNCHANGED <<cleanupVars, storeVars, dataVars, clientVars, sessionVars, active,
                 plan_kind, tree_before, commit_result, op, observer>>

(* The next process knows nothing of the last one's workflows, sessions    *)
(* and plans; the unit's control group took Vivado with it.                *)
Forget ==
  /\ active' = None
  /\ service' = "up"
  /\ transfers' = [w \in Workflows |-> 0]
  /\ op' = [w \in Workflows |-> "idle"]
  /\ observer' = [w \in Workflows |-> "none"]
  /\ sess' = [w \in Workflows |-> "none"]
  /\ plan' = "none"
  /\ plan_kind' = "reset"
  /\ tree_before' = "partial"
  /\ commit_result' = "none"
  /\ initializing' = {} /\ requires_full_upload' = {} /\ open_sync' = {}
  /\ baseline_clean' = {} /\ cleanup_failed' = {} /\ invalidate_project' = {}
  /\ cleanup_started' = {} /\ cleanup_queued' = {} /\ silent' = {}
  /\ seen_clean' = {} /\ seen_invalid' = {} /\ failing' = {} /\ session_id' = {}
  /\ status' = [w \in Workflows |-> IF status[w] = "absent" THEN "absent" ELSE "gone"]

Restart ==
  /\ service = "down"
  /\ Forget
  /\ mw' = "idle"
  /\ UNCHANGED <<marker, disk, tree, tree_on, mw_value>>

Crash ==
  /\ "crash" \in Faults
  /\ StoreCrash
  /\ Forget

-----------------------------------------------------------------------------
(* The steps of whoever holds the write lock of w.                         *)
HolderStep(w) ==
  \/ CreateRead(w) \/ (\E reset \in BOOLEAN : CreateAccept(w, reset)) \/ CreateRefuse(w)
  \/ PushPlan(w)
  \/ CommitMarked(w) \/ MarkerError(w) \/ CommitApply(w) \/ CommitOk(w) \/ CommitErr(w)
  \/ CommitRestore(w) \/ CommitGivesUp(w) \/ CommitRestored(w)
  \/ StartMarked(w) \/ Spawn(w) \/ SpawnFails(w) \/ StartOk(w)
  \/ ObserverPublishes(w) \/ FinishFails(w) \/ FinishPublishes(w)
  \/ CleanupRound(w) \/ CleanupStops(w) \/ CleanupMarks(w) \/ CleanupMarked(w)
  \/ CleanupAborts(w) \/ CleanupAbortFails(w) \/ CleanupChecks(w) \/ CleanupDecides(w)
  \/ (\E st \in {"failed", "cancelled"} : CleanupPublishes(w, st))

(* What clients, timers and the environment decide.                        *)
RequestStep(w) ==
  \/ CreateReserve(w) \/ Heartbeat(w) \/ FallSilent(w) \/ lease(w)
  \/ PushBegin(w) \/ abort_sync(w) \/ CommitBegin(w) \/ StartRefused(w) \/ StartBegin(w)
  \/ StopReads(w) \/ FinishBegin(w) \/ cancel(w) \/ prune(w)
  \/ TaskPanics(w) \/ ObserverPanics(w) \/ CleanupPanics(w)

(* What the service's background tasks do on their own.                    *)
TaskStep(w) ==
  \/ expire_active(w) \/ LeaseDrop(w) \/ SessionEnds(w) \/ ObserverPolls(w)
  \/ ObserverLocks(w) \/ ReportFailure(w) \/ CleanupLocks(w)

MarkerStep == StoreStep /\ UNCHANGED workflowVars

Next ==
  \/ \E w \in Workflows : HolderStep(w) \/ RequestStep(w) \/ TaskStep(w)
  \/ MarkerStep
  \/ PlanExpires \/ ApplyWrites \/ ApplySettles
  \/ shutdown \/ ShutdownEnds \/ Restart \/ Crash

Spec == Init /\ [][Next]_vars

(***************************************************************************)
(* Fairness.  Tokio runs every task that can run, so each task's steps are *)
(* weakly fair; a live Vivado owes nothing, a stopped one is killed.       *)
(* Strong fairness of the I/O that cleanup retries says that the storage   *)
(* does not fail for ever.  Clients owe nothing.                           *)
(***************************************************************************)
Fairness ==
  /\ \A w \in Workflows :
       /\ WF_vars(HolderStep(w))
       /\ SF_vars(CleanupAborts(w))
       /\ WF_vars(expire_active(w))
       /\ WF_vars(LeaseDrop(w) /\ w \in cleanup_started)
       /\ WF_vars(SessionEnds(w) /\ sess[w] = "stopping")
       /\ WF_vars(ObserverPolls(w))
       /\ WF_vars(ObserverLocks(w))
       /\ WF_vars(ReportFailure(w))
       /\ WF_vars(CleanupLocks(w))
  /\ SF_vars(Syncfs /\ UNCHANGED workflowVars)
  /\ SF_vars(Rename /\ UNCHANGED workflowVars)
  /\ SF_vars(DirSync /\ UNCHANGED workflowVars)
  /\ WF_vars(ApplySettles)
  /\ WF_vars(ShutdownEnds)

FairSpec == Spec /\ Fairness

-----------------------------------------------------------------------------
(* Properties                                                              *)

(* Vivado or a commit may be writing to the project.                       *)
Writing == plan = "committing" \/ \E w \in Workflows : sess[w] \in Vivado

(* The contract of the marker (docs/architecture.md: dirty is persisted    *)
(* before the first modification, clean only after all writers stopped and *)
(* the data is on storage): whatever marker a restart finds, crash or      *)
(* power loss included, clean means a complete, durable tree that nobody   *)
(* is writing to.                                                          *)
ReusableIsTrusted ==
  "clean" \in disk => tree = "trusted" /\ tree_on = "disk" /\ ~Writing

(* The registry's slot and the workflow's status agree: exactly the owner  *)
(* is unfinished, so capacity is neither leaked nor given out twice        *)
(* (registry.active against WorkflowData under two separate locks).        *)
SlotAgrees ==
  \A w \in Workflows : status[w] \in Owning <=> active = w

(* "A process still stopping must not free capacity": as long as Vivado    *)
(* may run, its workflow owns the slot and the project is durably dirty.   *)
VivadoHoldsSlot ==
  \A w \in Workflows : sess[w] \in Vivado => active = w /\ disk = {"dirty"}

(* An upload plan that can still change the project belongs to the active  *)
(* workflow, which knows it: no cleanup or panic strands the only permit.  *)
PlanHasOwner ==
  plan \in {"open", "committing"} => active \in open_sync

(* A plan that patches the tree is only open over a tree worth patching.   *)
PatchesTrustedTree ==
  plan = "open" /\ plan_kind = "incremental" => tree = "trusted"

(* Outputs are offered only of a Vivado that exited with zero, after the   *)
(* clean marker became durable, whatever stop or crash raced the observer. *)
PullingIsPublished ==
  \A w \in Workflows :
    status[w] = "pulling" => sess[w] = "exit0" /\ disk = {"clean"}

(* What a client sees is WorkflowLifecycle: one owner, the phases in their *)
(* order, stopping never left but for an end, the marker untouched while   *)
(* outputs are read.                                                       *)
Lifecycle == INSTANCE WorkflowLifecycle
               WITH owner <- active, phase <- status, reusable <- (marker = "clean")

ImplementsLifecycle == Lifecycle!Spec

(* Vivado processes come and go here only as the session manager promises, *)
(* one at a time: the composition with Session, which implements the same  *)
(* contract.                                                               *)
Contract == INSTANCE SessionContract WITH Sessions <- Workflows, view <- sess

KeepsSessionContract == Contract!Spec

(* A step that ends a workflow.                                            *)
Releases(w) == status[w] \in Owning /\ status'[w] \in Terminal

(* The slot is only released with everything settled: no process, no open  *)
(* plan, no transfer, the write lock dropped, and a client told that no    *)
(* full upload is required finds a clean project next time.                *)
ReleaseSettles ==
  [][\A w \in Workflows : Releases(w) =>
       /\ ~Writing'
       /\ plan' # "open"
       /\ transfers'[w] = 0
       /\ op'[w] = "idle"
       /\ w \notin requires_full_upload' => marker' = "clean"]_vars

(* A request to invalidate the project is honoured before the slot is      *)
(* released, although it may arrive in the middle of a cleanup round.      *)
InvalidationIsHonoured ==
  [][\A w \in Workflows :
       Releases(w) /\ w \in invalidate_project => marker = "dirty"]_vars

(* Docs, architecture.md, state diagram: a workflow that reached pulling   *)
(* completes or is cancelled; "failed" is entered from preparing and from  *)
(* running only.                                                           *)
PullingNeverFails ==
  [][\A w \in Workflows :
       status[w] = "pulling" => w \notin cleanup_failed']_vars

(* Once a cleanup was requested the workflow ends and gives up the slot:   *)
(* retries, the ten-second session wait and cancelled transfers included.  *)
StoppingEnds ==
  \A w \in Workflows : status[w] = "stopping" ~> status[w] \notin Owning

(* A client that stops sending heartbeats cannot keep the slot.            *)
SilenceReleasesSlot ==
  \A w \in Workflows : w \in silent ~> (w \notin silent \/ active # w)

(* shutdown waits for accepted work, and that work always ends.            *)
ShutdownCompletes == service = "stopping" ~> service # "stopping"
=============================================================================
