--------------------------- MODULE WorkflowState ----------------------------
(***************************************************************************)
(* The state of the workflow manager (src/src/workflow.rs) and the steps   *)
(* its operations share.                                                   *)
(*                                                                         *)
(* Every operation that changes a workflow holds the write side of its     *)
(* activity lock; op[w] is the point that holder has reached, "idle" when  *)
(* the lock is not write-held.  A request that still waits for the lock    *)
(* has no state of its own, so its first action is the acquisition.        *)
(* The session and the upload plan are seen as the manager sees them.      *)
(***************************************************************************)
EXTENDS ProjectStore, Integers, FiniteSets

CONSTANTS
  Workflows,      \* Workflow identifiers, each used once.
  None,           \* No workflow.
  MaxTransfers    \* Bound on the transfers of one workflow.

ASSUME NoneAssumption == None \notin Workflows
ASSUME TransfersAssumption == MaxTransfers \in Nat

VARIABLES
  (* Registry *)
  active,               \* The workflow that owns the slot, or None.
  service,              \* "up", "stopping" after shutdown began, "down".
  (* WorkflowData: sets hold the workflows whose flag is set. *)
  status,
  initializing,
  requires_full_upload,
  open_sync,            \* open_sync = Some(the latest plan).
  baseline_clean,
  cleanup_failed,       \* cleanup_target = Failed rather than Cancelled.
  invalidate_project,
  cleanup_started,      \* Also: the cancellation token is cancelled.
  silent,               \* The last heartbeat is older than the timeout.
  transfers,            \* Read leases on the activity lock.
  (* Tasks *)
  op,                   \* Where the holder of the write lock is.
  seen_clean,           \* The holder's local answer of is_clean.
  seen_invalid,         \* The cleanup's local copy of invalidate_project.
  cleanup_queued,       \* The cleanup worker waits for the lock.
  observer,             \* The task that watches the session.
  failing,              \* A task is about to fail the workflow.
  (* SessionManager *)
  sess,                 \* What became of the workflow's Vivado process.
  session_id,           \* The workflow knows its session.
  (* SyncManager *)
  plan,                 \* State of the latest upload plan.
  plan_kind,            \* Whether it replaces the tree or patches it.
  tree_before,          \* Rollback material of the running commit.
  commit_result         \* What the last sync.commit returned.

registryVars == <<active, service>>
requestVars == <<cleanup_failed, invalidate_project, cleanup_started, cleanup_queued>>
cleanupVars == <<status, requires_full_upload, requestVars>>
planVars == <<plan, plan_kind, tree_before, commit_result>>
sessionVars == <<sess, session_id>>
localVars == <<seen_clean, seen_invalid>>
clientVars == <<silent, failing, transfers>>
flagVars == <<initializing, open_sync, baseline_clean>>
dataVars == <<flagVars, localVars>>
outsideVars == <<registryVars, clientVars, sessionVars, observer>>
workflowVars == <<outsideVars, cleanupVars, planVars, dataVars, op>>
vars == <<storeVars, workflowVars>>

-----------------------------------------------------------------------------
(* WorkflowStatus, plus the identifiers never used and those forgotten.    *)
Terminal == {"completed", "cancelled", "failed"}
Owning == {"preparing", "running", "pulling", "stopping"}
Statuses == Owning \cup Terminal \cup {"absent", "gone"}

(* Points at which a holder of the write lock waits or may be overtaken.   *)
CreateOps == {"create_read", "create_publish", "create_fail"}
CommitOps == {"commit_dirty", "commit_apply", "commit_wait", "commit_settle",
              "commit_clean_retry", "commit_clean_fail"}
StartOps == {"start_dirty", "start_create"}
CleanupOps == {"cleanup", "cleanup_stop", "cleanup_mark", "cleanup_dirty",
               "cleanup_abort", "cleanup_check", "cleanup_decide",
               "cleanup_to_failed", "cleanup_to_cancelled"}
Ops == CreateOps \cup CommitOps \cup StartOps \cup CleanupOps
         \cup {"idle", "push_plan", "observe_mark", "finish_publish"}

(* The process behind a session may still run in the last three.           *)
Vivado == {"live", "stopping", "unknown"}
SessionStates == {"none", "exit0", "dead"} \cup Vivado
PlanStates == {"none", "open", "committing", "committed", "failed", "aborted", "expired"}
Results == {"none", "ok", "missing", "error", "reupload"}

TypeOK ==
  /\ StoreTypeOK
  /\ active \in Workflows \cup {None}
  /\ service \in {"up", "stopping", "down"}
  /\ status \in [Workflows -> Statuses]
  /\ transfers \in [Workflows -> 0 .. MaxTransfers]
  /\ op \in [Workflows -> Ops]
  /\ observer \in [Workflows -> {"none", "watch", "exit0", "other", "done"}]
  /\ sess \in [Workflows -> SessionStates]
  /\ plan \in PlanStates
  /\ plan_kind \in {"reset", "incremental"}
  /\ tree_before \in Trees
  /\ commit_result \in Results
  /\ initializing \in SUBSET Workflows
  /\ requires_full_upload \in SUBSET Workflows
  /\ open_sync \in SUBSET Workflows
  /\ baseline_clean \in SUBSET Workflows
  /\ cleanup_failed \in SUBSET Workflows
  /\ invalidate_project \in SUBSET Workflows
  /\ cleanup_started \in SUBSET Workflows
  /\ cleanup_queued \in SUBSET Workflows
  /\ silent \in SUBSET Workflows
  /\ seen_clean \in SUBSET Workflows
  /\ seen_invalid \in SUBSET Workflows
  /\ failing \in SUBSET Workflows
  /\ session_id \in SUBSET Workflows

(* Everything the process holds in memory, as Runtime::initialize makes it.*)
Fresh ==
  /\ active = None
  /\ service = "up"
  /\ transfers = [w \in Workflows |-> 0]
  /\ op = [w \in Workflows |-> "idle"]
  /\ observer = [w \in Workflows |-> "none"]
  /\ sess = [w \in Workflows |-> "none"]
  /\ plan = "none"
  /\ plan_kind = "reset"
  /\ tree_before = "partial"
  /\ commit_result = "none"
  /\ initializing = {} /\ requires_full_upload = {} /\ open_sync = {}
  /\ baseline_clean = {} /\ cleanup_failed = {} /\ invalidate_project = {}
  /\ cleanup_started = {} /\ cleanup_queued = {} /\ silent = {}
  /\ seen_clean = {} /\ seen_invalid = {} /\ failing = {} /\ session_id = {}

Init ==
  /\ StoreInit
  /\ Fresh
  /\ status = [w \in Workflows |-> "absent"]

-----------------------------------------------------------------------------
(* Shared steps.                                                           *)

(* The flag of w in the set S becomes b.                                   *)
SetFlag(S, w, b) == IF b THEN S \cup {w} ELSE S \ {w}

(* The flag of w in the set S is set when b holds, and never cleared.      *)
Raise(S, w, b) == IF b THEN S \cup {w} ELSE S

(* The write lock of w is free: no writer, no transfer with a read lease.  *)
Mut_LockFree(w) == op[w] = "idle"

LockFree(w) == op[w] = "idle" /\ transfers[w] = 0

(* A task gets the lock and advances to a point, or the holder moves on    *)
(* ("idle" releases the lock).                                             *)
Lock(w, to) ==
  /\ LockFree(w)
  /\ op' = [op EXCEPT ![w] = to]

Goto(w, from, to) ==
  /\ op[w] = from
  /\ op' = [op EXCEPT ![w] = to]

(* The holder's task ends: the lock is free and its locals are gone.       *)
Done(w, from) ==
  /\ Goto(w, from, "idle")
  /\ seen_clean' = seen_clean \ {w}
  /\ seen_invalid' = seen_invalid \ {w}

(* WorkflowManager::phase                                                  *)
InPhase(w, phase) == w \notin initializing /\ status[w] = phase

(* The workflow still owns the slot.                                       *)
Mut_StillOwner(w) == TRUE

StillOwner(w) == status[w] \in Owning /\ active = w

(* request_cleanup_locked: fail, cancel, expiry, stop and shutdown all end *)
(* here.  Requests accumulate; the first one spawns the only worker.       *)
request_cleanup(w, target, invalidate) ==
  IF StillOwner(w)
  THEN /\ status' = [status EXCEPT ![w] = "stopping"]
       /\ cleanup_failed' = Raise(cleanup_failed, w, target = "failed")
       /\ invalidate_project' = Raise(invalidate_project, w, invalidate)
       /\ requires_full_upload' = Raise(requires_full_upload, w, invalidate)
       /\ cleanup_started' = cleanup_started \cup {w}
       /\ cleanup_queued' = Raise(cleanup_queued, w, w \notin cleanup_started)
  ELSE UNCHANGED cleanupVars

(* WorkflowManager::fail                                                   *)
fail(w, invalidate) == request_cleanup(w, "failed", invalidate)

(* WorkflowManager::terminal: the refusals, then the publication that      *)
(* releases the slot.  Nobody asks for a settled plan's result any more.   *)
TerminalAllowed(w, st, full) ==
  /\ status[w] \in Owning
  /\ st = "completed" => status[w] = "pulling"
  /\ w \in invalidate_project => full

PublishedVars == <<active, status, requires_full_upload, open_sync, plan, plan_kind>>

Publish(w, st, full) ==
  /\ status' = [status EXCEPT ![w] = st]
  /\ requires_full_upload' = SetFlag(requires_full_upload, w, full)
  /\ open_sync' = open_sync \ {w}
  /\ active' = IF active = w THEN None ELSE active
  /\ IF plan \in {"open", "committing"} THEN UNCHANGED <<plan, plan_kind>>
                                        ELSE plan' = "none" /\ plan_kind' = "reset"

(* refresh_open_sync forgets a plan that is settled, or whose deadline has *)
(* passed and which it then aborts.  A plan still open refuses the caller. *)
refresh_open_sync(w) ==
  /\ plan \notin {"committing"} \/ w \notin open_sync
  /\ plan' = IF w \in open_sync /\ plan = "open" THEN "aborted" ELSE plan
  /\ open_sync' = open_sync \ {w}

(* Any marker write of an operation that fails also fails the workflow and *)
(* asks its cleanup to make the project dirty.                             *)
MarkerError(w) ==
  /\ op[w] \in {"commit_dirty", "commit_clean_retry", "commit_clean_fail",
                "start_dirty", "observe_mark"}
  /\ Done(w, op[w])
  /\ MarkReturns("err")
  /\ fail(w, TRUE)
  /\ observer' = IF op[w] = "observe_mark" THEN [observer EXCEPT ![w] = "done"]
                                           ELSE observer
  /\ UNCHANGED <<flagVars, planVars, registryVars, clientVars, sessionVars>>
=============================================================================
