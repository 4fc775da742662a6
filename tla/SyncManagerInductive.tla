------------------------ MODULE SyncManagerInductive ------------------------
(***************************************************************************)
(* The inductive invariant behind the safety invariants of SyncManager:    *)
(* what the points of the tasks say about the plans, the permit, the       *)
(* locks and the notifications.                                            *)
(***************************************************************************)
EXTENDS SyncManager

(* The points of cleanup_session and of prune_results.                     *)
CleanupPoints == {"cleanup", "remove", "prune", "forget", "cleaned"}

Operations == {"none", "create", "upload", "commit", "abort", "abort_open", "reap", "shutdown"}

Points == CleanupPoints \cup
  {"none", "start", "permit", "insert", "stream", "record", "look", "wait", "apply",
   "abort", "alone", "next", "cancel", "drain", "stopped"}

States == {"none", "created", "abandoned"} \cup Active \cup Ended
Roles == {"none", "commit", "abort", "cleanup"}

PlanRecords ==
  [state : States, registered : BOOLEAN, permit : BOOLEAN, overdue : BOOLEAN,
   upload_files : SUBSET Files, uploaded : SUBSET Files, cancel : BOOLEAN,
   finished : 0 .. Cardinality(Plans), aged : BOOLEAN, cleanup_pending : BOOLEAN,
   cleanup_failed : BOOLEAN, staging : BOOLEAN, staged : SUBSET Files]

TaskRecords ==
  [op : Operations, pc : Points, plan : Plans \cup {NoPlan}, file : SUBSET Files,
   role : Roles, heard : BOOLEAN, failed : BOOLEAN, todo : SUBSET Plans,
   list : SUBSET Plans]

ManagerRecords ==
  [up : BOOLEAN, closed : BOOLEAN, permits : Int, cleanup_degraded : Int, ops : Nat]

(* The shape of the state, without the bounds of the manager's counters.   *)
Shape ==
  /\ plan \in [Plans -> PlanRecords]
  /\ task \in [Tasks -> TaskRecords]
  /\ manager \in ManagerRecords

(* Points of a task that has a plan.                                       *)
PlanPoints ==
  {"insert", "stream", "record", "look", "wait", "apply", "abort", "alone", "cleanup",
   "remove", "cleaned"}

(* Which operation reaches which point, with which plan and which role.    *)
TaskFit(k) ==
  /\ k.pc \in PlanPoints => k.plan \in Plans
  /\ k.role # "none" => k.plan \in Plans
  /\ k.pc = "start" /\ k.op \in {"upload", "commit", "abort"} => k.plan \in Plans
  /\ k.pc \in {"permit", "insert"} => k.op = "create"
  /\ k.op = "create" => k.pc \in {"start", "prune", "forget", "permit", "insert"}
  /\ k.pc \in {"stream", "record"} => k.op = "upload"
  /\ k.op = "upload" => k.pc \in {"start", "stream", "record"}
  /\ k.op \in {"create", "upload"} => k.role = "none"
  /\ k.pc \in {"look", "apply"} => k.op = "commit"
  /\ k.pc = "wait" /\ k.role = "none" => k.op = "commit"
  /\ k.pc \in {"alone", "cleanup", "remove", "cleaned"} => k.role # "none"
  /\ k.pc \in {"prune", "forget"} /\ k.role = "none" => k.op \in {"create", "reap"}
  /\ k.role = "commit" => k.op = "commit" /\ k.pc \in CleanupPoints
  /\ k.role = "abort" => k.pc \in CleanupPoints \cup {"alone", "wait"}
  /\ k.role = "cleanup" => k.pc \in CleanupPoints

TaskFits == \A t \in Tasks : TaskFit(task[t])

(* The states of a plan: registered while anything may still be asked of   *)
(* it, with its staging until that is removed.                             *)
PlanFit(q) ==
  /\ q.permit <=> q.state \in Active
  /\ q.registered => q.state \in Active \cup Ended
  /\ q.state = "created" => q.staging /\ q.uploaded = {}
  /\ q.state \in Active => q.registered /\ q.staging /\ ~q.cleanup_pending
  /\ q.cleanup_pending => q.registered /\ q.state \in Ended
  /\ q.cleanup_failed => q.cleanup_pending
  /\ q.staging /\ q.state \in Ended => q.cleanup_pending
  /\ q.state \in Active => q.uploaded \subseteq q.staged
  /\ q.state = "Committing" => q.upload_files \subseteq q.staged

PlanFits == \A p \in Plans : PlanFit(plan[p])

(* A new process finds nothing registered and no task under way, and       *)
(* removes what staging there is before it serves anything.                *)
DownFits ==
  /\ ~manager.up => /\ \A p \in Plans : ~plan[p].registered
                    /\ \A t \in Tasks : task[t] = Idle
  /\ manager.up => \A p \in Plans : plan[p].state = "none" => ~plan[p].staging

(* The one permit: with the manager, a creation or an active plan.         *)
Creates(t) == task[t].op = "create" /\ task[t].pc = "insert"

PermitFits ==
  /\ manager.permits \in 0 .. 1
  /\ manager.permits = 1 <=> /\ \A t \in Tasks : ~Creates(t)
                             /\ \A p \in Plans : plan[p].state \notin Active
  /\ \A t, u \in Tasks : Creates(t) /\ Creates(u) => t = u
  /\ \A p, q \in Plans : plan[p].state \in Active /\ plan[q].state \in Active => p = q
  /\ \A t \in Tasks, p \in Plans : ~(Creates(t) /\ plan[p].state \in Active)
  /\ \A t \in Tasks : Creates(t) => plan[task[t].plan].state = "created"

(* Uploads write to an open plan; what is to be recorded is there.         *)
UploadFits ==
  \A t \in Tasks :
    /\ HoldsActivity(t) => plan[task[t].plan].state = "Open"
    /\ task[t].pc = "record" => task[t].file \subseteq plan[task[t].plan].staged

(* A plan commits in one task; who removes its staging does so alone, and  *)
(* what a pruner has in hand has ended and is clean.                       *)
CommitFits ==
  /\ \A t \in Tasks : task[t].pc = "apply" => plan[task[t].plan].state = "Committing"
  /\ \A p \in Plans : plan[p].state = "Committing" =>
       \E t \in Tasks : task[t].pc = "apply" /\ task[t].plan = p
  /\ \A t, u \in Tasks :
       task[t].pc = "apply" /\ task[u].pc = "apply" /\ task[t].plan = task[u].plan => t = u

CleanupFits ==
  /\ \A t \in Tasks : task[t].pc = "remove" => plan[task[t].plan].cleanup_pending
  /\ \A t, u \in Tasks :
       InCleanup(t) /\ InCleanup(u) /\ task[t].plan = task[u].plan => t = u
  /\ \A t \in Tasks, p \in Plans : p \in task[t].list =>
       plan[p].state \in Ended /\ ~plan[p].cleanup_pending

(* The task of shutdown: alone once the others are drained, and with every *)
(* plan that is still active before it.                                    *)
CloserFits ==
  LET c == task[Closer] IN
  /\ manager.closed => c.op = "shutdown"
  /\ ~manager.closed => c = Idle
  /\ c.op = "shutdown" => manager.closed
  /\ manager.closed /\ c.pc \notin {"cancel", "drain"} =>
       /\ \A t \in Tasks \ {Closer} : task[t] = Idle
       /\ \A p \in Plans : plan[p].state \in Active =>
            p \in c.todo \/ (c.plan = p /\ c.pc \in {"abort", "alone", "wait"})
  /\ c.pc = "stopped" => c.todo = {}

SyncManagerInv ==
  /\ Shape /\ TaskFits /\ PlanFits /\ DownFits /\ PermitFits /\ UploadFits
  /\ CommitFits /\ CleanupFits /\ CloserFits /\ DegradedAgrees /\ WaitersWake
=============================================================================
