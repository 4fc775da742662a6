---------------------------- MODULE SyncManager -----------------------------
(***************************************************************************)
(* The registry of sync plans (src/src/sync.rs): the tasks of clients, the *)
(* reaper and shutdown create, fill, commit, abort, expire, clean up and   *)
(* forget plans.  A plan has a staging directory, a lock that uploads hold *)
(* shared and abort alone (activity), a lock for its removal (cleanup) and *)
(* a Notify for those who wait for a commit.                               *)
(*                                                                         *)
(* A section under the data lock is one step.  Who holds the other locks   *)
(* follows from the points the tasks have reached; any waiting task may be *)
(* next.  What apply_commit does to a project is SyncCommit.  An upload    *)
(* counts its file as staged only if length and digest are right.          *)
(***************************************************************************)
EXTENDS Integers, FiniteSets

CONSTANTS
  Plans,        \* Sync ids.
  Files,        \* What a plan may ask to be uploaded.
  Clients,      \* Tasks of requests.
  Reaper,       \* The task of spawn_session_reaper.
  Closer,       \* The task that calls shutdown.
  NoPlan,       \* No plan.
  MaxRetained,  \* MAX_RETAINED_SYNC_RESULTS.
  Faults,       \* The faults the environment may inject.
  MaxOps        \* Bound: requests other than uploads.

(* "io": a directory cannot be created or removed; "crash": the process    *)
(* dies and is started again.                                              *)
FaultKinds == {"io", "crash"}

(* Sync ids are UUIDs, of which there are finitely many.                   *)
ASSUME SyncManagerAssumption ==
  /\ IsFiniteSet(Plans)
  /\ NoPlan \notin Plans
  /\ Reaper # Closer /\ {Reaper, Closer} \cap Clients = {}
  /\ MaxRetained \in Nat \ {0} /\ MaxOps \in Nat
  /\ Faults \subseteq FaultKinds

VARIABLES
  plan,         \* SyncSession and PushSession of each id, and its staging.
  task,         \* What each task does and the point it has reached.
  manager       \* SyncManager: flags, permit, counter; and the bounds.

vars == <<plan, task, manager>>

Tasks == Clients \cup {Reaper, Closer}
Ended == {"Committed", "Failed", "Aborted", "Expired"}
Active == {"Open", "Committing"}

NewPlan ==
  [state |-> "none", registered |-> FALSE, permit |-> FALSE, overdue |-> FALSE,
   upload_files |-> {}, uploaded |-> {}, cancel |-> FALSE, finished |-> 0, aged |-> FALSE,
   cleanup_pending |-> FALSE, cleanup_failed |-> FALSE,
   staging |-> FALSE, staged |-> {}]

Idle == [op |-> "none", pc |-> "none", plan |-> NoPlan, file |-> {}, role |-> "none",
         heard |-> FALSE, failed |-> FALSE, todo |-> {}, list |-> {}]

Init ==
  /\ plan = [p \in Plans |-> NewPlan]
  /\ task = [t \in Tasks |-> Idle]
  /\ manager = [up |-> TRUE, closed |-> FALSE, permits |-> 1, cleanup_degraded |-> 0,
                ops |-> 0]

Registered == {p \in Plans : plan[p].registered}
On(t, op, pc) == task[t].op = op /\ task[t].pc = pc
Goto(t, pc) == task' = [task EXCEPT ![t].pc = pc]
Ends(t) == task' = [task EXCEPT ![t] = Idle]

MayFail(kind) == kind \in Faults

(* The locks.                                                              *)
HoldsActivity(t) == task[t].pc \in {"stream", "record"}
InCleanup(t) == task[t].role # "none" /\ task[t].pc \in {"remove", "prune", "forget"}
HoldsActivityAlone(t) ==
  task[t].role = "abort" /\ (task[t].pc \in {"cleanup", "cleaned"} \/ InCleanup(t))

ActivityFree(p) == \A t \in Tasks : task[t].plan = p => ~HoldsActivityAlone(t)
ActivityUnused(p) == ActivityFree(p) /\ \A t \in Tasks : task[t].plan = p => ~HoldsActivity(t)
CleanupFree(p) == \A t \in Tasks : task[t].plan = p => ~InCleanup(t)
CreatingFree ==
  \A t \in Tasks : task[t].op \in {"create", "abort_open"} => task[t].pc = "start"

-----------------------------------------------------------------------------
(* Requests.                                                               *)

(* tracked: a closed manager accepts nothing; what it accepted goes on     *)
(* whether or not the client waits.                                        *)
Accept(t, op, p, file) ==
  /\ manager.up /\ ~manager.closed /\ (op = "upload" \/ manager.ops < MaxOps)
  /\ task[t] = Idle
  /\ task' = [task EXCEPT ![t] = [Idle EXCEPT !.op = op, !.pc = "start", !.plan = p,
                                              !.file = file]]
  /\ manager' = [manager EXCEPT !.ops = IF op = "upload" THEN @ ELSE @ + 1]
  /\ UNCHANGED plan

Request(t) ==
  \/ Accept(t, "create", NoPlan, {}) \/ Accept(t, "abort_open", NoPlan, {})
  \/ \E p \in Registered : \/ Accept(t, "commit", p, {}) \/ Accept(t, "abort", p, {})
                           \/ \E f \in Files : Accept(t, "upload", p, {f})

(* session: the plan may have been forgotten by now.  One that is found    *)
(* here and forgotten before its lock is taken has ended and is clean, and *)
(* nothing happens to it either.                                           *)
NotFound(t) ==
  /\ task[t].op \in {"upload", "commit", "abort"} /\ task[t].pc = "start"
  /\ ~plan[task[t].plan].registered
  /\ Ends(t)
  /\ UNCHANGED <<plan, manager>>

Found(t, op) == On(t, op, "start") /\ plan[task[t].plan].registered

-----------------------------------------------------------------------------
(* prune_results, in two steps: nothing is locked between them.            *)

Finished ==
  {p \in Registered : plan[p].state \in Ended /\ ~plan[p].cleanup_pending}

Mut_Prunable(finished) ==
  {p \in finished :
     \/ Cardinality({q \in finished : plan[q].finished > plan[p].finished}) >= MaxRetained - 1
     \/ plan[p].aged}

(* The oldest results above the limit, and those retained long enough.     *)
Prunable(finished) ==
  {p \in finished :
     \/ Cardinality({q \in finished : plan[q].finished > plan[p].finished}) >= MaxRetained
     \/ plan[p].aged}

(* prune_results returns into cleanup_session, create_plan or reap, whose  *)
(* last step it is.                                                        *)
Pruned(t) ==
  IF task[t].role # "none" THEN [task[t] EXCEPT !.pc = "cleaned", !.list = {}]
  ELSE IF task[t].op = "create" THEN [task[t] EXCEPT !.pc = "permit", !.list = {}]
  ELSE Idle

PruneLooks(t) ==
  /\ task[t].pc = "prune"
  /\ task' = [task EXCEPT ![t] = IF Finished = {} THEN Pruned(t)
                                 ELSE [@ EXCEPT !.list = Finished, !.pc = "forget"]]
  /\ UNCHANGED <<plan, manager>>

PruneForgets(t) ==
  /\ task[t].pc = "forget"
  /\ plan' = [p \in Plans |-> IF p \in Prunable(task[t].list)
                              THEN [plan[p] EXCEPT !.registered = FALSE, !.aged = FALSE]
                              ELSE plan[p]]
  /\ task' = [task EXCEPT ![t] = Pruned(t)]
  /\ UNCHANGED manager

-----------------------------------------------------------------------------
(* create_plan, under the creating lock.                                   *)

CreateBegins(t) ==
  /\ On(t, "create", "start") /\ CreatingFree
  /\ Goto(t, "prune")
  /\ UNCHANGED <<plan, manager>>

(* Without a permit, or for a request that cannot be planned, nothing is   *)
(* kept; the creating lock hides the permit meanwhile.                     *)
CreateRefused(t) ==
  /\ On(t, "create", "permit")
  /\ Ends(t)
  /\ UNCHANGED <<plan, manager>>

create_staging_dir(t) ==
  /\ On(t, "create", "permit") /\ manager.permits > 0
  /\ \E p \in Plans : plan[p] = NewPlan
  /\ LET p == CHOOSE p \in Plans : plan[p] = NewPlan IN
       /\ plan' = [plan EXCEPT ![p].state = "created", ![p].staging = TRUE]
       /\ task' = [task EXCEPT ![t].plan = p, ![t].pc = "insert"]
  /\ manager' = [manager EXCEPT !.permits = @ - 1]

Mut_PermitBack == UNCHANGED manager

PermitBack == manager' = [manager EXCEPT !.permits = @ + 1]

(* ensure_same_filesystem refuses; staging that cannot be removed either   *)
(* stays until the next start.                                             *)
StagingRejected(t) ==
  /\ On(t, "create", "insert")
  /\ \/ PermitBack /\ plan' = [plan EXCEPT ![task[t].plan] = NewPlan]
     \/ /\ MayFail("io") /\ PermitBack
        /\ plan' = [plan EXCEPT ![task[t].plan].state = "abandoned"]
  /\ Ends(t)

(* The plan may ask for no upload at all.                                  *)
InsertPlan(t) ==
  /\ On(t, "create", "insert")
  /\ \E files \in SUBSET Files :
       plan' = [plan EXCEPT ![task[t].plan] =
                  [@ EXCEPT !.state = "Open", !.registered = TRUE, !.permit = TRUE,
                            !.upload_files = files]]
  /\ Ends(t)
  /\ UNCHANGED manager

-----------------------------------------------------------------------------
(* receive_upload.                                                         *)

UploadChecks(t) ==
  LET p == task[t].plan IN
  /\ Found(t, "upload") /\ ActivityFree(p)
  /\ IF /\ plan[p].state = "Open" /\ ~plan[p].overdue
        /\ task[t].file \subseteq plan[p].upload_files
     THEN Goto(t, "stream") ELSE Ends(t)
  /\ UNCHANGED <<plan, manager>>

(* A wrong or slow body, an error, a cancellation: the part is removed.    *)
UploadFails(t) ==
  /\ On(t, "upload", "stream")
  /\ Ends(t)
  /\ UNCHANGED <<plan, manager>>

(* write_body_to_file, unless the uploads are cancelled first, and the     *)
(* rename of what it wrote, which is the first that anybody sees of it.    *)
atomic_replace(t) ==
  /\ On(t, "upload", "stream")
  /\ ~plan[task[t].plan].cancel
  /\ plan' = [plan EXCEPT ![task[t].plan].staged =
                IF plan[task[t].plan].staging THEN @ \cup task[t].file ELSE @]
  /\ Goto(t, "record")
  /\ UNCHANGED manager

UploadRecords(t) ==
  LET p == task[t].plan IN
  /\ On(t, "upload", "record")
  /\ plan' = [plan EXCEPT ![p].uploaded = IF plan[p].state = "Open" THEN @ \cup task[t].file
                                          ELSE @]
  /\ Ends(t)
  /\ UNCHANGED manager

-----------------------------------------------------------------------------
(* commit_session.                                                         *)

(* release_plan, when a plan ends: its outcome stays, its permit does not. *)
(* The deadline and the token, which are only read of an open plan, go.    *)
Settled(p, state) ==
  [plan[p] EXCEPT !.state = state, !.cleanup_pending = TRUE, !.upload_files = {},
                  !.uploaded = {}, !.permit = FALSE, !.overdue = FALSE, !.cancel = FALSE,
                  !.finished = 1 + Cardinality({q \in Plans : plan[q].state \in Ended})]

Releases(p) ==
  manager' = [manager EXCEPT !.permits = IF plan[p].permit THEN @ + 1 ELSE @]

Mut_CommitDecides(t) ==
  LET p == task[t].plan IN
  /\ Found(t, "commit") /\ ActivityFree(p)
  /\ CASE plan[p].state = "Committing" -> Goto(t, "look") /\ UNCHANGED plan
       [] plan[p].state = "Open" /\ plan[p].overdue ->
            Goto(t, "abort") /\ UNCHANGED plan
       [] plan[p].state = "Open" /\ ~plan[p].overdue /\ plan[p].upload_files \subseteq plan[p].uploaded ->
            Goto(t, "apply") /\ plan' = [plan EXCEPT ![p].state = "Committing"]
       [] OTHER -> Ends(t) /\ UNCHANGED plan
  /\ UNCHANGED manager

(* The decision, alone: wait for another commit, expire, commit, or report *)
(* missing uploads or the outcome.                                         *)
CommitDecides(t) ==
  LET p == task[t].plan IN
  /\ Found(t, "commit") /\ ActivityUnused(p)
  /\ CASE plan[p].state = "Committing" -> Goto(t, "look") /\ UNCHANGED plan
       [] plan[p].state = "Open" /\ plan[p].overdue ->
            Goto(t, "abort") /\ UNCHANGED plan
       [] plan[p].state = "Open" /\ ~plan[p].overdue /\ plan[p].upload_files \subseteq plan[p].uploaded ->
            Goto(t, "apply") /\ plan' = [plan EXCEPT ![p].state = "Committing"]
       [] OTHER -> Ends(t) /\ UNCHANGED plan
  /\ UNCHANGED manager

(* apply_commit has committed, failed or panicked.                         *)
CommitSettles(t) ==
  LET p == task[t].plan IN
  /\ On(t, "commit", "apply")
  /\ \E state \in {"Committed", "Failed"} : plan' = [plan EXCEPT ![p] = Settled(p, state)]
  /\ Releases(p)
  /\ task' = [task EXCEPT ![t].pc = "cleanup", ![t].role = "commit"]

(* Another task's commit: the Notified is made before the state is read.   *)
CommitLooks(t) ==
  /\ On(t, "commit", "look")
  /\ IF plan[task[t].plan].state = "Committing" THEN Goto(t, "wait") ELSE Ends(t)
  /\ UNCHANGED <<plan, manager>>

CommitWakes(t) ==
  /\ On(t, "commit", "wait") /\ task[t].heard /\ task[t].role = "none"
  /\ task' = [task EXCEPT ![t].pc = "look", ![t].heard = FALSE]
  /\ UNCHANGED <<plan, manager>>

(* notify_waiters reaches every Notified there is.                         *)
Hears(p, u) ==
  /\ task[u].plan = p
  /\ task[u].pc \in {"look", "alone", "wait"}

Mut_Notified(p, next) == next

Notified(p, next) ==
  [u \in Tasks |-> IF Hears(p, u) THEN [next[u] EXCEPT !.heard = TRUE] ELSE next[u]]

-----------------------------------------------------------------------------
(* abort_session, for abort, abort_open, an overdue plan and shutdown.     *)

AbortBegins(t) ==
  /\ Found(t, "abort") \/ task[t].pc = "abort"
  /\ plan' = [plan EXCEPT ![task[t].plan].cancel = TRUE]
  /\ task' = [task EXCEPT ![t].pc = "alone", ![t].role = "abort", ![t].heard = FALSE]
  /\ UNCHANGED manager

Terminal(op) == IF op \in {"commit", "reap"} THEN "Expired" ELSE "Aborted"

(* Alone: wait for a commit to settle, or end the plan if it is open.      *)
AbortDecides(t) ==
  LET p == task[t].plan IN
  /\ task[t].pc = "alone" /\ ActivityUnused(p)
  /\ \/ plan[p].state = "Committing" /\ Goto(t, "wait") /\ UNCHANGED <<plan, manager>>
     \/ /\ plan[p].state = "Open" /\ Goto(t, "cleanup")
        /\ plan' = [plan EXCEPT ![p] = Settled(p, Terminal(task[t].op))] /\ Releases(p)
     \/ plan[p].state \notin Active /\ Goto(t, "cleanup") /\ UNCHANGED <<plan, manager>>

AbortWakes(t) ==
  /\ task[t].pc = "wait" /\ task[t].role = "abort" /\ task[t].heard
  /\ task' = [task EXCEPT ![t].pc = "alone", ![t].heard = FALSE]
  /\ UNCHANGED <<plan, manager>>

-----------------------------------------------------------------------------
(* cleanup_session, under the plan's cleanup lock.                         *)

CleanupBegins(t) ==
  LET p == task[t].plan IN
  /\ task[t].pc = "cleanup" /\ CleanupFree(p)
  /\ Goto(t, IF plan[p].cleanup_pending THEN "remove" ELSE "cleaned")
  /\ UNCHANGED <<plan, manager>>

Mut_Recovers(p) == UNCHANGED manager

(* The first success after failures ends the degradation.                  *)
Recovers(p) ==
  manager' = [manager EXCEPT
    !.cleanup_degraded = IF plan[p].cleanup_failed THEN @ - 1 ELSE @]

CleanupRemoves(t) ==
  LET p == task[t].plan IN
  /\ task[t].pc = "remove"
  /\ plan' = [plan EXCEPT ![p] = [@ EXCEPT !.staging = FALSE, !.staged = {},
                                           !.cleanup_pending = FALSE,
                                           !.cleanup_failed = FALSE]]
  /\ Recovers(p)
  /\ Goto(t, "prune")

CleanupFailed(p) ==
  manager' = [manager EXCEPT
    !.cleanup_degraded = IF plan[p].cleanup_failed THEN @ ELSE @ + 1]

(* remove_dir_all stops half way, as it also does when the last operation  *)
(* of a cancelled upload creates its part behind it.                       *)
CleanupFails(t) ==
  LET p == task[t].plan IN
  /\ task[t].pc = "remove"
  /\ MayFail("io")
  /\ CleanupFailed(p)
  /\ plan' = [plan EXCEPT ![p].cleanup_failed = TRUE, ![p].staged = {}]
  /\ task' = [task EXCEPT ![t].pc = "prune", ![t].failed = (@ \/ task[t].op = "abort_open")]

(* Both commit_session and abort_session notify after the cleanup; the     *)
(* loops of abort_open, reap and shutdown go on, abort_open not after an   *)
(* error.                                                                  *)
Cleaned(t) ==
  LET p == task[t].plan
      last == \/ task[t].op \in {"commit", "abort"}
              \/ task[t].op = "abort_open" /\ task[t].failed
      after == [task EXCEPT ![t] = IF last THEN Idle
                                   ELSE [@ EXCEPT !.pc = "next", !.role = "none",
                                                  !.plan = NoPlan, !.heard = FALSE]]
  IN
  /\ task[t].pc = "cleaned"
  /\ task' = IF task[t].role = "cleanup" THEN after ELSE Notified(p, after)
  /\ UNCHANGED <<plan, manager>>

-----------------------------------------------------------------------------
(* abort_open, reap and shutdown go through a snapshot of the registry.    *)

AbortOpenBegins(t) ==
  /\ On(t, "abort_open", "start") /\ CreatingFree
  /\ task' = [task EXCEPT ![t].pc = "next", ![t].todo = Registered]
  /\ UNCHANGED <<plan, manager>>

(* The interval of the reaper ticks; a tick that finds nothing to do is    *)
(* left out.                                                               *)
ReapHasWork ==
  \/ \E p \in Registered : \/ plan[p].state = "Open" /\ plan[p].overdue
                           \/ plan[p].cleanup_pending
  \/ Prunable(Finished) # {}

ReapBegins ==
  /\ manager.up /\ ~manager.closed /\ task[Reaper] = Idle
  /\ ReapHasWork
  /\ task' = [task EXCEPT ![Reaper] = [Idle EXCEPT !.op = "reap", !.pc = "next",
                                                   !.todo = Registered]]
  /\ UNCHANGED <<plan, manager>>

ReapAction(p) ==
  CASE plan[p].state = "Open" /\ plan[p].overdue -> "abort"
    [] plan[p].state \in Ended -> "cleanup"
    [] OTHER -> "skip"

NextPlan(t) ==
  /\ task[t].pc = "next"
  /\ \E p \in task[t].todo :
       LET rest == [task[t] EXCEPT !.todo = @ \ {p}]
           goes == IF task[t].op = "reap" THEN ReapAction(p) ELSE "abort"
       IN task' = [task EXCEPT ![t] =
            CASE goes = "skip" -> rest
              [] goes = "abort" -> [rest EXCEPT !.plan = p, !.pc = "abort"]
              [] goes = "cleanup" -> [rest EXCEPT !.plan = p, !.pc = "cleanup",
                                                  !.role = "cleanup"]]
  /\ UNCHANGED <<plan, manager>>

NoMorePlans(t) ==
  /\ task[t].pc = "next" /\ task[t].todo = {}
  /\ \/ task[t].op = "reap" /\ Goto(t, "prune")
     \/ task[t].op = "abort_open" /\ Ends(t)
     \/ task[t].op = "shutdown" /\ Goto(t, "stopped")
  /\ UNCHANGED <<plan, manager>>

(* shutdown: nothing more is accepted, uploads are cancelled, tasks end,   *)
(* and what they left open is aborted.                                     *)
ShutdownBegins ==
  /\ manager.up /\ ~manager.closed
  /\ manager' = [manager EXCEPT !.closed = TRUE]
  /\ task' = [task EXCEPT ![Closer].op = "shutdown", ![Closer].pc = "cancel"]
  /\ UNCHANGED plan

ShutdownCancels ==
  /\ On(Closer, "shutdown", "cancel")
  /\ plan' = [p \in Plans |-> [plan[p] EXCEPT !.cancel = @ \/ plan[p].registered]]
  /\ Goto(Closer, "drain")
  /\ UNCHANGED manager

Mut_ShutdownDrains ==
  /\ On(Closer, "shutdown", "drain")
  /\ task' = [task EXCEPT ![Closer].pc = "next", ![Closer].todo = Registered]
  /\ UNCHANGED <<plan, manager>>

ShutdownDrains ==
  /\ On(Closer, "shutdown", "drain")
  /\ \A t \in Tasks \ {Closer} : task[t] = Idle
  /\ task' = [task EXCEPT ![Closer].pc = "next", ![Closer].todo = Registered]
  /\ UNCHANGED <<plan, manager>>

-----------------------------------------------------------------------------
(* Time and restart.                                                       *)

(* A plan's deadline passes.                                               *)
Overdue(p) ==
  /\ manager.up /\ plan[p].state = "Open" /\ ~plan[p].overdue
  /\ plan' = [plan EXCEPT ![p].overdue = TRUE]
  /\ UNCHANGED <<task, manager>>

(* A result has been retained long enough; older ones have been, too.      *)
Age(p) ==
  /\ manager.up /\ p \in Finished /\ ~plan[p].aged
  /\ \A q \in Plans :
       plan[q].registered /\ plan[q].state \in Ended /\ plan[q].finished < plan[p].finished
         => plan[q].aged
  /\ plan' = [plan EXCEPT ![p].aged = TRUE]
  /\ UNCHANGED <<task, manager>>

(* Only the directories survive.                                           *)
Crash ==
  /\ manager.up
  /\ MayFail("crash")
  /\ manager' = [manager EXCEPT !.up = FALSE, !.closed = FALSE, !.permits = 1,
                                !.cleanup_degraded = 0]
  /\ plan' = [p \in Plans |-> [NewPlan EXCEPT !.staging = plan[p].staging]]
  /\ task' = [t \in Tasks |-> Idle]

RemovesOrphans == plan' = [p \in Plans |-> NewPlan]

(* cleanup_orphans comes before anything is served.                        *)
Restart ==
  /\ ~manager.up
  /\ RemovesOrphans
  /\ manager' = [manager EXCEPT !.up = TRUE]
  /\ UNCHANGED task

-----------------------------------------------------------------------------
Create(t) ==
  \/ CreateBegins(t) \/ CreateRefused(t) \/ create_staging_dir(t)
  \/ StagingRejected(t) \/ InsertPlan(t)

Upload(t) ==
  \/ UploadChecks(t) \/ UploadFails(t) \/ atomic_replace(t)
  \/ UploadRecords(t)

Commit(t) == CommitDecides(t) \/ CommitSettles(t) \/ CommitLooks(t) \/ CommitWakes(t)
Abort(t) == AbortBegins(t) \/ AbortDecides(t) \/ AbortWakes(t)
Cleanup(t) == CleanupBegins(t) \/ CleanupRemoves(t) \/ Cleaned(t)
Prune(t) == PruneLooks(t) \/ PruneForgets(t)
Loop(t) == AbortOpenBegins(t) \/ NextPlan(t) \/ NoMorePlans(t)

Step(t) ==
  \/ NotFound(t) \/ Create(t) \/ Upload(t) \/ Commit(t) \/ Abort(t)
  \/ Cleanup(t) \/ Prune(t) \/ Loop(t)

Shutdown == ShutdownCancels \/ ShutdownDrains

(* Nothing is under way and nothing need happen: any other state without a *)
(* successor is a deadlock.                                                *)
AtRest ==
  /\ manager.up => \A t \in Tasks : task[t] = Idle \/ task[t].pc = "stopped"
  /\ UNCHANGED vars

Next ==
  \/ \E t \in Tasks : Step(t) \/ CleanupFails(t)
  \/ \E t \in Clients : Request(t)
  \/ ReapBegins \/ ShutdownBegins \/ Shutdown
  \/ \E p \in Plans : Overdue(p) \/ Age(p)
  \/ Crash \/ Restart \/ AtRest

Spec == Init /\ [][Next]_vars

-----------------------------------------------------------------------------
(* Properties.                                                             *)

SyncManagerTypeOK ==
  /\ plan \in [Plans -> [
       state : {"none", "created", "abandoned"} \cup Active \cup Ended,
       registered : BOOLEAN, permit : BOOLEAN, overdue : BOOLEAN, upload_files : SUBSET Files,
       uploaded : SUBSET Files,
       cancel : BOOLEAN, finished : 0 .. Cardinality(Plans), aged : BOOLEAN,
       cleanup_pending : BOOLEAN, cleanup_failed : BOOLEAN, staging : BOOLEAN,
       staged : SUBSET Files]]
  /\ \A t \in Tasks : task[t].plan \in Plans \cup {NoPlan}
  /\ manager.permits \in 0 .. 1
  /\ manager.cleanup_degraded \in 0 .. Cardinality(Plans)

(* slot: the one permit is with the manager, with a plan being created or  *)
(* with the one plan that is open or committing.                           *)
PermitAgrees ==
  LET creators == {t \in Tasks : task[t].op = "create" /\ task[t].pc = "insert"}
      holders == {p \in Plans : plan[p].permit}
  IN /\ manager.permits + Cardinality(creators) + Cardinality(holders) = 1
     /\ holders = {p \in Plans : plan[p].state \in Active}

(* slot: at most one plan is on its way, open or committing.               *)
PermitKept == SyncManagerTypeOK /\ PermitAgrees

(* receive_upload, cleanup_session: an open plan keeps its staging with    *)
(* every upload it has confirmed, and a commit finds all it asked for.     *)
StagingKept ==
  \A p \in Plans :
    /\ plan[p].state \in Active => plan[p].staging /\ plan[p].uploaded \subseteq plan[p].staged
    /\ plan[p].state = "Committing" => plan[p].upload_files \subseteq plan[p].staged

(* activity: while an upload writes to the staging of a plan, the plan is  *)
(* open, so a commit reads what no upload changes.                         *)
UploadsIntoOpenPlan ==
  \A t \in Tasks : HoldsActivity(t) => plan[task[t].plan].state = "Open"

(* receive_upload: what a client was told is staged stays staged and is    *)
(* not changed any more, until the plan ends.                              *)
StagingSafe == StagingKept /\ UploadsIntoOpenPlan

(* cleanup_degraded: the service is degraded by exactly those plans whose  *)
(* staging could not be removed so far.                                    *)
DegradedAgrees ==
  manager.cleanup_degraded = Cardinality({p \in Registered : plan[p].cleanup_failed})

(* A staging directory belongs to an active plan or to one that will be    *)
(* cleaned up, unless its creation was given up.                           *)
NothingLeaks ==
  manager.up =>
    \A p \in Plans :
      plan[p].staging =>
        \/ plan[p].state \in Active \cup {"created", "abandoned"}
        \/ plan[p].registered /\ plan[p].cleanup_pending

(* cleanup_session: no staging is forgotten, and the service reports as    *)
(* degraded for exactly as long as a removal that failed is owed.          *)
CleanupAgrees == NothingLeaks /\ DegradedAgrees

(* prune_results: an outcome is forgotten only when its cleanup is done,   *)
(* and it is old or enough later ones exist.                               *)
ResultsKept ==
  [][\A p \in Plans :
       plan[p].registered /\ ~plan'[p].registered /\ manager'.up =>
         /\ plan[p].state \in Ended /\ ~plan[p].cleanup_pending
         /\ \/ plan[p].aged
            \/ Cardinality({q \in Plans : plan[q].finished > plan[p].finished}) >= MaxRetained
    ]_vars

(* shutdown: when it returns no accepted task is left and no plan is open. *)
StoppedIsClean ==
  task[Closer].pc = "stopped" =>
    /\ \A t \in Tasks \ {Closer} : task[t] = Idle
    /\ \A p \in Plans : plan[p].state \notin Active

(* Notify: whoever waits for a commit to settle is woken, because that     *)
(* commit has still to notify or has done so since it began to listen.     *)
WaitersWake ==
  \A t \in Tasks :
    task[t].pc = "wait" /\ ~task[t].heard =>
      \E u \in Tasks :
        /\ task[u].op = "commit" /\ task[u].plan = task[t].plan
        /\ task[u].pc = "apply" \/ task[u].role = "commit"
=============================================================================
