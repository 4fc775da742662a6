------------------------- MODULE SyncManagerProofs --------------------------
(***************************************************************************)
(* The proofs about SyncManager for any number of plans, files and clients. *)
(* SyncManagerInv is inductive. First come the effects: one lemma per      *)
(* action says what it does to its task, its plan and the manager. Then    *)
(* one layer per part of the invariant shows that every step keeps that    *)
(* part, from the effects and the parts it rests on. The properties that   *)
(* the runs check follow from the parts.                                   *)
(***************************************************************************)
EXTENDS SyncManagerInductive, FiniteSetTheorems, TLAPS

(***************************************************************************)
(* The effects.                                                            *)
(* What a step does to the one task and the one plan it is about, field by *)
(* field: the layers below cite these lemmas and never open an action      *)
(* again.                                                                  *)
(***************************************************************************)

(* Nothing but task t, or plan p, changes.                                 *)
OnlyTask(t) ==
  task' \in [Tasks -> TaskRecords] /\ \A u \in Tasks \ {t} : task'[u] = task[u]
OnlyPlan(p) ==
  plan' \in [Plans -> PlanRecords] /\ \A q \in Plans \ {p} : plan'[q] = plan[q]

(* Task t reaches a point, with a role, a plan and what it has heard.      *)
Reaches(t, pc, role, p, heard, todo, list) ==
  /\ OnlyTask(t)
  /\ task'[t].op = task[t].op /\ task'[t].file = task[t].file
  /\ task'[t].pc = pc /\ task'[t].role = role /\ task'[t].plan = p
  /\ task'[t].heard = heard /\ task'[t].todo = todo /\ task'[t].list = list

(* Task t moves on and keeps everything else.                              *)
Advances(t, pc) ==
  Reaches(t, pc, task[t].role, task[t].plan, task[t].heard, task[t].todo, task[t].list)

(* The operation of t has returned.                                        *)
Rests(t) == OnlyTask(t) /\ task'[t] = Idle

(* Plan p reaches a state.                                                 *)
PlanBecomes(p, state, registered, permit, files, uploaded) ==
  /\ OnlyPlan(p)
  /\ plan'[p].state = state /\ plan'[p].registered = registered /\ plan'[p].permit = permit
  /\ plan'[p].upload_files = files /\ plan'[p].uploaded = uploaded

(* Plan p stays in its state, with its files.                              *)
StateKept(p) ==
  PlanBecomes(p, plan[p].state, plan[p].registered, plan[p].permit, plan[p].upload_files,
              plan[p].uploaded)

(* What is owed for plan p, and what is in its staging.                    *)
CleanupIs(p, pending, failed, staging, staged) ==
  /\ plan'[p].cleanup_pending = pending /\ plan'[p].cleanup_failed = failed
  /\ plan'[p].staging = staging /\ plan'[p].staged = staged

(* Nothing changes in the staging of plan p.                               *)
CleanupKept(p) ==
  CleanupIs(p, plan[p].cleanup_pending, plan[p].cleanup_failed, plan[p].staging,
            plan[p].staged)

(* The permits and the degraded counter; the process is up as before.      *)
ManagerIs(permits, degraded) ==
  /\ manager' \in ManagerRecords
  /\ manager'.up = manager.up /\ manager'.closed = manager.closed
  /\ manager'.permits = permits /\ manager'.cleanup_degraded = degraded

(* A task at rest is of its type, and has nothing in hand.                 *)
LEMMA IdleIs ==
  /\ Idle \in TaskRecords
  /\ Idle.op = "none" /\ Idle.pc = "none" /\ Idle.plan = NoPlan /\ Idle.role = "none"
  /\ Idle.file = {} /\ Idle.todo = {} /\ Idle.list = {} /\ Idle.heard = FALSE
BY SyncManagerAssumption DEF Idle, TaskRecords, Operations, Points, Roles

(* A plan not made yet is of its type, unregistered and without staging.   *)
LEMMA NewIs ==
  /\ NewPlan \in PlanRecords
  /\ NewPlan.state = "none" /\ NewPlan.registered = FALSE /\ NewPlan.permit = FALSE
  /\ NewPlan.upload_files = {} /\ NewPlan.uploaded = {}
  /\ NewPlan.cleanup_pending = FALSE /\ NewPlan.cleanup_failed = FALSE
  /\ NewPlan.staging = FALSE /\ NewPlan.staged = {}
BY SyncManagerAssumption, FS_CardinalityType DEF NewPlan, PlanRecords, States

(* A step that returns puts its task at rest.                              *)
LEMMA EndsDoes ==
  ASSUME Shape, NEW t \in Tasks, Ends(t)
  PROVE  Rests(t)
BY IdleIs DEF Shape, Ends, Rests, OnlyTask

(* A task whose record is replaced reaches what the record says.           *)
LEMMA TaskSet ==
  ASSUME Shape, NEW t \in Tasks, NEW r \in TaskRecords, task' = [task EXCEPT ![t] = r],
         r.op = task[t].op, r.file = task[t].file
  PROVE  Reaches(t, r.pc, r.role, r.plan, r.heard, r.todo, r.list)
BY DEF Shape, Reaches, OnlyTask

(* So does a plan.                                                         *)
LEMMA PlanSet ==
  ASSUME Shape, NEW p \in Plans, NEW r \in PlanRecords, plan' = [plan EXCEPT ![p] = r]
  PROVE  /\ PlanBecomes(p, r.state, r.registered, r.permit, r.upload_files, r.uploaded)
         /\ CleanupIs(p, r.cleanup_pending, r.cleanup_failed, r.staging, r.staged)
BY DEF Shape, PlanBecomes, CleanupIs, OnlyPlan

(* release_plan: the plan ends, owes its cleanup and gives its permit      *)
(* back.                                                                   *)
Settles(p, state) ==
  /\ PlanBecomes(p, state, plan[p].registered, FALSE, {}, {})
  /\ CleanupIs(p, TRUE, plan[p].cleanup_failed, plan[p].staging, plan[p].staged)
  /\ ManagerIs(IF plan[p].permit THEN manager.permits + 1 ELSE manager.permits,
               manager.cleanup_degraded)

(* release_plan gives a permit back if the plan has one.                   *)
LEMMA ReleasesDoes ==
  ASSUME Shape, NEW p \in Plans, Releases(p)
  PROVE  ManagerIs(IF plan[p].permit THEN manager.permits + 1 ELSE manager.permits,
                   manager.cleanup_degraded)
BY DEF Shape, ManagerRecords, Releases, ManagerIs

(* A plan that ends is numbered after those that ended before it: the      *)
(* number stays below the number of plans.                                 *)
LEMMA SettledDoes ==
  ASSUME Shape, NEW p \in Plans, NEW state \in Ended,
         plan' = [plan EXCEPT ![p] = Settled(p, state)], Releases(p),
         plan[p].state \notin Ended
  PROVE  Settles(p, state)
<1> DEFINE before == {q \in Plans : plan[q].state \in Ended}
           n == 1 + Cardinality(before)
<1>1. n \in 0 .. Cardinality(Plans)
  <2>1. IsFiniteSet(Plans) /\ IsFiniteSet(Plans \ {p})
    BY SyncManagerAssumption, FS_Subset
  <2>2. before \subseteq Plans \ {p} /\ IsFiniteSet(before)
    BY <2>1, FS_Subset
  <2>3. /\ Cardinality(before) \in Nat /\ Cardinality(Plans) \in Nat
        /\ Cardinality(before) =< Cardinality(Plans \ {p})
        /\ Cardinality(Plans \ {p}) = Cardinality(Plans) - 1
    BY <2>1, <2>2, FS_CardinalityType, FS_Subset, FS_RemoveElement
  <2> HIDE DEF before
  <2> QED
    BY <2>3
<1> HIDE DEF n
<1>2. /\ PlanBecomes(p, state, plan[p].registered, FALSE, {}, {})
      /\ CleanupIs(p, TRUE, plan[p].cleanup_failed, plan[p].staging, plan[p].staged)
  <2> DEFINE r == [plan[p] EXCEPT !.state = state, !.cleanup_pending = TRUE,
                                  !.upload_files = {},
                  !.uploaded = {}, !.permit = FALSE, !.overdue = FALSE, !.cancel = FALSE,
                  !.finished = n]
  <2>1. plan[p] \in PlanRecords
    BY <1>1 DEF Shape
  <2>2. r \in PlanRecords
    BY <2>1, <1>1 DEF PlanRecords, States, Active, Ended, TaskRecords
  <2>3. /\ r.state = state
        /\ r.registered = plan[p].registered
        /\ r.permit = FALSE
        /\ r.upload_files = {}
        /\ r.uploaded = {}
        /\ r.cleanup_pending = TRUE
        /\ r.cleanup_failed = plan[p].cleanup_failed
        /\ r.staging = plan[p].staging /\ r.staged = plan[p].staged
    BY <2>1 DEF PlanRecords
  <2>4. plan' = [plan EXCEPT ![p] = r]
    BY DEF Settled, n
  <2> HIDE DEF r
  <2> QED
    BY <2>2, <2>3, <2>4, <1>1, PlanSet DEF StateKept, CleanupKept
<1> QED
  BY <1>2, ReleasesDoes DEF Settles

(* A step that moves a task on does no more to it.                         *)
LEMMA GotoDoes ==
  ASSUME Shape, NEW t \in Tasks, NEW pc \in Points, Goto(t, pc)
  PROVE  Advances(t, pc)
<1>1. Reaches(t, pc, task[t].role, task[t].plan, task[t].heard, task[t].todo, task[t].list)
  <2> DEFINE r == [task[t] EXCEPT !.pc = pc]
  <2>1. task[t] \in TaskRecords
    BY DEF Shape
  <2>2. r \in TaskRecords /\ r.op = task[t].op /\ r.file = task[t].file
    BY <2>1 DEF TaskRecords, Points, CleanupPoints, Roles
  <2>3. /\ r.pc = pc /\ r.role = task[t].role /\ r.plan = task[t].plan
        /\ r.heard = task[t].heard /\ r.todo = task[t].todo /\ r.list = task[t].list
    BY <2>1 DEF TaskRecords
  <2>4. task' = [task EXCEPT ![t] = r]
    BY DEF Goto
  <2> HIDE DEF r
  <2> QED
    BY <2>2, <2>3, <2>4, TaskSet
<1> QED
  BY <1>1 DEF Advances

(* A waiter that wakes has used up its notification.                       *)
LEMMA WakesDoes ==
  ASSUME Shape, NEW t \in Tasks, NEW pc \in {"look", "alone"},
         task' = [task EXCEPT ![t].pc = pc, ![t].heard = FALSE]
  PROVE  Reaches(t, pc, task[t].role, task[t].plan, FALSE, task[t].todo, task[t].list)
<1>1. Reaches(t, pc, task[t].role, task[t].plan, FALSE, task[t].todo, task[t].list)
  <2> DEFINE r == [task[t] EXCEPT !.pc = pc, !.heard = FALSE]
  <2>1. task[t] \in TaskRecords
    BY DEF Shape
  <2>2. r \in TaskRecords /\ r.op = task[t].op /\ r.file = task[t].file
    BY <2>1 DEF TaskRecords, Points, CleanupPoints, Roles
  <2>3. /\ r.pc = pc /\ r.role = task[t].role /\ r.plan = task[t].plan
        /\ r.heard = FALSE /\ r.todo = task[t].todo /\ r.list = task[t].list
    BY <2>1 DEF TaskRecords
  <2>4. task' = [task EXCEPT ![t] = r]
    OBVIOUS
  <2> HIDE DEF r
  <2> QED
    BY <2>2, <2>3, <2>4, TaskSet
<1> QED
  BY <1>1

(* finish_commit: the plan ends and its task goes on to clean up.          *)
LEMMA CommitSettlesDoes ==
  ASSUME Shape, NEW t \in Tasks, TaskFits, CommitFits, CommitSettles(t)
  PROVE  /\ task[t].op = "commit" /\ task[t].pc = "apply"
         /\ \E state \in {"Committed", "Failed"} : Settles(task[t].plan, state)
         /\ Reaches(t, "cleanup", "commit", task[t].plan, task[t].heard, task[t].todo,
                    task[t].list)
<1>0. task[t].plan \in Plans
  BY DEF CommitSettles, On, TaskFits, TaskFit, PlanPoints
<1>1. Reaches(t, "cleanup", "commit", task[t].plan, task[t].heard, task[t].todo, task[t].list)
  <2> DEFINE r == [task[t] EXCEPT !.pc = "cleanup", !.role = "commit"]
  <2>1. task[t] \in TaskRecords
    BY DEF Shape
  <2>2. r \in TaskRecords /\ r.op = task[t].op /\ r.file = task[t].file
    BY <2>1 DEF TaskRecords, Points, CleanupPoints, Roles
  <2>3. /\ r.pc = "cleanup" /\ r.role = "commit" /\ r.plan = task[t].plan
        /\ r.heard = task[t].heard /\ r.todo = task[t].todo /\ r.list = task[t].list
    BY <2>1 DEF TaskRecords
  <2>4. task' = [task EXCEPT ![t] = r]
    BY DEF CommitSettles
  <2> HIDE DEF r
  <2> QED
    BY <2>2, <2>3, <2>4, TaskSet
<1>2. ASSUME NEW state \in {"Committed", "Failed"},
             plan' = [plan EXCEPT ![task[t].plan] = Settled(task[t].plan, state)]
     PROVE  Settles(task[t].plan, state)
  BY <1>0, <1>2, SettledDoes DEF CommitSettles, CommitFits, Ended, On
<1> QED
  BY <1>1, <1>2 DEF CommitSettles, On

(***************************************************************************)
(* Effects: steps that leave plans alone.                                  *)
(* Starting, waiting, looking around, and the part of prune_results.       *)
(***************************************************************************)

(* What prune_results leaves behind: it returns into cleanup_session,      *)
(* create_plan or reap.                                                    *)
Prunes(t) ==
  \/ /\ task[t].role # "none"
     /\ Reaches(t, "cleaned", task[t].role, task[t].plan, task[t].heard, task[t].todo, {})
  \/ /\ task[t].role = "none" /\ task[t].op = "create"
     /\ Reaches(t, "permit", task[t].role, task[t].plan, task[t].heard, task[t].todo, {})
  \/ task[t].role = "none" /\ task[t].op # "create" /\ Rests(t)

(* Plan p stays as clients see it.                                         *)
SameState(p) ==
  /\ plan'[p].state = plan[p].state /\ plan'[p].permit = plan[p].permit
  /\ plan'[p].upload_files = plan[p].upload_files /\ plan'[p].uploaded = plan[p].uploaded

(* A request that is refused or fails leaves nothing behind.               *)
LEMMA QuietEnds ==
  ASSUME Shape, NEW t \in Tasks, NotFound(t) \/ CreateRefused(t) \/ UploadFails(t)
  PROVE  /\ task[t].pc \in {"start", "permit", "stream"} /\ task[t].op # "shutdown"
         /\ Rests(t) /\ UNCHANGED <<plan, manager>>
BY EndsDoes DEF NotFound, CreateRefused, UploadFails, On

(* create_plan prunes first.                                               *)
LEMMA CreateBeginsDoes ==
  ASSUME Shape, NEW t \in Tasks, CreateBegins(t)
  PROVE  /\ task[t].op = "create" /\ task[t].pc = "start"
         /\ Advances(t, "prune") /\ UNCHANGED <<plan, manager>>
BY GotoDoes, EndsDoes
   DEF CreateBegins, On, Points, CleanupPoints

(* receive_upload goes on only with an open plan.                          *)
LEMMA UploadChecksDoes ==
  ASSUME Shape, NEW t \in Tasks, UploadChecks(t)
  PROVE  /\ task[t].op = "upload" /\ task[t].pc = "start" /\ UNCHANGED <<plan, manager>>
         /\ \/ plan[task[t].plan].state = "Open" /\ Advances(t, "stream")
            \/ Rests(t)
BY GotoDoes, EndsDoes
   DEF UploadChecks, Found, On, Points, CleanupPoints

(* commit, looking again: it waits while the plan commits, and else        *)
(* returns.                                                                *)
LEMMA CommitLooksDoes ==
  ASSUME Shape, NEW t \in Tasks, CommitLooks(t)
  PROVE  /\ task[t].op = "commit" /\ task[t].pc = "look" /\ UNCHANGED <<plan, manager>>
         /\ \/ plan[task[t].plan].state = "Committing" /\ Advances(t, "wait")
            \/ Rests(t)
BY GotoDoes, EndsDoes
   DEF CommitLooks, On, Points, CleanupPoints

(* commit, notified: it looks again.                                       *)
LEMMA CommitWakesDoes ==
  ASSUME Shape, NEW t \in Tasks, CommitWakes(t)
  PROVE  /\ task[t].op = "commit" /\ task[t].pc = "wait" /\ task[t].role = "none"
         /\ Reaches(t, "look", task[t].role, task[t].plan, FALSE, task[t].todo, task[t].list)
         /\ UNCHANGED <<plan, manager>>
BY WakesDoes
   DEF CommitWakes, On, Points, CleanupPoints

(* abort_session, notified: it goes on to its cleanup.                     *)
LEMMA AbortWakesDoes ==
  ASSUME Shape, NEW t \in Tasks, AbortWakes(t)
  PROVE  /\ task[t].pc = "wait" /\ task[t].role = "abort"
         /\ Reaches(t, "alone", task[t].role, task[t].plan, FALSE, task[t].todo, task[t].list)
         /\ UNCHANGED <<plan, manager>>
BY WakesDoes
   DEF AbortWakes, Points, CleanupPoints

(* cleanup_session, with the cleanup lock: it removes what is owed, or     *)
(* returns.                                                                *)
LEMMA CleanupBeginsDoes ==
  ASSUME Shape, NEW t \in Tasks, CleanupBegins(t)
  PROVE  /\ task[t].pc = "cleanup" /\ CleanupFree(task[t].plan) /\ UNCHANGED <<plan, manager>>
         /\ \/ plan[task[t].plan].cleanup_pending /\ Advances(t, "remove")
            \/ Advances(t, "cleaned")
BY GotoDoes, EndsDoes
   DEF CleanupBegins, Points, CleanupPoints

(* The loops of reap, abort_open and shutdown end.                         *)
LEMMA NoMorePlansDoes ==
  ASSUME Shape, NEW t \in Tasks, NoMorePlans(t)
  PROVE  /\ task[t].pc = "next" /\ task[t].todo = {} /\ UNCHANGED <<plan, manager>>
         /\ \/ task[t].op = "reap" /\ Advances(t, "prune")
            \/ task[t].op = "abort_open" /\ Rests(t)
            \/ task[t].op = "shutdown" /\ Advances(t, "stopped")
BY GotoDoes, EndsDoes
   DEF NoMorePlans, Points, CleanupPoints

(* abort_open takes the plans that are open.                               *)
LEMMA AbortOpenBeginsDoes ==
  ASSUME Shape, NEW t \in Tasks, AbortOpenBegins(t)
  PROVE  /\ task[t].op = "abort_open" /\ task[t].pc = "start" /\ UNCHANGED <<plan, manager>>
         /\ Reaches(t, "next", task[t].role, task[t].plan, task[t].heard, Registered,
                    task[t].list)
<1>1. Reaches(t, "next", task[t].role, task[t].plan, task[t].heard, Registered, task[t].list)
  <2> DEFINE r == [task[t] EXCEPT !.pc = "next", !.todo = Registered]
  <2>1. task[t] \in TaskRecords
    BY DEF Shape
  <2>2. r \in TaskRecords /\ r.op = task[t].op /\ r.file = task[t].file
    BY <2>1 DEF TaskRecords, Registered, Points, CleanupPoints, Roles
  <2>3. /\ r.pc = "next" /\ r.role = task[t].role /\ r.plan = task[t].plan
        /\ r.heard = task[t].heard /\ r.todo = Registered /\ r.list = task[t].list
    BY <2>1 DEF TaskRecords
  <2>4. task' = [task EXCEPT ![t] = r]
    BY DEF AbortOpenBegins
  <2> HIDE DEF r
  <2> QED
    BY <2>2, <2>3, <2>4, TaskSet
<1> QED
  BY <1>1 DEF AbortOpenBegins, On

(* shutdown goes on once every accepted task has returned, and takes the   *)
(* plans that are open.                                                    *)
LEMMA ShutdownDrainsDoes ==
  ASSUME Shape, ShutdownDrains
  PROVE  /\ task[Closer].op = "shutdown"
         /\ task[Closer].pc = "drain"
         /\ UNCHANGED <<plan, manager>>
         /\ \A u \in Tasks \ {Closer} : task[u] = Idle
         /\ Reaches(Closer, "next", task[Closer].role, task[Closer].plan, task[Closer].heard,
                    Registered, task[Closer].list)
<1>1. Reaches(Closer, "next", task[Closer].role, task[Closer].plan, task[Closer].heard,
              Registered, task[Closer].list)
  <2> DEFINE r == [task[Closer] EXCEPT !.pc = "next", !.todo = Registered]
  <2>1. task[Closer] \in TaskRecords
    BY DEF Shape, Tasks
  <2>2. r \in TaskRecords /\ r.op = task[Closer].op /\ r.file = task[Closer].file
    BY <2>1 DEF TaskRecords, Registered, Points, CleanupPoints, Roles
  <2>3. /\ r.pc = "next" /\ r.role = task[Closer].role /\ r.plan = task[Closer].plan
        /\ r.heard = task[Closer].heard /\ r.todo = Registered /\ r.list = task[Closer].list
    BY <2>1 DEF TaskRecords
  <2>4. task' = [task EXCEPT ![Closer] = r]
    BY DEF ShutdownDrains
  <2> HIDE DEF r
  <2> QED
    BY <2>2, <2>3, <2>4, TaskSet DEF Tasks
<1> QED
  BY <1>1 DEF ShutdownDrains, On

(* The loops take one plan out of what they have to do.                    *)
LEMMA NextPlanDoes ==
  ASSUME Shape, NEW t \in Tasks, NextPlan(t)
  PROVE  /\ task[t].pc = "next" /\ UNCHANGED <<plan, manager>>
         /\ \E p \in Plans :
           /\ p \in task[t].todo
           /\ \/ /\ task[t].op = "reap"
                 /\ Reaches(t, task[t].pc, task[t].role, task[t].plan, task[t].heard,
                            task[t].todo \ {p}, task[t].list)
              \/ Reaches(t, "abort", task[t].role, p, task[t].heard, task[t].todo \ {p},
                         task[t].list)
              \/ /\ task[t].op = "reap" /\ plan[p].state \in Ended
                 /\ Reaches(t, "cleanup", "cleanup", p, task[t].heard, task[t].todo \ {p},
                            task[t].list)
<1>0. PICK p \in task[t].todo :
        LET rest == [task[t] EXCEPT !.todo = @ \ {p}]
            goes == IF task[t].op = "reap" THEN ReapAction(p) ELSE "abort"
        IN task' = [task EXCEPT ![t] =
             CASE goes = "skip" -> rest
               [] goes = "abort" -> [rest EXCEPT !.plan = p, !.pc = "abort"]
               [] goes = "cleanup" -> [rest EXCEPT !.plan = p, !.pc = "cleanup",
                                                   !.role = "cleanup"]]
  BY DEF NextPlan
<1>1. task[t] \in TaskRecords /\ p \in Plans
  BY DEF Shape, TaskRecords
<1> DEFINE rest == [task[t] EXCEPT !.todo = @ \ {p}]
           aborts == [rest EXCEPT !.plan = p, !.pc = "abort"]
           cleans == [rest EXCEPT !.plan = p, !.pc = "cleanup", !.role = "cleanup"]
<1>2. /\ rest \in TaskRecords /\ rest.op = task[t].op /\ rest.file = task[t].file
      /\ rest.pc = task[t].pc /\ rest.role = task[t].role /\ rest.plan = task[t].plan
      /\ rest.heard = task[t].heard /\ rest.todo = task[t].todo \ {p}
      /\ rest.list = task[t].list
  BY <1>1 DEF TaskRecords
<1> HIDE DEF rest
<1>3. /\ aborts \in TaskRecords /\ aborts.op = rest.op /\ aborts.file = rest.file
      /\ aborts.pc = "abort" /\ aborts.role = rest.role /\ aborts.plan = p
      /\ aborts.heard = rest.heard /\ aborts.todo = rest.todo /\ aborts.list = rest.list
  BY <1>1, <1>2 DEF TaskRecords, Points
<1>4. /\ cleans \in TaskRecords /\ cleans.op = rest.op /\ cleans.file = rest.file
      /\ cleans.pc = "cleanup" /\ cleans.role = "cleanup" /\ cleans.plan = p
      /\ cleans.heard = rest.heard /\ cleans.todo = rest.todo /\ cleans.list = rest.list
  BY <1>1, <1>2 DEF TaskRecords, Points, CleanupPoints, Roles
<1> HIDE DEF aborts, cleans
<1>5. \/ task[t].op = "reap" /\ task' = [task EXCEPT ![t] = rest]
      \/ task' = [task EXCEPT ![t] = aborts]
      \/ task[t].op = "reap" /\ plan[p].state \in Ended /\ task' = [task EXCEPT ![t] = cleans]
  BY <1>0, <1>1 DEF rest, aborts, cleans, ReapAction, Ended
<1>6. task[t].pc = "next" /\ UNCHANGED <<plan, manager>>
  BY DEF NextPlan
<1>7. CASE task[t].op = "reap" /\ task' = [task EXCEPT ![t] = rest]
  BY <1>1, <1>2, <1>6, <1>7, TaskSet
<1>8. CASE task' = [task EXCEPT ![t] = aborts]
  BY <1>1, <1>2, <1>3, <1>6, <1>8, TaskSet
<1>9. CASE task[t].op = "reap" /\ plan[p].state \in Ended /\ task' = [task EXCEPT ![t] = cleans]
  BY <1>1, <1>2, <1>4, <1>6, <1>9, TaskSet
<1> QED
  BY <1>5, <1>7, <1>8, <1>9

(* prune_results returns to where it was called.                           *)
LEMMA PrunedDoes ==
  ASSUME Shape, NEW t \in Tasks, task' = [task EXCEPT ![t] = Pruned(t)]
  PROVE  Prunes(t)
<1>1. CASE task[t].role # "none"
  <2>1. Reaches(t, "cleaned", task[t].role, task[t].plan, task[t].heard, task[t].todo, {})
    <3> DEFINE r == [task[t] EXCEPT !.pc = "cleaned", !.list = {}]
    <3>1. task[t] \in TaskRecords
      BY DEF Shape
    <3>2. r \in TaskRecords /\ r.op = task[t].op /\ r.file = task[t].file
      BY <3>1 DEF TaskRecords, Points, CleanupPoints, Roles
    <3>3. /\ r.pc = "cleaned" /\ r.role = task[t].role /\ r.plan = task[t].plan
          /\ r.heard = task[t].heard /\ r.todo = task[t].todo /\ r.list = {}
      BY <3>1 DEF TaskRecords
    <3>4. task' = [task EXCEPT ![t] = r]
      BY <1>1 DEF Pruned
    <3> HIDE DEF r
    <3> QED
      BY <3>2, <3>3, <3>4, TaskSet
  <2> QED
    BY <1>1, <2>1 DEF Prunes
<1>2. CASE task[t].role = "none" /\ task[t].op = "create"
  <2>1. Reaches(t, "permit", task[t].role, task[t].plan, task[t].heard, task[t].todo, {})
    <3> DEFINE r == [task[t] EXCEPT !.pc = "permit", !.list = {}]
    <3>1. task[t] \in TaskRecords
      BY DEF Shape
    <3>2. r \in TaskRecords /\ r.op = task[t].op /\ r.file = task[t].file
      BY <3>1 DEF TaskRecords, Points, CleanupPoints, Roles
    <3>3. /\ r.pc = "permit" /\ r.role = task[t].role /\ r.plan = task[t].plan
          /\ r.heard = task[t].heard /\ r.todo = task[t].todo /\ r.list = {}
      BY <3>1 DEF TaskRecords
    <3>4. task' = [task EXCEPT ![t] = r]
      BY <1>2 DEF Pruned
    <3> HIDE DEF r
    <3> QED
      BY <3>2, <3>3, <3>4, TaskSet
  <2> QED
    BY <1>2, <2>1 DEF Prunes
<1>3. CASE task[t].role = "none" /\ task[t].op # "create"
  <2>1. Ends(t)
    BY <1>3 DEF Pruned, Ends
  <2> QED
    BY <1>3, <2>1, EndsDoes DEF Prunes
<1> QED
  BY <1>1, <1>2, <1>3

(* prune_results takes plans that have ended and are clean, or none.       *)
LEMMA PruneLooksDoes ==
  ASSUME Shape, NEW t \in Tasks, PruneLooks(t)
  PROVE  /\ task[t].pc = "prune" /\ UNCHANGED <<plan, manager>>
         /\ \/ Prunes(t)
            \/ Reaches(t, "forget", task[t].role, task[t].plan, task[t].heard, task[t].todo,
                       Finished)
<1>1. CASE Finished = {}
  BY <1>1, PrunedDoes DEF PruneLooks
<1>2. CASE Finished # {}
  <2>1. Reaches(t, "forget", task[t].role, task[t].plan, task[t].heard, task[t].todo, Finished)
    <3> DEFINE r == [task[t] EXCEPT !.list = Finished, !.pc = "forget"]
    <3>1. task[t] \in TaskRecords
      BY DEF Shape
    <3>2. r \in TaskRecords /\ r.op = task[t].op /\ r.file = task[t].file
      BY <3>1 DEF TaskRecords, Finished, Registered, Points, CleanupPoints, Roles
    <3>3. /\ r.pc = "forget" /\ r.role = task[t].role /\ r.plan = task[t].plan
          /\ r.heard = task[t].heard /\ r.todo = task[t].todo /\ r.list = Finished
      BY <3>1 DEF TaskRecords
    <3>4. task' = [task EXCEPT ![t] = r]
      BY <1>2 DEF PruneLooks
    <3> HIDE DEF r
    <3> QED
      BY <3>2, <3>3, <3>4, TaskSet
  <2> QED
    BY <2>1 DEF PruneLooks
<1> QED
  BY <1>1, <1>2

(* prune_results forgets some of the plans it has in hand.                 *)
LEMMA PruneForgetsDoes ==
  ASSUME Shape, NEW t \in Tasks, PruneForgets(t)
  PROVE  /\ task[t].pc = "forget" /\ Prunes(t) /\ UNCHANGED manager
         /\ plan' \in [Plans -> PlanRecords]
         /\ \A p \in Plans : p \notin task[t].list => plan'[p] = plan[p]
         /\ \A p \in Plans :
              /\ plan'[p].registered => plan[p].registered
              /\ SameState(p) /\ CleanupKept(p)
<1> DEFINE r(p) == [plan[p] EXCEPT !.registered = FALSE, !.aged = FALSE]
<1>1. ASSUME NEW p \in Plans
     PROVE  /\ r(p) \in PlanRecords /\ r(p).registered = FALSE
            /\ r(p).state = plan[p].state /\ r(p).permit = plan[p].permit
            /\ r(p).upload_files = plan[p].upload_files /\ r(p).uploaded = plan[p].uploaded
            /\ r(p).cleanup_pending = plan[p].cleanup_pending
            /\ r(p).cleanup_failed = plan[p].cleanup_failed
            /\ r(p).staging = plan[p].staging /\ r(p).staged = plan[p].staged
  BY DEF Shape, PlanRecords
<1>2. plan' = [p \in Plans |-> IF p \in Prunable(task[t].list) THEN r(p) ELSE plan[p]]
  BY DEF PruneForgets
<1> HIDE DEF r
<1>3. \A p \in Prunable(task[t].list) : p \in task[t].list
  BY DEF Prunable
<1>4. \A p \in Plans : (plan'[p] = r(p) /\ p \in task[t].list) \/ plan'[p] = plan[p]
  BY <1>2, <1>3
<1>5. plan' \in [Plans -> PlanRecords]
  BY <1>1, <1>2 DEF Shape
<1>6. \A p \in Plans :
        (plan'[p].registered => plan[p].registered) /\ SameState(p) /\ CleanupKept(p)
  BY <1>1, <1>4 DEF SameState, CleanupKept, CleanupIs
<1>7. task[t].pc = "forget" /\ Prunes(t) /\ UNCHANGED manager
  BY PrunedDoes DEF PruneForgets
<1> QED
  BY <1>4, <1>5, <1>6, <1>7

(***************************************************************************)
(* Effects: a plan is created, filled, decided.                            *)
(***************************************************************************)

(* create_plan takes the permit and makes the staging of a new plan.       *)
LEMMA CreatesStaging ==
  ASSUME Shape, NEW t \in Tasks, create_staging_dir(t)
  PROVE  /\ task[t].op = "create" /\ task[t].pc = "permit" /\ manager.permits > 0
         /\ \E p \in Plans :
              /\ plan[p] = NewPlan
              /\ PlanBecomes(p, "created", plan[p].registered, plan[p].permit,
                             plan[p].upload_files, plan[p].uploaded)
              /\ CleanupIs(p, plan[p].cleanup_pending, plan[p].cleanup_failed, TRUE,
                           plan[p].staged)
              /\ Reaches(t, "insert", task[t].role, p, task[t].heard, task[t].todo,
                         task[t].list)
         /\ ManagerIs(manager.permits - 1, manager.cleanup_degraded)
<1> DEFINE p == CHOOSE p \in Plans : plan[p] = NewPlan
<1>1. p \in Plans /\ plan[p] = NewPlan
  BY DEF create_staging_dir
<1>2. /\ plan' = [plan EXCEPT ![p].state = "created", ![p].staging = TRUE]
      /\ task' = [task EXCEPT ![t].plan = p, ![t].pc = "insert"]
  BY DEF create_staging_dir
<1> HIDE DEF p
<1>3. /\ PlanBecomes(p, "created", plan[p].registered, plan[p].permit, plan[p].upload_files,
                     plan[p].uploaded)
      /\ CleanupIs(p, plan[p].cleanup_pending, plan[p].cleanup_failed, TRUE, plan[p].staged)
  <2> DEFINE r == [plan[p] EXCEPT !.state = "created", !.staging = TRUE]
  <2>1. plan[p] \in PlanRecords
    BY <1>1 DEF Shape
  <2>2. r \in PlanRecords
    BY <2>1, <1>1 DEF PlanRecords, States, Active, Ended, TaskRecords
  <2>3. /\ r.state = "created"
        /\ r.registered = plan[p].registered
        /\ r.permit = plan[p].permit
        /\ r.upload_files = plan[p].upload_files
        /\ r.uploaded = plan[p].uploaded
        /\ r.cleanup_pending = plan[p].cleanup_pending
        /\ r.cleanup_failed = plan[p].cleanup_failed
        /\ r.staging = TRUE /\ r.staged = plan[p].staged
    BY <2>1 DEF PlanRecords
  <2>4. plan' = [plan EXCEPT ![p] = r]
    BY <1>1, <1>2 DEF Shape
  <2> HIDE DEF r
  <2> QED
    BY <2>2, <2>3, <2>4, <1>1, PlanSet DEF StateKept, CleanupKept
<1>4. Reaches(t, "insert", task[t].role, p, task[t].heard, task[t].todo, task[t].list)
  <2> DEFINE r == [task[t] EXCEPT !.plan = p, !.pc = "insert"]
  <2>1. task[t] \in TaskRecords
    BY DEF Shape
  <2>2. r \in TaskRecords /\ r.op = task[t].op /\ r.file = task[t].file
    BY <2>1, <1>1 DEF TaskRecords, Points, CleanupPoints, Roles
  <2>3. /\ r.pc = "insert" /\ r.role = task[t].role /\ r.plan = p
        /\ r.heard = task[t].heard /\ r.todo = task[t].todo /\ r.list = task[t].list
    BY <2>1 DEF TaskRecords
  <2>4. task' = [task EXCEPT ![t] = r]
    BY <1>2
  <2> HIDE DEF r
  <2> QED
    BY <2>2, <2>3, <2>4, TaskSet
<1>5. ManagerIs(manager.permits - 1, manager.cleanup_degraded)
  BY DEF create_staging_dir, Shape, ManagerRecords, ManagerIs
<1> QED
  BY <1>1, <1>3, <1>4, <1>5 DEF create_staging_dir, On

(* create_plan gives up: the permit is back, the staging gone or           *)
(* abandoned.                                                              *)
LEMMA StagingRejectedDoes ==
  ASSUME Shape, NEW t \in Tasks, TaskFits, StagingRejected(t)
  PROVE  /\ task[t].op = "create" /\ task[t].pc = "insert" /\ Rests(t)
         /\ ManagerIs(manager.permits + 1, manager.cleanup_degraded)
         /\ \/ OnlyPlan(task[t].plan) /\ plan'[task[t].plan] = NewPlan
            \/ /\ PlanBecomes(task[t].plan, "abandoned", plan[task[t].plan].registered,
                              plan[task[t].plan].permit, plan[task[t].plan].upload_files,
                              plan[task[t].plan].uploaded)
               /\ CleanupKept(task[t].plan)
<1>0. task[t].plan \in Plans
  BY DEF StagingRejected, On, TaskFits, TaskFit, PlanPoints
<1>1. ManagerIs(manager.permits + 1, manager.cleanup_degraded)
  BY DEF StagingRejected, PermitBack, Shape, ManagerRecords, ManagerIs
<1>2. CASE plan' = [plan EXCEPT ![task[t].plan] = NewPlan]
  <2>1. OnlyPlan(task[t].plan) /\ plan'[task[t].plan] = NewPlan
    BY <1>0, <1>2, NewIs DEF Shape, OnlyPlan
  <2> QED
    BY <1>1, <2>1, EndsDoes DEF StagingRejected, On
<1>3. CASE plan' = [plan EXCEPT ![task[t].plan].state = "abandoned"]
  <2>1. /\ PlanBecomes(task[t].plan, "abandoned", plan[task[t].plan].registered,
                       plan[task[t].plan].permit, plan[task[t].plan].upload_files,
                       plan[task[t].plan].uploaded)
        /\ CleanupKept(task[t].plan)
    <3> DEFINE r == [plan[task[t].plan] EXCEPT !.state = "abandoned"]
    <3>1. plan[task[t].plan] \in PlanRecords
      BY <1>0 DEF Shape
    <3>2. r \in PlanRecords
      BY <3>1, <1>0 DEF PlanRecords, States, Active, Ended, TaskRecords
    <3>3. /\ r.state = "abandoned"
          /\ r.registered = plan[task[t].plan].registered
          /\ r.permit = plan[task[t].plan].permit
          /\ r.upload_files = plan[task[t].plan].upload_files
          /\ r.uploaded = plan[task[t].plan].uploaded
          /\ r.cleanup_pending = plan[task[t].plan].cleanup_pending
          /\ r.cleanup_failed = plan[task[t].plan].cleanup_failed
          /\ r.staging = plan[task[t].plan].staging /\ r.staged = plan[task[t].plan].staged
      BY <3>1 DEF PlanRecords
    <3>4. plan' = [plan EXCEPT ![task[t].plan] = r]
      BY <1>3
    <3> HIDE DEF r
    <3> QED
      BY <3>2, <3>3, <3>4, <1>0, PlanSet DEF StateKept, CleanupKept
  <2> QED
    BY <1>1, <2>1, EndsDoes DEF StagingRejected, On
<1> QED
  BY <1>2, <1>3 DEF StagingRejected

(* create_plan registers its plan, which now holds the permit.             *)
LEMMA InsertPlanDoes ==
  ASSUME Shape, NEW t \in Tasks, TaskFits, InsertPlan(t)
  PROVE  /\ task[t].op = "create" /\ task[t].pc = "insert" /\ Rests(t) /\ UNCHANGED manager
         /\ \E files \in SUBSET Files :
              /\ PlanBecomes(task[t].plan, "Open", TRUE, TRUE, files,
                             plan[task[t].plan].uploaded)
              /\ CleanupKept(task[t].plan)
<1>0. task[t].plan \in Plans
  BY DEF InsertPlan, On, TaskFits, TaskFit, PlanPoints
<1>1. PICK files \in SUBSET Files :
        plan' = [plan EXCEPT ![task[t].plan] =
                   [@ EXCEPT !.state = "Open", !.registered = TRUE, !.permit = TRUE,
                             !.upload_files = files]]
  BY DEF InsertPlan
<1>2. /\ PlanBecomes(task[t].plan, "Open", TRUE, TRUE, files, plan[task[t].plan].uploaded)
      /\ CleanupKept(task[t].plan)
  <2> DEFINE r == [plan[task[t].plan] EXCEPT !.state = "Open", !.registered = TRUE,
                                             !.permit = TRUE,
                                !.upload_files = files]
  <2>1. plan[task[t].plan] \in PlanRecords
    BY <1>0 DEF Shape
  <2>2. r \in PlanRecords
    BY <2>1, <1>0 DEF PlanRecords, States, Active, Ended, TaskRecords
  <2>3. /\ r.state = "Open" /\ r.registered = TRUE /\ r.permit = TRUE /\ r.upload_files = files
        /\ r.uploaded = plan[task[t].plan].uploaded
        /\ r.cleanup_pending = plan[task[t].plan].cleanup_pending
        /\ r.cleanup_failed = plan[task[t].plan].cleanup_failed
        /\ r.staging = plan[task[t].plan].staging /\ r.staged = plan[task[t].plan].staged
    BY <2>1 DEF PlanRecords
  <2>4. plan' = [plan EXCEPT ![task[t].plan] = r]
    BY <1>1
  <2> HIDE DEF r
  <2> QED
    BY <2>2, <2>3, <2>4, <1>0, PlanSet DEF StateKept, CleanupKept
<1> QED
  BY <1>2, EndsDoes DEF InsertPlan, On

(* receive_upload replaces the file in the staging, where there is one.    *)
LEMMA StagesFile ==
  ASSUME Shape, NEW t \in Tasks, TaskFits, atomic_replace(t)
  PROVE  /\ task[t].op = "upload" /\ task[t].pc = "stream"
         /\ Advances(t, "record") /\ UNCHANGED manager
         /\ \E staged \in SUBSET Files :
              /\ StateKept(task[t].plan)
              /\ CleanupIs(task[t].plan, plan[task[t].plan].cleanup_pending,
                           plan[task[t].plan].cleanup_failed, plan[task[t].plan].staging,
                           staged)
              /\ staged = IF plan[task[t].plan].staging
                           THEN plan[task[t].plan].staged \cup task[t].file
                           ELSE plan[task[t].plan].staged
<1>0. task[t].plan \in Plans
  BY DEF atomic_replace, On, TaskFits, TaskFit, PlanPoints
<1> DEFINE staged == IF plan[task[t].plan].staging
                        THEN plan[task[t].plan].staged \cup task[t].file
                     ELSE plan[task[t].plan].staged
<1>1. staged \in SUBSET Files
  BY <1>0 DEF Shape, PlanRecords, TaskRecords
<1>2. plan' = [plan EXCEPT ![task[t].plan].staged = staged]
  BY DEF atomic_replace
<1> HIDE DEF staged
<1>3. /\ StateKept(task[t].plan)
      /\ CleanupIs(task[t].plan, plan[task[t].plan].cleanup_pending,
                   plan[task[t].plan].cleanup_failed, plan[task[t].plan].staging, staged)
  <2> DEFINE r == [plan[task[t].plan] EXCEPT !.staged = staged]
  <2>1. plan[task[t].plan] \in PlanRecords
    BY <1>0, <1>1 DEF Shape
  <2>2. r \in PlanRecords
    BY <2>1, <1>0, <1>1 DEF PlanRecords, States, Active, Ended, TaskRecords
  <2>3. /\ r.state = plan[task[t].plan].state
        /\ r.registered = plan[task[t].plan].registered
        /\ r.permit = plan[task[t].plan].permit
        /\ r.upload_files = plan[task[t].plan].upload_files
        /\ r.uploaded = plan[task[t].plan].uploaded
        /\ r.cleanup_pending = plan[task[t].plan].cleanup_pending
        /\ r.cleanup_failed = plan[task[t].plan].cleanup_failed
        /\ r.staging = plan[task[t].plan].staging /\ r.staged = staged
    BY <2>1 DEF PlanRecords
  <2>4. plan' = [plan EXCEPT ![task[t].plan] = r]
    BY <1>2
  <2> HIDE DEF r
  <2> QED
    BY <2>2, <2>3, <2>4, <1>0, <1>1, PlanSet DEF StateKept, CleanupKept
<1> QED
  BY <1>1, <1>3, GotoDoes DEF atomic_replace, On, Points, staged

(* receive_upload confirms the file it has staged.                         *)
LEMMA UploadRecordsDoes ==
  ASSUME Shape, NEW t \in Tasks, TaskFits, UploadRecords(t)
  PROVE  /\ task[t].op = "upload" /\ task[t].pc = "record" /\ Rests(t) /\ UNCHANGED manager
         /\ \E uploaded \in SUBSET Files :
              /\ PlanBecomes(task[t].plan, plan[task[t].plan].state,
                             plan[task[t].plan].registered, plan[task[t].plan].permit,
                             plan[task[t].plan].upload_files, uploaded)
              /\ CleanupKept(task[t].plan)
              /\ uploaded \subseteq plan[task[t].plan].uploaded \cup task[t].file
<1>0. task[t].plan \in Plans
  BY DEF UploadRecords, On, TaskFits, TaskFit, PlanPoints
<1> DEFINE uploaded == IF plan[task[t].plan].state = "Open"
                          THEN plan[task[t].plan].uploaded \cup task[t].file
                       ELSE plan[task[t].plan].uploaded
<1>1. /\ uploaded \in SUBSET Files
      /\ uploaded \subseteq plan[task[t].plan].uploaded \cup task[t].file
  BY <1>0 DEF Shape, PlanRecords, TaskRecords
<1>2. plan' = [plan EXCEPT ![task[t].plan].uploaded = uploaded]
  BY DEF UploadRecords
<1> HIDE DEF uploaded
<1>3. /\ PlanBecomes(task[t].plan, plan[task[t].plan].state, plan[task[t].plan].registered,
                     plan[task[t].plan].permit, plan[task[t].plan].upload_files, uploaded)
      /\ CleanupKept(task[t].plan)
  <2> DEFINE r == [plan[task[t].plan] EXCEPT !.uploaded = uploaded]
  <2>1. plan[task[t].plan] \in PlanRecords
    BY <1>0, <1>1 DEF Shape
  <2>2. r \in PlanRecords
    BY <2>1, <1>0, <1>1 DEF PlanRecords, States, Active, Ended, TaskRecords
  <2>3. /\ r.state = plan[task[t].plan].state
        /\ r.registered = plan[task[t].plan].registered
        /\ r.permit = plan[task[t].plan].permit
        /\ r.upload_files = plan[task[t].plan].upload_files
        /\ r.uploaded = uploaded
        /\ r.cleanup_pending = plan[task[t].plan].cleanup_pending
        /\ r.cleanup_failed = plan[task[t].plan].cleanup_failed
        /\ r.staging = plan[task[t].plan].staging /\ r.staged = plan[task[t].plan].staged
    BY <2>1 DEF PlanRecords
  <2>4. plan' = [plan EXCEPT ![task[t].plan] = r]
    BY <1>2
  <2> HIDE DEF r
  <2> QED
    BY <2>2, <2>3, <2>4, <1>0, <1>1, PlanSet DEF StateKept, CleanupKept
<1> QED
  BY <1>1, <1>3, EndsDoes DEF UploadRecords, On

(* commit starts to apply a complete plan without uploads under way, waits *)
(* for another commit, goes to clean up after a plan past its deadline, or *)
(* returns.                                                                *)
LEMMA CommitDecidesDoes ==
  ASSUME Shape, NEW t \in Tasks, TaskFits, CommitDecides(t)
  PROVE  /\ task[t].op = "commit" /\ task[t].pc = "start" /\ ActivityUnused(task[t].plan)
         /\ UNCHANGED manager
         /\ \/ Advances(t, "look") /\ UNCHANGED plan
            \/ Advances(t, "abort") /\ UNCHANGED plan
            \/ Rests(t) /\ UNCHANGED plan
            \/ /\ plan[task[t].plan].state = "Open"
               /\ plan[task[t].plan].upload_files \subseteq plan[task[t].plan].uploaded
               /\ Advances(t, "apply")
               /\ PlanBecomes(task[t].plan, "Committing", plan[task[t].plan].registered,
                              plan[task[t].plan].permit, plan[task[t].plan].upload_files,
                              plan[task[t].plan].uploaded)
               /\ CleanupKept(task[t].plan)
<1>0. task[t].plan \in Plans
  BY DEF CommitDecides, Found, On, TaskFits, TaskFit
<1>1. ASSUME plan' = [plan EXCEPT ![task[t].plan].state = "Committing"]
     PROVE  /\ PlanBecomes(task[t].plan, "Committing", plan[task[t].plan].registered,
                           plan[task[t].plan].permit, plan[task[t].plan].upload_files,
                           plan[task[t].plan].uploaded)
            /\ CleanupKept(task[t].plan)
  <2>1. /\ PlanBecomes(task[t].plan, "Committing", plan[task[t].plan].registered,
                       plan[task[t].plan].permit, plan[task[t].plan].upload_files,
                       plan[task[t].plan].uploaded)
        /\ CleanupKept(task[t].plan)
    <3> DEFINE r == [plan[task[t].plan] EXCEPT !.state = "Committing"]
    <3>1. plan[task[t].plan] \in PlanRecords
      BY <1>0 DEF Shape
    <3>2. r \in PlanRecords
      BY <3>1, <1>0 DEF PlanRecords, States, Active, Ended, TaskRecords
    <3>3. /\ r.state = "Committing"
          /\ r.registered = plan[task[t].plan].registered
          /\ r.permit = plan[task[t].plan].permit
          /\ r.upload_files = plan[task[t].plan].upload_files
          /\ r.uploaded = plan[task[t].plan].uploaded
          /\ r.cleanup_pending = plan[task[t].plan].cleanup_pending
          /\ r.cleanup_failed = plan[task[t].plan].cleanup_failed
          /\ r.staging = plan[task[t].plan].staging /\ r.staged = plan[task[t].plan].staged
      BY <3>1 DEF PlanRecords
    <3>4. plan' = [plan EXCEPT ![task[t].plan] = r]
      BY <1>1
    <3> HIDE DEF r
    <3> QED
      BY <3>2, <3>3, <3>4, <1>0, PlanSet DEF StateKept, CleanupKept
  <2> QED
    BY <2>1
<1>2. /\ task[t].op = "commit" /\ task[t].pc = "start" /\ ActivityUnused(task[t].plan)
      /\ UNCHANGED manager
  BY DEF CommitDecides, Found, On
<1>3. \/ Goto(t, "look") /\ UNCHANGED plan
      \/ Goto(t, "abort") /\ UNCHANGED plan
      \/ Ends(t) /\ UNCHANGED plan
      \/ /\ plan[task[t].plan].state = "Open"
         /\ plan[task[t].plan].upload_files \subseteq plan[task[t].plan].uploaded
         /\ Goto(t, "apply") /\ plan' = [plan EXCEPT ![task[t].plan].state = "Committing"]
  BY DEF CommitDecides
<1> QED
  BY <1>1, <1>2, <1>3, GotoDoes, EndsDoes DEF Points

(* abort_session waits for the uploads, for the commit, or goes to clean   *)
(* up.                                                                     *)
LEMMA AbortBeginsDoes ==
  ASSUME Shape, NEW t \in Tasks, TaskFits, AbortBegins(t)
  PROVE  /\ task[t].pc = "abort" \/ (task[t].pc = "start" /\ task[t].op = "abort")
         /\ task[t].plan \in Plans /\ UNCHANGED manager
         /\ StateKept(task[t].plan) /\ CleanupKept(task[t].plan)
         /\ Reaches(t, "alone", "abort", task[t].plan, FALSE, task[t].todo, task[t].list)
<1>0. task[t].plan \in Plans
  BY DEF AbortBegins, Found, On, TaskFits, TaskFit, PlanPoints
<1>1. StateKept(task[t].plan) /\ CleanupKept(task[t].plan)
  <2> DEFINE r == [plan[task[t].plan] EXCEPT !.cancel = TRUE]
  <2>1. plan[task[t].plan] \in PlanRecords
    BY <1>0 DEF Shape
  <2>2. r \in PlanRecords
    BY <2>1, <1>0 DEF PlanRecords, States, Active, Ended, TaskRecords
  <2>3. /\ r.state = plan[task[t].plan].state
        /\ r.registered = plan[task[t].plan].registered
        /\ r.permit = plan[task[t].plan].permit
        /\ r.upload_files = plan[task[t].plan].upload_files
        /\ r.uploaded = plan[task[t].plan].uploaded
        /\ r.cleanup_pending = plan[task[t].plan].cleanup_pending
        /\ r.cleanup_failed = plan[task[t].plan].cleanup_failed
        /\ r.staging = plan[task[t].plan].staging /\ r.staged = plan[task[t].plan].staged
    BY <2>1 DEF PlanRecords
  <2>4. plan' = [plan EXCEPT ![task[t].plan] = r]
    BY DEF AbortBegins
  <2> HIDE DEF r
  <2> QED
    BY <2>2, <2>3, <2>4, <1>0, PlanSet DEF StateKept, CleanupKept
<1>2. Reaches(t, "alone", "abort", task[t].plan, FALSE, task[t].todo, task[t].list)
  <2> DEFINE r == [task[t] EXCEPT !.pc = "alone", !.role = "abort", !.heard = FALSE]
  <2>1. task[t] \in TaskRecords
    BY DEF Shape
  <2>2. r \in TaskRecords /\ r.op = task[t].op /\ r.file = task[t].file
    BY <2>1 DEF TaskRecords, Points, CleanupPoints, Roles
  <2>3. /\ r.pc = "alone" /\ r.role = "abort" /\ r.plan = task[t].plan
        /\ r.heard = FALSE /\ r.todo = task[t].todo /\ r.list = task[t].list
    BY <2>1 DEF TaskRecords
  <2>4. task' = [task EXCEPT ![t] = r]
    BY DEF AbortBegins
  <2> HIDE DEF r
  <2> QED
    BY <2>2, <2>3, <2>4, TaskSet
<1>3. /\ task[t].pc = "abort" \/ (task[t].pc = "start" /\ task[t].op = "abort")
      /\ UNCHANGED manager
  BY DEF AbortBegins, Found, On
<1> QED
  BY <1>0, <1>1, <1>2, <1>3

(* abort_session, alone with its plan: an open plan ends.                  *)
LEMMA AbortDecidesDoes ==
  ASSUME Shape, NEW t \in Tasks, TaskFits, AbortDecides(t)
  PROVE  /\ task[t].pc = "alone" /\ ActivityUnused(task[t].plan)
         /\ \/ /\ plan[task[t].plan].state = "Committing"
               /\ Advances(t, "wait")
               /\ UNCHANGED <<plan, manager>>
            \/ /\ plan[task[t].plan].state = "Open" /\ Advances(t, "cleanup")
               /\ \E state \in Ended : Settles(task[t].plan, state)
            \/ /\ plan[task[t].plan].state \notin Active
               /\ Advances(t, "cleanup")
               /\ UNCHANGED <<plan, manager>>
<1>0. task[t].plan \in Plans
  BY DEF AbortDecides, TaskFits, TaskFit, PlanPoints
<1>1. task[t].pc = "alone" /\ ActivityUnused(task[t].plan)
  BY DEF AbortDecides
<1>2. \/ /\ plan[task[t].plan].state = "Committing"
         /\ Goto(t, "wait")
         /\ UNCHANGED <<plan, manager>>
      \/ /\ plan[task[t].plan].state = "Open" /\ Goto(t, "cleanup")
         /\ \E state \in Ended :
              /\ plan' = [plan EXCEPT ![task[t].plan] = Settled(task[t].plan, state)]
              /\ Releases(task[t].plan)
      \/ /\ plan[task[t].plan].state \notin Active
         /\ Goto(t, "cleanup")
         /\ UNCHANGED <<plan, manager>>
  BY DEF AbortDecides, Terminal, Ended
<1> QED
  BY <1>0, <1>1, <1>2, GotoDoes, SettledDoes DEF Points, CleanupPoints, Ended

(***************************************************************************)
(* Effects: cleanup, requests, the reaper, shutdown, time, a crash.        *)
(***************************************************************************)

(* What the end of the cleanup of t leaves of another task: it may have    *)
(* been notified.                                                          *)
Told(t, u) ==
  /\ task'[u].op = task[u].op /\ task'[u].pc = task[u].pc /\ task'[u].plan = task[u].plan
  /\ task'[u].file = task[u].file /\ task'[u].role = task[u].role
  /\ task'[u].todo = task[u].todo /\ task'[u].list = task[u].list
  /\ task[u].heard => task'[u].heard
  /\ task[t].role # "cleanup" /\ Hears(task[t].plan, u) => task'[u].heard
  /\ ~Hears(task[t].plan, u) => task'[u] = task[u]

(* tracked lets a request in.                                              *)
Accepted(t) ==
  /\ manager.up /\ ~manager.closed /\ task[t] = Idle
  /\ OnlyTask(t) /\ UNCHANGED plan /\ ManagerIs(manager.permits, manager.cleanup_degraded)
  /\ task'[t].pc = "start" /\ task'[t].role = "none"
  /\ task'[t].todo = {} /\ task'[t].list = {}
  /\ \/ task'[t].op \in {"create", "abort_open"}
     \/ task'[t].op \in {"commit", "abort", "upload"} /\ task'[t].plan \in Plans

(* The new process knows nothing of plan p.                                *)
Forgotten(p) ==
  /\ plan'[p].state = "none" /\ ~plan'[p].registered /\ ~plan'[p].permit
  /\ ~plan'[p].cleanup_pending /\ ~plan'[p].cleanup_failed

(* cleanup_session has removed the staging and owes nothing any more.      *)
LEMMA CleanupRemovesDoes ==
  ASSUME Shape, NEW t \in Tasks, TaskFits, CleanupRemoves(t)
  PROVE  /\ task[t].pc = "remove" /\ Advances(t, "prune")
         /\ StateKept(task[t].plan) /\ CleanupIs(task[t].plan, FALSE, FALSE, FALSE, {})
         /\ ManagerIs(manager.permits,
                      IF plan[task[t].plan].cleanup_failed THEN manager.cleanup_degraded - 1
                      ELSE manager.cleanup_degraded)
<1>0. task[t].plan \in Plans
  BY DEF CleanupRemoves, TaskFits, TaskFit, PlanPoints
<1>1. StateKept(task[t].plan) /\ CleanupIs(task[t].plan, FALSE, FALSE, FALSE, {})
  <2> DEFINE r == [plan[task[t].plan] EXCEPT !.staging = FALSE, !.staged = {},
                               !.cleanup_pending = FALSE, !.cleanup_failed = FALSE]
  <2>1. plan[task[t].plan] \in PlanRecords
    BY <1>0 DEF Shape
  <2>2. r \in PlanRecords
    BY <2>1, <1>0 DEF PlanRecords, States, Active, Ended, TaskRecords
  <2>3. /\ r.state = plan[task[t].plan].state
        /\ r.registered = plan[task[t].plan].registered
        /\ r.permit = plan[task[t].plan].permit
        /\ r.upload_files = plan[task[t].plan].upload_files
        /\ r.uploaded = plan[task[t].plan].uploaded
        /\ r.cleanup_pending = FALSE
        /\ r.cleanup_failed = FALSE
        /\ r.staging = FALSE /\ r.staged = {}
    BY <2>1 DEF PlanRecords
  <2>4. plan' = [plan EXCEPT ![task[t].plan] = r]
    BY DEF CleanupRemoves
  <2> HIDE DEF r
  <2> QED
    BY <2>2, <2>3, <2>4, <1>0, PlanSet DEF StateKept, CleanupKept
<1>2. ManagerIs(manager.permits,
                IF plan[task[t].plan].cleanup_failed THEN manager.cleanup_degraded - 1
                ELSE manager.cleanup_degraded)
  BY DEF CleanupRemoves, Recovers, Shape, ManagerRecords, ManagerIs
<1> QED
  BY <1>1, <1>2, GotoDoes DEF CleanupRemoves, Points, CleanupPoints

(* cleanup_session could not remove the staging, and still owes it.        *)
LEMMA CleanupFailsDoes ==
  ASSUME Shape, NEW t \in Tasks, TaskFits, CleanupFails(t)
  PROVE  /\ task[t].pc = "remove"
         /\ Reaches(t, "prune", task[t].role, task[t].plan, task[t].heard, task[t].todo,
                    task[t].list)
         /\ StateKept(task[t].plan)
         /\ CleanupIs(task[t].plan, plan[task[t].plan].cleanup_pending, TRUE,
                      plan[task[t].plan].staging, {})
         /\ ManagerIs(manager.permits,
                      IF plan[task[t].plan].cleanup_failed THEN manager.cleanup_degraded
                      ELSE manager.cleanup_degraded + 1)
<1>0. task[t].plan \in Plans
  BY DEF CleanupFails, TaskFits, TaskFit, PlanPoints
<1>1. /\ StateKept(task[t].plan)
      /\ CleanupIs(task[t].plan, plan[task[t].plan].cleanup_pending, TRUE,
                   plan[task[t].plan].staging, {})
  <2> DEFINE r == [plan[task[t].plan] EXCEPT !.cleanup_failed = TRUE, !.staged = {}]
  <2>1. plan[task[t].plan] \in PlanRecords
    BY <1>0 DEF Shape
  <2>2. r \in PlanRecords
    BY <2>1, <1>0 DEF PlanRecords, States, Active, Ended, TaskRecords
  <2>3. /\ r.state = plan[task[t].plan].state
        /\ r.registered = plan[task[t].plan].registered
        /\ r.permit = plan[task[t].plan].permit
        /\ r.upload_files = plan[task[t].plan].upload_files
        /\ r.uploaded = plan[task[t].plan].uploaded
        /\ r.cleanup_pending = plan[task[t].plan].cleanup_pending
        /\ r.cleanup_failed = TRUE
        /\ r.staging = plan[task[t].plan].staging /\ r.staged = {}
    BY <2>1 DEF PlanRecords
  <2>4. plan' = [plan EXCEPT ![task[t].plan] = r]
    BY DEF CleanupFails
  <2> HIDE DEF r
  <2> QED
    BY <2>2, <2>3, <2>4, <1>0, PlanSet DEF StateKept, CleanupKept
<1>2. ManagerIs(manager.permits,
                IF plan[task[t].plan].cleanup_failed THEN manager.cleanup_degraded
                ELSE manager.cleanup_degraded + 1)
  BY DEF CleanupFails, CleanupFailed, Shape, ManagerRecords, ManagerIs
<1> DEFINE failed == task[t].failed \/ task[t].op = "abort_open"
<1>3. failed \in BOOLEAN
  OBVIOUS
<1>4. task' = [task EXCEPT ![t].pc = "prune", ![t].failed = failed]
  BY DEF CleanupFails
<1> HIDE DEF failed
<1>5. Reaches(t, "prune", task[t].role, task[t].plan, task[t].heard, task[t].todo, task[t].list)
  <2> DEFINE r == [task[t] EXCEPT !.pc = "prune", !.failed = failed]
  <2>1. task[t] \in TaskRecords
    BY DEF Shape
  <2>2. r \in TaskRecords /\ r.op = task[t].op /\ r.file = task[t].file
    BY <2>1, <1>3 DEF TaskRecords, Points, CleanupPoints, Roles
  <2>3. /\ r.pc = "prune" /\ r.role = task[t].role /\ r.plan = task[t].plan
        /\ r.heard = task[t].heard /\ r.todo = task[t].todo /\ r.list = task[t].list
    BY <2>1 DEF TaskRecords
  <2>4. task' = [task EXCEPT ![t] = r]
    BY <1>4
  <2> HIDE DEF r
  <2> QED
    BY <2>2, <2>3, <2>4, TaskSet
<1> QED
  BY <1>1, <1>2, <1>5 DEF CleanupFails

(* cleanup_session returns, and the end of a commit notifies its waiters.  *)
LEMMA CleanedDoes ==
  ASSUME Shape, NEW t \in Tasks, Cleaned(t)
  PROVE  /\ task[t].pc = "cleaned" /\ UNCHANGED <<plan, manager>>
         /\ task' \in [Tasks -> TaskRecords]
         /\ \/ task'[t] = Idle /\ task[t].op \in {"commit", "abort", "abort_open"}
            \/ /\ task[t].op \notin {"commit", "abort"} /\ task'[t].op = task[t].op
               /\ task'[t].file = task[t].file /\ task'[t].pc = "next"
               /\ task'[t].role = "none" /\ task'[t].plan = NoPlan
               /\ task'[t].todo = task[t].todo /\ task'[t].list = task[t].list
         /\ \A u \in Tasks \ {t} : Told(t, u)
<1> DEFINE p == task[t].plan
           next == [task[t] EXCEPT !.pc = "next", !.role = "none", !.plan = NoPlan,
                                   !.heard = FALSE]
           last == \/ task[t].op \in {"commit", "abort"}
                   \/ task[t].op = "abort_open" /\ task[t].failed
           one == IF last THEN Idle ELSE next
           after == [task EXCEPT ![t] = one]
<1>1. /\ next \in TaskRecords /\ next.op = task[t].op /\ next.file = task[t].file
      /\ next.pc = "next" /\ next.role = "none" /\ next.plan = NoPlan
      /\ next.todo = task[t].todo /\ next.list = task[t].list
  BY DEF Shape, TaskRecords, Points, Roles
<1>2. /\ task[t].pc = "cleaned" /\ UNCHANGED <<plan, manager>>
      /\ task' = IF task[t].role = "cleanup" THEN after ELSE Notified(p, after)
  BY DEF Cleaned
<1> HIDE DEF next
<1>3. /\ one \in TaskRecords
      /\ \/ one = Idle /\ task[t].op \in {"commit", "abort", "abort_open"}
         \/ one = next /\ task[t].op \notin {"commit", "abort"}
  BY <1>1, IdleIs
<1> HIDE DEF one
<1>4. /\ after \in [Tasks -> TaskRecords] /\ after[t] = one
      /\ \A u \in Tasks \ {t} : after[u] = task[u]
  BY <1>3 DEF Shape
<1> HIDE DEF after
<1>5. CASE task[t].role = "cleanup"
  BY <1>1, <1>2, <1>3, <1>4, <1>5 DEF Told
<1>6. CASE task[t].role # "cleanup"
  <2>1. ASSUME NEW k \in TaskRecords, NEW h, h = [k EXCEPT !.heard = TRUE]
       PROVE  /\ h \in TaskRecords /\ h.op = k.op /\ h.pc = k.pc /\ h.plan = k.plan
              /\ h.file = k.file /\ h.role = k.role /\ h.todo = k.todo /\ h.list = k.list
              /\ h.heard = TRUE
    BY <2>1 DEF TaskRecords
  <2>2. /\ task' \in [Tasks -> TaskRecords]
        /\ \A u \in Tasks : /\ ~Hears(p, u) => task'[u] = after[u]
                            /\ Hears(p, u) => task'[u] = [after[u] EXCEPT !.heard = TRUE]
    BY <1>2, <1>4, <1>6, <2>1 DEF Notified
  <2>3. task'[t] = one
    BY <1>2, <1>4, <2>2 DEF Hears
  <2>4. ASSUME NEW u \in Tasks \ {t}
       PROVE  Told(t, u)
    <3>1. task[u] \in TaskRecords
      BY DEF Shape
    <3>2. /\ ~Hears(p, u) => task'[u] = task[u]
          /\ Hears(p, u) => task'[u] = [task[u] EXCEPT !.heard = TRUE]
      BY <1>4, <2>2
    <3> QED
      BY <2>1, <3>1, <3>2 DEF Told
  <2> QED
    BY <1>1, <1>2, <1>3, <2>2, <2>3, <2>4
<1> QED
  BY <1>5, <1>6

(* A request begins only at a task at rest of a process that is up and     *)
(* open.                                                                   *)
LEMMA RequestDoes ==
  ASSUME Shape, NEW t \in Clients, Request(t)
  PROVE  Accepted(t)
<1>1. ASSUME NEW op \in {"create", "abort_open", "commit", "abort", "upload"},
             NEW p \in Plans \cup {NoPlan}, NEW file \in SUBSET Files,
             Accept(t, op, p, file), op \in {"commit", "abort", "upload"} => p \in Plans
     PROVE  Accepted(t)
  <2> DEFINE r == [Idle EXCEPT !.op = op, !.pc = "start", !.plan = p, !.file = file]
             ops == IF op = "upload" THEN manager.ops ELSE manager.ops + 1
  <2>1. /\ r \in TaskRecords /\ r.op = op /\ r.pc = "start" /\ r.plan = p
        /\ r.role = "none" /\ r.todo = {} /\ r.list = {}
    BY SyncManagerAssumption DEF Idle, TaskRecords, Operations, Points, Roles
  <2>2. /\ manager.up /\ ~manager.closed /\ task[t] = Idle /\ UNCHANGED plan
        /\ task' = [task EXCEPT ![t] = r]
        /\ manager' = [manager EXCEPT !.ops = ops]
    BY <1>1 DEF Accept
  <2>3. ops \in Nat
    BY DEF Shape, ManagerRecords
  <2> HIDE DEF r, ops
  <2>4. ManagerIs(manager.permits, manager.cleanup_degraded)
    BY <2>2, <2>3 DEF Shape, ManagerRecords, ManagerIs
  <2>5. OnlyTask(t) /\ task'[t] = r
    BY <2>1, <2>2 DEF Shape, OnlyTask, Tasks
  <2> QED
    BY <1>1, <2>1, <2>2, <2>4, <2>5 DEF Accepted
<1>2. CASE Accept(t, "create", NoPlan, {}) \/ Accept(t, "abort_open", NoPlan, {})
  BY <1>1, <1>2
<1>3. ASSUME NEW p \in Plans, Accept(t, "commit", p, {}) \/ Accept(t, "abort", p, {})
     PROVE  Accepted(t)
  BY <1>1, <1>3
<1>4. ASSUME NEW p \in Plans, NEW f \in Files, Accept(t, "upload", p, {f})
     PROVE  Accepted(t)
  BY <1>1, <1>4
<1> QED
  BY <1>2, <1>3, <1>4 DEF Request, Registered

(* The reaper takes the plans past their deadline and those that owe       *)
(* cleanup.                                                                *)
LEMMA ReapBeginsDoes ==
  ASSUME Shape, ReapBegins
  PROVE  /\ ~manager.closed
         /\ task[Reaper] = Idle
         /\ OnlyTask(Reaper)
         /\ UNCHANGED <<plan, manager>>
         /\ task'[Reaper].op = "reap" /\ task'[Reaper].pc = "next"
         /\ task'[Reaper].role = "none" /\ task'[Reaper].list = {}
         /\ manager.up
<1> DEFINE r == [Idle EXCEPT !.op = "reap", !.pc = "next", !.todo = Registered]
<1>1. /\ r \in TaskRecords /\ r.op = "reap" /\ r.pc = "next" /\ r.role = "none"
      /\ r.list = {}
  BY SyncManagerAssumption
  DEF Idle, TaskRecords, Operations, Points, Roles, Registered
<1>2. /\ manager.up /\ ~manager.closed /\ task[Reaper] = Idle /\ UNCHANGED <<plan, manager>>
      /\ task' = [task EXCEPT ![Reaper] = r]
  BY DEF ReapBegins
<1> HIDE DEF r
<1>3. OnlyTask(Reaper) /\ task'[Reaper] = r
  BY <1>1, <1>2 DEF Shape, OnlyTask, Tasks
<1> QED
  BY <1>1, <1>2, <1>3

(* shutdown closes the manager.                                            *)
LEMMA ShutdownBeginsDoes ==
  ASSUME Shape, ShutdownBegins
  PROVE  /\ manager.up /\ ~manager.closed /\ UNCHANGED plan
         /\ manager' \in ManagerRecords /\ manager'.up = manager.up /\ manager'.closed
         /\ manager'.permits = manager.permits
         /\ manager'.cleanup_degraded = manager.cleanup_degraded
         /\ OnlyTask(Closer)
         /\ task'[Closer].op = "shutdown" /\ task'[Closer].pc = "cancel"
         /\ task'[Closer].plan = task[Closer].plan /\ task'[Closer].role = task[Closer].role
         /\ task'[Closer].todo = task[Closer].todo /\ task'[Closer].list = task[Closer].list
<1> DEFINE r == [task[Closer] EXCEPT !.op = "shutdown", !.pc = "cancel"]
<1>1. task[Closer] \in TaskRecords
  BY DEF Shape, Tasks
<1>2. /\ r \in TaskRecords /\ r.op = "shutdown" /\ r.pc = "cancel"
      /\ r.plan = task[Closer].plan /\ r.role = task[Closer].role
      /\ r.todo = task[Closer].todo /\ r.list = task[Closer].list
  BY <1>1 DEF TaskRecords, Operations, Points
<1>3. task' = [task EXCEPT ![Closer] = r]
  BY DEF ShutdownBegins
<1> HIDE DEF r
<1>4. OnlyTask(Closer) /\ task'[Closer] = r
  BY <1>2, <1>3 DEF Shape, OnlyTask, Tasks
<1>5. /\ manager.up /\ ~manager.closed /\ UNCHANGED plan
      /\ manager' \in ManagerRecords /\ manager'.up = manager.up /\ manager'.closed
      /\ manager'.permits = manager.permits
      /\ manager'.cleanup_degraded = manager.cleanup_degraded
  BY DEF ShutdownBegins, Shape, ManagerRecords
<1> QED
  BY <1>2, <1>4, <1>5

(* shutdown cancels what commits, and nothing else.                        *)
LEMMA ShutdownCancelsDoes ==
  ASSUME Shape, ShutdownCancels
  PROVE  /\ task[Closer].op = "shutdown" /\ task[Closer].pc = "cancel"
         /\ Advances(Closer, "drain") /\ UNCHANGED manager
         /\ plan' \in [Plans -> PlanRecords]
         /\ \A p \in Plans : /\ plan'[p].registered = plan[p].registered
                              /\ SameState(p) /\ CleanupKept(p)
<1> DEFINE r(p) == [plan[p] EXCEPT !.cancel = @ \/ plan[p].registered]
<1>1. ASSUME NEW p \in Plans
     PROVE  /\ r(p) \in PlanRecords /\ r(p).registered = plan[p].registered
            /\ r(p).state = plan[p].state /\ r(p).permit = plan[p].permit
            /\ r(p).upload_files = plan[p].upload_files /\ r(p).uploaded = plan[p].uploaded
            /\ r(p).cleanup_pending = plan[p].cleanup_pending
            /\ r(p).cleanup_failed = plan[p].cleanup_failed
            /\ r(p).staging = plan[p].staging /\ r(p).staged = plan[p].staged
  BY DEF Shape, PlanRecords
<1>2. plan' = [p \in Plans |-> r(p)]
  BY DEF ShutdownCancels
<1> HIDE DEF r
<1>3. plan' \in [Plans -> PlanRecords]
  BY <1>1, <1>2
<1>4. \A p \in Plans : /\ plan'[p].registered = plan[p].registered
                        /\ SameState(p) /\ CleanupKept(p)
  BY <1>1, <1>2 DEF SameState, CleanupKept, CleanupIs
<1> QED
  BY <1>3, <1>4, GotoDoes DEF ShutdownCancels, On, Points, Tasks

(* Time changes deadlines and ages only.                                   *)
LEMMA TimeDoes ==
  ASSUME Shape, NEW p \in Plans, Overdue(p) \/ Age(p)
  PROVE  UNCHANGED <<task, manager>> /\ StateKept(p) /\ CleanupKept(p)
<1>1. ASSUME Overdue(p)
     PROVE  StateKept(p) /\ CleanupKept(p)
  <2>1. StateKept(p) /\ CleanupKept(p)
    <3> DEFINE r == [plan[p] EXCEPT !.overdue = TRUE]
    <3>1. plan[p] \in PlanRecords
      BY DEF Shape
    <3>2. r \in PlanRecords
      BY <3>1 DEF PlanRecords, States, Active, Ended, TaskRecords
    <3>3. /\ r.state = plan[p].state
          /\ r.registered = plan[p].registered
          /\ r.permit = plan[p].permit
          /\ r.upload_files = plan[p].upload_files
          /\ r.uploaded = plan[p].uploaded
          /\ r.cleanup_pending = plan[p].cleanup_pending
          /\ r.cleanup_failed = plan[p].cleanup_failed
          /\ r.staging = plan[p].staging /\ r.staged = plan[p].staged
      BY <3>1 DEF PlanRecords
    <3>4. plan' = [plan EXCEPT ![p] = r]
      BY <1>1 DEF Overdue
    <3> HIDE DEF r
    <3> QED
      BY <3>2, <3>3, <3>4, PlanSet DEF StateKept, CleanupKept
  <2> QED
    BY <2>1
<1>2. ASSUME Age(p)
     PROVE  StateKept(p) /\ CleanupKept(p)
  <2>1. StateKept(p) /\ CleanupKept(p)
    <3> DEFINE r == [plan[p] EXCEPT !.aged = TRUE]
    <3>1. plan[p] \in PlanRecords
      BY DEF Shape
    <3>2. r \in PlanRecords
      BY <3>1 DEF PlanRecords, States, Active, Ended, TaskRecords
    <3>3. /\ r.state = plan[p].state
          /\ r.registered = plan[p].registered
          /\ r.permit = plan[p].permit
          /\ r.upload_files = plan[p].upload_files
          /\ r.uploaded = plan[p].uploaded
          /\ r.cleanup_pending = plan[p].cleanup_pending
          /\ r.cleanup_failed = plan[p].cleanup_failed
          /\ r.staging = plan[p].staging /\ r.staged = plan[p].staged
      BY <3>1 DEF PlanRecords
    <3>4. plan' = [plan EXCEPT ![p] = r]
      BY <1>2 DEF Age
    <3> HIDE DEF r
    <3> QED
      BY <3>2, <3>3, <3>4, PlanSet DEF StateKept, CleanupKept
  <2> QED
    BY <2>1
<1> QED
  BY <1>1, <1>2 DEF Overdue, Age

(* A crash ends every task, and what was registered.                       *)
LEMMA CrashDoes ==
  ASSUME Shape, Crash
  PROVE  /\ manager' \in ManagerRecords /\ ~manager'.up /\ ~manager'.closed
         /\ manager'.permits = 1 /\ manager'.cleanup_degraded = 0
         /\ task' \in [Tasks -> TaskRecords] /\ \A t \in Tasks : task'[t] = Idle
         /\ plan' \in [Plans -> PlanRecords]
         /\ \A p \in Plans : Forgotten(p)
<1> DEFINE r(p) == [NewPlan EXCEPT !.staging = plan[p].staging]
<1>1. ASSUME NEW p \in Plans
     PROVE  /\ r(p) \in PlanRecords /\ r(p).state = "none" /\ ~r(p).registered
            /\ ~r(p).permit /\ ~r(p).cleanup_pending /\ ~r(p).cleanup_failed
  <2>1. plan[p].staging \in BOOLEAN
    BY DEF Shape, PlanRecords
  <2> QED
    BY <2>1, NewIs DEF PlanRecords
<1>2. plan' = [p \in Plans |-> r(p)]
  BY DEF Crash
<1> HIDE DEF r
<1>3. plan' \in [Plans -> PlanRecords] /\ \A p \in Plans : Forgotten(p)
  BY <1>1, <1>2 DEF Forgotten
<1>4. task' \in [Tasks -> TaskRecords] /\ \A t \in Tasks : task'[t] = Idle
  BY IdleIs DEF Crash
<1>5. /\ manager' \in ManagerRecords /\ ~manager'.up /\ ~manager'.closed
      /\ manager'.permits = 1 /\ manager'.cleanup_degraded = 0
  <2>1. manager \in ManagerRecords
    BY DEF Shape
  <2>2. manager' = [manager EXCEPT !.up = FALSE, !.closed = FALSE, !.permits = 1,
                                   !.cleanup_degraded = 0]
    BY DEF Crash
  <2> DEFINE dark == [manager EXCEPT !.up = FALSE, !.closed = FALSE]
  <2>3. manager' \in ManagerRecords
    <3>1. dark \in ManagerRecords
      BY <2>1 DEF ManagerRecords
    <3> DEFINE free == [dark EXCEPT !.permits = 1]
    <3>2. manager' = [free EXCEPT !.cleanup_degraded = 0]
      BY <2>1, <2>2 DEF ManagerRecords
    <3> HIDE DEF dark
    <3>3. free \in ManagerRecords
      BY <3>1 DEF ManagerRecords
    <3> HIDE DEF free
    <3> QED
      BY <3>2, <3>3 DEF ManagerRecords
  <2>4. /\ manager'.up = FALSE /\ manager'.closed = FALSE
        /\ manager'.permits = 1 /\ manager'.cleanup_degraded = 0
    BY <2>1, <2>2 DEF ManagerRecords
  <2> QED
    BY <2>3, <2>4
<1> QED
  BY <1>3, <1>4, <1>5

(* A start removes all staging.                                            *)
LEMMA RestartDoes ==
  ASSUME Shape, Restart
  PROVE  /\ ~manager.up /\ UNCHANGED task
         /\ manager' \in ManagerRecords /\ manager'.up /\ manager'.closed = manager.closed
         /\ manager'.permits = manager.permits
         /\ manager'.cleanup_degraded = manager.cleanup_degraded
         /\ plan' \in [Plans -> PlanRecords]
         /\ \A p \in Plans : Forgotten(p) /\ ~plan'[p].staging
<1>1. plan' \in [Plans -> PlanRecords] /\ \A p \in Plans : plan'[p] = NewPlan
  BY NewIs DEF Restart, RemovesOrphans
<1>2. \A p \in Plans : Forgotten(p) /\ ~plan'[p].staging
  BY <1>1, NewIs DEF Forgotten
<1> QED
  BY <1>1, <1>2 DEF Restart, Shape, ManagerRecords

(***************************************************************************)
(* Shape and tasks.                                                        *)
(* The first layer: the records keep their types, and an operation reaches *)
(* only the points it has.                                                 *)
(***************************************************************************)

(* Every step keeps the types.                                             *)
LEMMA ShapeKept ==
  ASSUME Shape, TaskFits, CommitFits, [Next]_vars
  PROVE  Shape'
<1>1. CASE UNCHANGED vars
  BY <1>1 DEF vars, Shape
<1>2. ASSUME NEW t \in Tasks, NotFound(t) PROVE Shape'
  BY <1>2, QuietEnds
  DEF OnlyTask, Rests, Shape
<1>3. ASSUME NEW t \in Tasks, CreateBegins(t) PROVE Shape'
  BY <1>3, CreateBeginsDoes
  DEF OnlyTask, Reaches, Advances, Shape
<1>4. ASSUME NEW t \in Tasks, CreateRefused(t) PROVE Shape'
  BY <1>4, QuietEnds
  DEF OnlyTask, Rests, Shape
<1>5. ASSUME NEW t \in Tasks, create_staging_dir(t) PROVE Shape'
  BY <1>5, CreatesStaging
  DEF OnlyTask, Reaches, OnlyPlan, PlanBecomes, CleanupIs, ManagerIs, Shape
<1>6. ASSUME NEW t \in Tasks, StagingRejected(t) PROVE Shape'
  BY <1>6, StagingRejectedDoes
  DEF OnlyTask, Rests, OnlyPlan, PlanBecomes, CleanupIs, StateKept,
      CleanupKept, ManagerIs, Shape
<1>7. ASSUME NEW t \in Tasks, InsertPlan(t) PROVE Shape'
  BY <1>7, InsertPlanDoes
  DEF OnlyTask, Rests, OnlyPlan, PlanBecomes, CleanupIs, StateKept,
      CleanupKept, Shape
<1>8. ASSUME NEW t \in Tasks, UploadChecks(t) PROVE Shape'
  BY <1>8, UploadChecksDoes
  DEF OnlyTask, Reaches, Advances, Rests, Shape
<1>9. ASSUME NEW t \in Tasks, UploadFails(t) PROVE Shape'
  BY <1>9, QuietEnds
  DEF OnlyTask, Rests, Shape
<1>10. ASSUME NEW t \in Tasks, atomic_replace(t) PROVE Shape'
  BY <1>10, StagesFile
  DEF OnlyTask, Reaches, Advances, OnlyPlan, PlanBecomes, CleanupIs,
      StateKept, CleanupKept, Shape
<1>11. ASSUME NEW t \in Tasks, UploadRecords(t) PROVE Shape'
  BY <1>11, UploadRecordsDoes
  DEF OnlyTask, Rests, OnlyPlan, PlanBecomes, CleanupIs, StateKept,
      CleanupKept, Shape
<1>12. ASSUME NEW t \in Tasks, CommitDecides(t) PROVE Shape'
  BY <1>12, CommitDecidesDoes
  DEF OnlyTask, Reaches, Advances, Rests, OnlyPlan, PlanBecomes, CleanupIs,
      StateKept, CleanupKept, Shape
<1>13. ASSUME NEW t \in Tasks, CommitSettles(t) PROVE Shape'
  BY <1>13, CommitSettlesDoes
  DEF OnlyTask, Reaches, OnlyPlan, PlanBecomes, CleanupIs, Settles, ManagerIs,
      Shape
<1>14. ASSUME NEW t \in Tasks, CommitLooks(t) PROVE Shape'
  BY <1>14, CommitLooksDoes
  DEF OnlyTask, Reaches, Advances, Rests, Shape
<1>15. ASSUME NEW t \in Tasks, CommitWakes(t) PROVE Shape'
  BY <1>15, CommitWakesDoes
  DEF OnlyTask, Reaches, Shape
<1>16. ASSUME NEW t \in Tasks, AbortBegins(t) PROVE Shape'
  BY <1>16, AbortBeginsDoes
  DEF OnlyTask, Reaches, OnlyPlan, PlanBecomes, CleanupIs, StateKept,
      CleanupKept, Shape
<1>17. ASSUME NEW t \in Tasks, AbortDecides(t) PROVE Shape'
  BY <1>17, AbortDecidesDoes
  DEF OnlyTask, Reaches, Advances, OnlyPlan, PlanBecomes, CleanupIs, Settles,
      ManagerIs, Shape
<1>18. ASSUME NEW t \in Tasks, AbortWakes(t) PROVE Shape'
  BY <1>18, AbortWakesDoes
  DEF OnlyTask, Reaches, Shape
<1>19. ASSUME NEW t \in Tasks, CleanupBegins(t) PROVE Shape'
  BY <1>19, CleanupBeginsDoes
  DEF OnlyTask, Reaches, Advances, Shape
<1>20. ASSUME NEW t \in Tasks, CleanupRemoves(t) PROVE Shape'
  BY <1>20, CleanupRemovesDoes
  DEF OnlyTask, Reaches, Advances, OnlyPlan, PlanBecomes, CleanupIs,
      StateKept, CleanupKept, ManagerIs, Shape
<1>21. ASSUME NEW t \in Tasks, CleanupFails(t) PROVE Shape'
  BY <1>21, CleanupFailsDoes
  DEF OnlyTask, Reaches, OnlyPlan, PlanBecomes, CleanupIs, StateKept,
      CleanupKept, ManagerIs, Shape
<1>22. ASSUME NEW t \in Tasks, Cleaned(t) PROVE Shape'
  BY <1>22, CleanedDoes
  DEF Told, Shape
<1>23. ASSUME NEW t \in Tasks, PruneLooks(t) PROVE Shape'
  BY <1>23, PruneLooksDoes
  DEF OnlyTask, Reaches, Rests, Prunes, Shape
<1>24. ASSUME NEW t \in Tasks, PruneForgets(t) PROVE Shape'
  BY <1>24, PruneForgetsDoes
  DEF OnlyTask, Reaches, Rests, Prunes, SameState, CleanupKept, CleanupIs,
      Shape
<1>25. ASSUME NEW t \in Tasks, AbortOpenBegins(t) PROVE Shape'
  BY <1>25, AbortOpenBeginsDoes
  DEF OnlyTask, Reaches, Shape
<1>26. ASSUME NEW t \in Tasks, NextPlan(t) PROVE Shape'
  BY <1>26, NextPlanDoes
  DEF OnlyTask, Reaches, Shape
<1>27. ASSUME NEW t \in Tasks, NoMorePlans(t) PROVE Shape'
  BY <1>27, NoMorePlansDoes
  DEF OnlyTask, Reaches, Advances, Rests, Shape
<1>28. ASSUME NEW t \in Clients, Request(t) PROVE Shape'
  BY <1>28, RequestDoes
  DEF Accepted, OnlyTask, ManagerIs, Shape
<1>29. CASE ReapBegins
  BY <1>29, ReapBeginsDoes
  DEF OnlyTask, Shape
<1>30. CASE ShutdownBegins
  BY <1>30, ShutdownBeginsDoes
  DEF OnlyTask, Shape
<1>31. CASE ShutdownCancels
  BY <1>31, ShutdownCancelsDoes
  DEF OnlyTask, Reaches, Advances, SameState, CleanupKept, CleanupIs, Shape
<1>32. CASE ShutdownDrains
  BY <1>32, ShutdownDrainsDoes
  DEF OnlyTask, Reaches, Shape
<1>33. ASSUME NEW p \in Plans, Overdue(p) PROVE Shape'
  BY <1>33, TimeDoes
  DEF OnlyPlan, PlanBecomes, CleanupIs, StateKept, CleanupKept, Shape
<1>34. ASSUME NEW p \in Plans, Age(p) PROVE Shape'
  BY <1>34, TimeDoes
  DEF OnlyPlan, PlanBecomes, CleanupIs, StateKept, CleanupKept, Shape
<1>35. CASE Crash
  BY <1>35, CrashDoes
  DEF Forgotten, Shape
<1>36. CASE Restart
  BY <1>36, RestartDoes
  DEF Forgotten, Shape
<1> QED
  BY <1>1, <1>2, <1>3, <1>4, <1>5, <1>6, <1>7, <1>8, <1>9, <1>10, <1>11,
      <1>12, <1>13, <1>14, <1>15, <1>16, <1>17, <1>18, <1>19, <1>20, <1>21,
      <1>22, <1>23, <1>24, <1>25, <1>26, <1>27, <1>28, <1>29, <1>30, <1>31,
      <1>32, <1>33, <1>34, <1>35, <1>36
  DEF Next, Step, Create, Upload, Commit, Abort, Cleanup, Prune, Loop,
      Shutdown, AtRest

(* What is said of all tasks holds of one.                                 *)
LEMMA FitOf ==
  ASSUME TaskFits, NEW t \in Tasks
  PROVE  TaskFit(task[t])
BY DEF TaskFits

(* Only the task that moves has to be looked at.                           *)
LEMMA FitsAgain ==
  ASSUME TaskFits, NEW t \in Tasks, OnlyTask(t), TaskFit(task'[t])
  PROVE  TaskFits'
BY DEF TaskFits, OnlyTask

(* A task at rest fits.                                                    *)
LEMMA IdleFits == TaskFit(Idle)
BY IdleIs DEF TaskFit, PlanPoints, CleanupPoints

(* So do the tasks after one of them has returned.                         *)
LEMMA RestsFits ==
  ASSUME TaskFits, NEW t \in Tasks, Rests(t)
  PROVE  TaskFits'
BY IdleFits, FitsAgain DEF Rests

(* Every step keeps operations at their points.                            *)
LEMMA TaskFitsKept ==
  ASSUME Shape, TaskFits, CommitFits, CloserFits, [Next]_vars
  PROVE  TaskFits'
<1>1. CASE UNCHANGED vars
  BY <1>1 DEF vars, TaskFits
<1>2. ASSUME NEW t \in Tasks, NotFound(t) PROVE TaskFits'
  BY <1>2, QuietEnds, FitOf, FitsAgain, RestsFits
  DEF TaskFit, PlanPoints, CleanupPoints
<1>3. ASSUME NEW t \in Tasks, CreateBegins(t) PROVE TaskFits'
  BY <1>3, CreateBeginsDoes, FitOf, FitsAgain, RestsFits
  DEF Reaches, Advances, TaskFit, PlanPoints, CleanupPoints
<1>4. ASSUME NEW t \in Tasks, CreateRefused(t) PROVE TaskFits'
  BY <1>4, QuietEnds, FitOf, FitsAgain, RestsFits
  DEF TaskFit, PlanPoints, CleanupPoints
<1>5. ASSUME NEW t \in Tasks, create_staging_dir(t) PROVE TaskFits'
  BY <1>5, CreatesStaging, FitOf, FitsAgain, RestsFits
  DEF Reaches, TaskFit, PlanPoints, CleanupPoints
<1>6. ASSUME NEW t \in Tasks, StagingRejected(t) PROVE TaskFits'
  BY <1>6, StagingRejectedDoes, FitOf, FitsAgain, RestsFits
  DEF TaskFit, PlanPoints, CleanupPoints
<1>7. ASSUME NEW t \in Tasks, InsertPlan(t) PROVE TaskFits'
  BY <1>7, InsertPlanDoes, FitOf, FitsAgain, RestsFits
  DEF TaskFit, PlanPoints, CleanupPoints
<1>8. ASSUME NEW t \in Tasks, UploadChecks(t) PROVE TaskFits'
  BY <1>8, UploadChecksDoes, FitOf, FitsAgain, RestsFits
  DEF Reaches, Advances, TaskFit, PlanPoints, CleanupPoints
<1>9. ASSUME NEW t \in Tasks, UploadFails(t) PROVE TaskFits'
  BY <1>9, QuietEnds, FitOf, FitsAgain, RestsFits
  DEF TaskFit, PlanPoints, CleanupPoints
<1>10. ASSUME NEW t \in Tasks, atomic_replace(t) PROVE TaskFits'
  BY <1>10, StagesFile, FitOf, FitsAgain, RestsFits
  DEF Reaches, Advances, TaskFit, PlanPoints, CleanupPoints
<1>11. ASSUME NEW t \in Tasks, UploadRecords(t) PROVE TaskFits'
  BY <1>11, UploadRecordsDoes, FitOf, FitsAgain, RestsFits
  DEF TaskFit, PlanPoints, CleanupPoints
<1>12. ASSUME NEW t \in Tasks, CommitDecides(t) PROVE TaskFits'
  BY <1>12, CommitDecidesDoes, FitOf, FitsAgain, RestsFits
  DEF Reaches, Advances, TaskFit, PlanPoints, CleanupPoints
<1>13. ASSUME NEW t \in Tasks, CommitSettles(t) PROVE TaskFits'
  BY <1>13, CommitSettlesDoes, FitOf, FitsAgain, RestsFits
  DEF Reaches, TaskFit, PlanPoints, CleanupPoints
<1>14. ASSUME NEW t \in Tasks, CommitLooks(t) PROVE TaskFits'
  BY <1>14, CommitLooksDoes, FitOf, FitsAgain, RestsFits
  DEF Reaches, Advances, TaskFit, PlanPoints, CleanupPoints
<1>15. ASSUME NEW t \in Tasks, CommitWakes(t) PROVE TaskFits'
  BY <1>15, CommitWakesDoes, FitOf, FitsAgain, RestsFits
  DEF Reaches, TaskFit, PlanPoints, CleanupPoints
<1>16. ASSUME NEW t \in Tasks, AbortBegins(t) PROVE TaskFits'
  <2>1. TaskFit(task[t])
    BY FitOf
  <2>2. /\ task[t].pc = "abort" \/ (task[t].pc = "start" /\ task[t].op = "abort")
        /\ task'[t].plan \in Plans /\ OnlyTask(t) /\ task'[t].op = task[t].op
        /\ task'[t].pc = "alone" /\ task'[t].role = "abort"
    BY <1>16, AbortBeginsDoes DEF Reaches
  <2>3. TaskFit(task'[t])
    BY <2>1, <2>2 DEF TaskFit, PlanPoints, CleanupPoints
  <2> QED
    BY <2>2, <2>3, FitsAgain
<1>17. ASSUME NEW t \in Tasks, AbortDecides(t) PROVE TaskFits'
  BY <1>17, AbortDecidesDoes, FitOf, FitsAgain, RestsFits
  DEF Reaches, Advances, TaskFit, PlanPoints, CleanupPoints
<1>18. ASSUME NEW t \in Tasks, AbortWakes(t) PROVE TaskFits'
  BY <1>18, AbortWakesDoes, FitOf, FitsAgain, RestsFits
  DEF Reaches, TaskFit, PlanPoints, CleanupPoints
<1>19. ASSUME NEW t \in Tasks, CleanupBegins(t) PROVE TaskFits'
  BY <1>19, CleanupBeginsDoes, FitOf, FitsAgain, RestsFits
  DEF Reaches, Advances, TaskFit, PlanPoints, CleanupPoints
<1>20. ASSUME NEW t \in Tasks, CleanupRemoves(t) PROVE TaskFits'
  BY <1>20, CleanupRemovesDoes, FitOf, FitsAgain, RestsFits
  DEF Reaches, Advances, TaskFit, PlanPoints, CleanupPoints
<1>21. ASSUME NEW t \in Tasks, CleanupFails(t) PROVE TaskFits'
  BY <1>21, CleanupFailsDoes, FitOf, FitsAgain, RestsFits
  DEF Reaches, TaskFit, PlanPoints, CleanupPoints
<1>22. ASSUME NEW t \in Tasks, Cleaned(t) PROVE TaskFits'
  <2>1. ASSUME NEW u \in Tasks PROVE TaskFit(task'[u])
    BY <1>22, <2>1, CleanedDoes, FitOf, IdleFits DEF Told, TaskFit, PlanPoints, CleanupPoints
  <2> QED
    BY <2>1 DEF TaskFits
<1>23. ASSUME NEW t \in Tasks, PruneLooks(t) PROVE TaskFits'
  BY <1>23, PruneLooksDoes, FitOf, FitsAgain, RestsFits
  DEF Reaches, Prunes, TaskFit, PlanPoints, CleanupPoints
<1>24. ASSUME NEW t \in Tasks, PruneForgets(t) PROVE TaskFits'
  BY <1>24, PruneForgetsDoes, FitOf, FitsAgain, RestsFits
  DEF Reaches, Prunes, TaskFit, PlanPoints, CleanupPoints
<1>25. ASSUME NEW t \in Tasks, AbortOpenBegins(t) PROVE TaskFits'
  BY <1>25, AbortOpenBeginsDoes, FitOf, FitsAgain, RestsFits
  DEF Reaches, TaskFit, PlanPoints, CleanupPoints
<1>26. ASSUME NEW t \in Tasks, NextPlan(t) PROVE TaskFits'
  BY <1>26, NextPlanDoes, FitOf, FitsAgain, RestsFits
  DEF Reaches, TaskFit, PlanPoints, CleanupPoints
<1>27. ASSUME NEW t \in Tasks, NoMorePlans(t) PROVE TaskFits'
  BY <1>27, NoMorePlansDoes, FitOf, FitsAgain, RestsFits
  DEF Reaches, Advances, TaskFit, PlanPoints, CleanupPoints
<1>28. ASSUME NEW t \in Clients, Request(t) PROVE TaskFits'
  BY <1>28, RequestDoes, FitOf, FitsAgain, RestsFits
  DEF Accepted, TaskFit, PlanPoints, CleanupPoints, Tasks
<1>29. CASE ReapBegins
  BY <1>29, ReapBeginsDoes, FitOf, FitsAgain, RestsFits
  DEF TaskFit, PlanPoints, CleanupPoints, Tasks
<1>30. CASE ShutdownBegins
  BY <1>30, ShutdownBeginsDoes, FitOf, FitsAgain, RestsFits, IdleIs
  DEF TaskFit, PlanPoints, CleanupPoints, Tasks, CloserFits
<1>31. CASE ShutdownCancels
  BY <1>31, ShutdownCancelsDoes, FitOf, FitsAgain, RestsFits
  DEF Reaches, Advances, TaskFit, PlanPoints, CleanupPoints, Tasks
<1>32. CASE ShutdownDrains
  BY <1>32, ShutdownDrainsDoes, FitOf, FitsAgain, RestsFits
  DEF Reaches, TaskFit, PlanPoints, CleanupPoints, Tasks
<1>33. ASSUME NEW p \in Plans, Overdue(p) PROVE TaskFits'
  BY <1>33, TimeDoes DEF TaskFits
<1>34. ASSUME NEW p \in Plans, Age(p) PROVE TaskFits'
  BY <1>34, TimeDoes DEF TaskFits
<1>35. CASE Crash
  BY <1>35, CrashDoes, IdleFits DEF TaskFits
<1>36. CASE Restart
  BY <1>36, RestartDoes DEF TaskFits
<1> QED
  BY <1>1, <1>2, <1>3, <1>4, <1>5, <1>6, <1>7, <1>8, <1>9, <1>10, <1>11,
      <1>12, <1>13, <1>14, <1>15, <1>16, <1>17, <1>18, <1>19, <1>20, <1>21,
      <1>22, <1>23, <1>24, <1>25, <1>26, <1>27, <1>28, <1>29, <1>30, <1>31,
      <1>32, <1>33, <1>34, <1>35, <1>36
  DEF Next, Step, Create, Upload, Commit, Abort, Cleanup, Prune, Loop,
      Shutdown, AtRest

(***************************************************************************)
(* Plans.                                                                  *)
(* What is registered, what holds a permit and what has staging.           *)
(***************************************************************************)

(* These steps touch neither a plan nor the manager.                       *)
LEMMA OnlyTasksMove ==
  ASSUME NEW t \in Tasks,
         NotFound(t) \/ CreateBegins(t) \/ CreateRefused(t)
         \/ UploadChecks(t) \/ UploadFails(t) \/ CommitLooks(t)
         \/ CommitWakes(t) \/ AbortWakes(t) \/ CleanupBegins(t)
         \/ Cleaned(t) \/ PruneLooks(t) \/ AbortOpenBegins(t)
         \/ NextPlan(t) \/ NoMorePlans(t)
  PROVE  UNCHANGED <<plan, manager>> /\ task[t].pc # "none"
BY DEF On, Found, NotFound, CreateBegins, CreateRefused, UploadChecks,
    UploadFails, CommitLooks, CommitWakes, AbortWakes, CleanupBegins, Cleaned,
    PruneLooks, AbortOpenBegins, NextPlan, NoMorePlans

(* What is said of all plans holds of one.                                 *)
LEMMA PlanFitOf ==
  ASSUME PlanFits, NEW p \in Plans
  PROVE  PlanFit(plan[p])
BY DEF PlanFits

(* Only the plan that changes has to be looked at.                         *)
LEMMA PlanFitsAgain ==
  ASSUME PlanFits, NEW p \in Plans, OnlyPlan(p), PlanFit(plan'[p])
  PROVE  PlanFits'
BY DEF PlanFits, OnlyPlan

(* A plan not made yet fits.                                               *)
LEMMA NewFits == PlanFit(NewPlan)
BY NewIs DEF PlanFit, Active, Ended

(* Every step keeps the plans consistent: permit, registration and staging *)
(* go with the state.                                                      *)
LEMMA PlanFitsKept ==
  ASSUME Shape, TaskFits, PlanFits, PermitFits, UploadFits, CommitFits,
      CleanupFits, [Next]_vars
  PROVE  PlanFits'
<1>1. CASE UNCHANGED vars
  BY <1>1 DEF vars, PlanFits
<1>2. ASSUME NEW t \in Tasks,
             NotFound(t) \/ CreateBegins(t) \/ CreateRefused(t)
             \/ UploadChecks(t) \/ UploadFails(t) \/ CommitLooks(t)
             \/ CommitWakes(t) \/ AbortWakes(t) \/ CleanupBegins(t)
             \/ Cleaned(t) \/ PruneLooks(t) \/ AbortOpenBegins(t)
             \/ NextPlan(t) \/ NoMorePlans(t)
     PROVE  PlanFits'
  BY <1>2, OnlyTasksMove DEF PlanFits
<1>3. ASSUME NEW t \in Tasks, create_staging_dir(t) PROVE PlanFits'
  BY <1>3, CreatesStaging, NewIs, NewFits, PlanFitsAgain
  DEF PlanBecomes, CleanupIs, PlanFit, Active, Ended
<1>4. ASSUME NEW t \in Tasks, StagingRejected(t) PROVE PlanFits'
  <2>1. PlanFit(plan[task[t].plan]) /\ task[t].plan \in Plans
    BY <1>4, StagingRejectedDoes, FitOf, PlanFitOf DEF TaskFit, PlanPoints
  <2>2. plan[task[t].plan].state = "created"
    BY <1>4, StagingRejectedDoes DEF PermitFits, Creates
  <2>3. OnlyPlan(task[t].plan) /\ PlanFit(plan'[task[t].plan])
    BY <1>4, <2>1, <2>2, StagingRejectedDoes, NewFits
    DEF CleanupKept, PlanBecomes, CleanupIs, PlanFit, Active, Ended
  <2> QED
    BY <2>1, <2>3, PlanFitsAgain
<1>5. ASSUME NEW t \in Tasks, InsertPlan(t) PROVE PlanFits'
  <2>1. PlanFit(plan[task[t].plan]) /\ task[t].plan \in Plans
    BY <1>5, InsertPlanDoes, FitOf, PlanFitOf DEF TaskFit, PlanPoints
  <2>2. OnlyPlan(task[t].plan) /\ PlanFit(plan'[task[t].plan])
    BY <1>5, <2>1, InsertPlanDoes
    DEF PermitFits, Creates, CleanupKept, PlanBecomes, CleanupIs, PlanFit, Active, Ended
  <2> QED
    BY <2>1, <2>2, PlanFitsAgain
<1>6. ASSUME NEW t \in Tasks, atomic_replace(t) PROVE PlanFits'
  <2>1. PlanFit(plan[task[t].plan]) /\ task[t].plan \in Plans
    BY <1>6, StagesFile, FitOf, PlanFitOf DEF TaskFit, PlanPoints
  <2>2. OnlyPlan(task[t].plan) /\ PlanFit(plan'[task[t].plan])
    BY <1>6, <2>1, StagesFile
    DEF StateKept, PlanBecomes, CleanupIs, PlanFit, Active, Ended
  <2> QED
    BY <2>1, <2>2, PlanFitsAgain
<1>7. ASSUME NEW t \in Tasks, UploadRecords(t) PROVE PlanFits'
  <2>1. PlanFit(plan[task[t].plan]) /\ task[t].plan \in Plans
    BY <1>7, UploadRecordsDoes, FitOf, PlanFitOf DEF TaskFit, PlanPoints
  <2>2. OnlyPlan(task[t].plan) /\ PlanFit(plan'[task[t].plan])
    BY <1>7, <2>1, UploadRecordsDoes
    DEF UploadFits, HoldsActivity, CleanupKept, PlanBecomes, CleanupIs, PlanFit, Active, Ended
  <2> QED
    BY <2>1, <2>2, PlanFitsAgain
<1>8. ASSUME NEW t \in Tasks, CommitDecides(t) PROVE PlanFits'
  <2>1. PlanFit(plan[task[t].plan]) /\ task[t].plan \in Plans
    BY <1>8, CommitDecidesDoes, FitOf, PlanFitOf DEF TaskFit
  <2>2. CASE UNCHANGED plan
    BY <2>2 DEF PlanFits
  <2>3. CASE plan' # plan
    <3>1. OnlyPlan(task[t].plan) /\ PlanFit(plan'[task[t].plan])
      BY <1>8, <2>1, <2>3, CommitDecidesDoes
      DEF CleanupKept, PlanBecomes, CleanupIs, PlanFit, Active, Ended
    <3> QED
      BY <2>1, <3>1, PlanFitsAgain
  <2> QED
    BY <2>2, <2>3
<1>9. ASSUME NEW t \in Tasks, CommitSettles(t) PROVE PlanFits'
  <2>1. PlanFit(plan[task[t].plan]) /\ task[t].plan \in Plans
    BY <1>9, CommitSettlesDoes, FitOf, PlanFitOf DEF TaskFit, PlanPoints
  <2>2. plan[task[t].plan].state = "Committing"
    BY <1>9, CommitSettlesDoes DEF CommitFits
  <2>3. PICK state \in {"Committed", "Failed"} : Settles(task[t].plan, state)
    BY <1>9, CommitSettlesDoes
  <2>4. OnlyPlan(task[t].plan) /\ PlanFit(plan'[task[t].plan])
    BY <2>1, <2>2, <2>3
    DEF Settles, PlanBecomes, CleanupIs, PlanFit, Active, Ended
  <2> QED
    BY <2>1, <2>4, PlanFitsAgain
<1>10. ASSUME NEW t \in Tasks, AbortBegins(t) PROVE PlanFits'
  <2>1. PlanFit(plan[task[t].plan]) /\ task[t].plan \in Plans
    BY <1>10, AbortBeginsDoes, FitOf, PlanFitOf DEF TaskFit, PlanPoints
  <2>2. OnlyPlan(task[t].plan) /\ PlanFit(plan'[task[t].plan])
    BY <1>10, <2>1, AbortBeginsDoes
    DEF StateKept, CleanupKept, PlanBecomes, CleanupIs, PlanFit, Active, Ended
  <2> QED
    BY <2>1, <2>2, PlanFitsAgain
<1>11. ASSUME NEW t \in Tasks, AbortDecides(t) PROVE PlanFits'
  <2>1. PlanFit(plan[task[t].plan]) /\ task[t].plan \in Plans
    BY <1>11, AbortDecidesDoes, FitOf, PlanFitOf DEF TaskFit, PlanPoints
  <2>2. CASE UNCHANGED plan
    BY <2>2 DEF PlanFits
  <2>3. CASE plan' # plan
    <3>1. OnlyPlan(task[t].plan) /\ PlanFit(plan'[task[t].plan])
      BY <1>11, <2>1, <2>3, AbortDecidesDoes
      DEF Settles, PlanBecomes, CleanupIs, PlanFit, Active, Ended
    <3> QED
      BY <2>1, <3>1, PlanFitsAgain
  <2> QED
    BY <2>2, <2>3
<1>12. ASSUME NEW t \in Tasks, CleanupRemoves(t) PROVE PlanFits'
  <2>1. PlanFit(plan[task[t].plan]) /\ task[t].plan \in Plans
    BY <1>12, CleanupRemovesDoes, FitOf, PlanFitOf DEF TaskFit, PlanPoints
  <2>2. OnlyPlan(task[t].plan) /\ PlanFit(plan'[task[t].plan])
    BY <1>12, <2>1, CleanupRemovesDoes
    DEF CleanupFits, StateKept, PlanBecomes, CleanupIs, PlanFit, Active, Ended
  <2> QED
    BY <2>1, <2>2, PlanFitsAgain
<1>13. ASSUME NEW t \in Tasks, CleanupFails(t) PROVE PlanFits'
  <2>1. PlanFit(plan[task[t].plan]) /\ task[t].plan \in Plans
    BY <1>13, CleanupFailsDoes, FitOf, PlanFitOf DEF TaskFit, PlanPoints
  <2>2. OnlyPlan(task[t].plan) /\ PlanFit(plan'[task[t].plan])
    BY <1>13, <2>1, CleanupFailsDoes
    DEF CleanupFits, StateKept, PlanBecomes, CleanupIs, PlanFit, Active, Ended
  <2> QED
    BY <2>1, <2>2, PlanFitsAgain
<1>14. ASSUME NEW t \in Tasks, PruneForgets(t) PROVE PlanFits'
  <2>1. ASSUME NEW p \in Plans PROVE PlanFit(plan'[p])
    <3>1. PlanFit(plan[p])
      BY PlanFitOf
    <3>2. CASE p \in task[t].list
      BY <1>14, <3>1, <3>2, PruneForgetsDoes
      DEF CleanupFits, SameState, CleanupKept, CleanupIs, PlanFit, Active, Ended
    <3>3. CASE p \notin task[t].list
      BY <1>14, <3>1, <3>3, PruneForgetsDoes
    <3> QED
      BY <3>2, <3>3
  <2> QED
    BY <2>1 DEF PlanFits
<1>15. ASSUME NEW t \in Clients, Request(t) PROVE PlanFits'
  BY <1>15, RequestDoes DEF PlanFits, Accepted
<1>16. CASE ReapBegins
  BY <1>16, ReapBeginsDoes DEF PlanFits
<1>17. CASE ShutdownBegins
  BY <1>17, ShutdownBeginsDoes DEF PlanFits
<1>18. CASE ShutdownCancels
  <2>1. ASSUME NEW p \in Plans PROVE PlanFit(plan'[p])
    BY <1>18, <2>1, PlanFitOf, ShutdownCancelsDoes
    DEF SameState, CleanupKept, CleanupIs, PlanFit, Active, Ended
  <2> QED
    BY <2>1 DEF PlanFits
<1>19. CASE ShutdownDrains
  BY <1>19, ShutdownDrainsDoes DEF PlanFits
<1>20. ASSUME NEW p \in Plans, Overdue(p) \/ Age(p) PROVE PlanFits'
  BY <1>20, TimeDoes, PlanFitOf, PlanFitsAgain
  DEF StateKept, CleanupKept, PlanBecomes, CleanupIs, PlanFit, Active, Ended
<1>21. CASE Crash
  <2>1. ASSUME NEW p \in Plans PROVE PlanFit(plan'[p])
    BY <1>21, CrashDoes DEF Forgotten, PlanFit, Active, Ended
  <2> QED
    BY <2>1 DEF PlanFits
<1>22. CASE Restart
  <2>1. ASSUME NEW p \in Plans PROVE PlanFit(plan'[p])
    BY <1>22, RestartDoes DEF Forgotten, PlanFit, Active, Ended
  <2> QED
    BY <2>1 DEF PlanFits
<1> QED
  BY <1>1, <1>2, <1>3, <1>4, <1>5, <1>6, <1>7, <1>8, <1>9, <1>10, <1>11,
      <1>12, <1>13, <1>14, <1>15, <1>16, <1>17, <1>18, <1>19, <1>20, <1>21,
      <1>22
  DEF Next, Step, Create, Upload, Commit, Abort, Cleanup, Prune, Loop,
      Shutdown, AtRest

(***************************************************************************)
(* A process that is down.                                                 *)
(***************************************************************************)

(* Only a process that is up has a task under way, or a plan registered.   *)
LEMMA Awake ==
  ASSUME DownFits, NEW t \in Tasks, task[t].pc # "none"
  PROVE  manager.up
BY IdleIs DEF DownFits

(* While it is up there is nothing to show but the new plan.               *)
LEMMA StaysUp ==
  ASSUME DownFits, manager.up, manager'.up, UNCHANGED plan
  PROVE  DownFits'
BY DEF DownFits

(* A step of one task and one plan keeps it so.                            *)
LEMMA StaysUpToo ==
  ASSUME DownFits, manager.up, manager'.up, NEW p \in Plans, OnlyPlan(p),
         plan'[p].state = "none" => ~plan'[p].staging
  PROVE  DownFits'
BY DEF DownFits, OnlyPlan

(* Every step keeps a process that is down empty, and staging at its plan. *)
LEMMA DownFitsKept ==
  ASSUME Shape, TaskFits, CommitFits, DownFits, [Next]_vars
  PROVE  DownFits'
<1>1. CASE UNCHANGED vars
  BY <1>1 DEF vars, DownFits
<1>2. ASSUME NEW t \in Tasks,
             NotFound(t) \/ CreateBegins(t) \/ CreateRefused(t)
             \/ UploadChecks(t) \/ UploadFails(t) \/ CommitLooks(t)
             \/ CommitWakes(t) \/ AbortWakes(t) \/ CleanupBegins(t)
             \/ Cleaned(t) \/ PruneLooks(t) \/ AbortOpenBegins(t)
             \/ NextPlan(t) \/ NoMorePlans(t)
     PROVE  DownFits'
  BY <1>2, OnlyTasksMove, Awake, StaysUp
<1>3. ASSUME NEW t \in Tasks, create_staging_dir(t) PROVE DownFits'
  BY <1>3, CreatesStaging, Awake, StaysUpToo DEF PlanBecomes, ManagerIs
<1>4. ASSUME NEW t \in Tasks, StagingRejected(t) PROVE DownFits'
  <2>1. task[t].plan \in Plans /\ manager.up
    BY <1>4, StagingRejectedDoes, FitOf, Awake DEF TaskFit, PlanPoints
  <2>2. /\ OnlyPlan(task[t].plan) /\ manager'.up
        /\ plan'[task[t].plan].state = "none" => ~plan'[task[t].plan].staging
    BY <1>4, <2>1, StagingRejectedDoes, NewIs DEF PlanBecomes, CleanupIs, StateKept,
      CleanupKept, DownFits, ManagerIs
  <2> QED
    BY <2>1, <2>2, StaysUpToo
<1>5. ASSUME NEW t \in Tasks, InsertPlan(t) PROVE DownFits'
  <2>1. task[t].plan \in Plans /\ manager.up
    BY <1>5, InsertPlanDoes, FitOf, Awake DEF TaskFit, PlanPoints
  <2>2. /\ OnlyPlan(task[t].plan) /\ manager'.up
        /\ plan'[task[t].plan].state = "none" => ~plan'[task[t].plan].staging
    BY <1>5, <2>1, InsertPlanDoes DEF PlanBecomes, CleanupIs, StateKept, CleanupKept, DownFits
  <2> QED
    BY <2>1, <2>2, StaysUpToo
<1>6. ASSUME NEW t \in Tasks, atomic_replace(t) PROVE DownFits'
  <2>1. task[t].plan \in Plans /\ manager.up
    BY <1>6, StagesFile, FitOf, Awake DEF TaskFit, PlanPoints
  <2>2. /\ OnlyPlan(task[t].plan) /\ manager'.up
        /\ plan'[task[t].plan].state = "none" => ~plan'[task[t].plan].staging
    BY <1>6, <2>1, StagesFile DEF PlanBecomes, CleanupIs, StateKept, CleanupKept, DownFits
  <2> QED
    BY <2>1, <2>2, StaysUpToo
<1>7. ASSUME NEW t \in Tasks, UploadRecords(t) PROVE DownFits'
  <2>1. task[t].plan \in Plans /\ manager.up
    BY <1>7, UploadRecordsDoes, FitOf, Awake DEF TaskFit, PlanPoints
  <2>2. /\ OnlyPlan(task[t].plan) /\ manager'.up
        /\ plan'[task[t].plan].state = "none" => ~plan'[task[t].plan].staging
    BY <1>7, <2>1, UploadRecordsDoes DEF PlanBecomes, CleanupIs, StateKept, CleanupKept,
      DownFits
  <2> QED
    BY <2>1, <2>2, StaysUpToo
<1>8. ASSUME NEW t \in Tasks, CommitDecides(t) PROVE DownFits'
  <2>1. task[t].plan \in Plans /\ manager.up
    BY <1>8, CommitDecidesDoes, FitOf, Awake DEF TaskFit, PlanPoints
  <2>2. CASE UNCHANGED <<plan, manager>>
    BY <2>1, <2>2, StaysUp
  <2>3. CASE plan' # plan \/ manager' # manager
    <3>1. /\ OnlyPlan(task[t].plan) /\ manager'.up
          /\ plan'[task[t].plan].state # "none"
      BY <1>8, <2>1, <2>3, CommitDecidesDoes DEF PlanBecomes, Settles, ManagerIs, Ended
    <3> QED
      BY <2>1, <3>1, StaysUpToo
  <2> QED
    BY <2>2, <2>3
<1>9. ASSUME NEW t \in Tasks, CommitSettles(t) PROVE DownFits'
  <2>1. task[t].plan \in Plans /\ manager.up
    BY <1>9, CommitSettlesDoes, FitOf, Awake DEF TaskFit, PlanPoints
  <2>2. /\ OnlyPlan(task[t].plan) /\ manager'.up
        /\ plan'[task[t].plan].state = "none" => ~plan'[task[t].plan].staging
    BY <1>9, <2>1, CommitSettlesDoes DEF PlanBecomes, CleanupIs, StateKept, CleanupKept,
      DownFits, Settles, ManagerIs
  <2> QED
    BY <2>1, <2>2, StaysUpToo
<1>10. ASSUME NEW t \in Tasks, AbortBegins(t) PROVE DownFits'
  <2>1. task[t].plan \in Plans /\ manager.up
    BY <1>10, AbortBeginsDoes, FitOf, Awake DEF TaskFit, PlanPoints
  <2>2. /\ OnlyPlan(task[t].plan) /\ manager'.up
        /\ plan'[task[t].plan].state = "none" => ~plan'[task[t].plan].staging
    BY <1>10, <2>1, AbortBeginsDoes DEF PlanBecomes, CleanupIs, StateKept, CleanupKept, DownFits
  <2> QED
    BY <2>1, <2>2, StaysUpToo
<1>11. ASSUME NEW t \in Tasks, AbortDecides(t) PROVE DownFits'
  <2>1. task[t].plan \in Plans /\ manager.up
    BY <1>11, AbortDecidesDoes, FitOf, Awake DEF TaskFit, PlanPoints
  <2>2. CASE UNCHANGED <<plan, manager>>
    BY <2>1, <2>2, StaysUp
  <2>3. CASE plan' # plan \/ manager' # manager
    <3>1. /\ OnlyPlan(task[t].plan) /\ manager'.up
          /\ plan'[task[t].plan].state # "none"
      BY <1>11, <2>1, <2>3, AbortDecidesDoes DEF PlanBecomes, Settles, ManagerIs, Ended
    <3> QED
      BY <2>1, <3>1, StaysUpToo
  <2> QED
    BY <2>2, <2>3
<1>12. ASSUME NEW t \in Tasks, CleanupRemoves(t) PROVE DownFits'
  <2>1. task[t].plan \in Plans /\ manager.up
    BY <1>12, CleanupRemovesDoes, FitOf, Awake DEF TaskFit, PlanPoints
  <2>2. /\ OnlyPlan(task[t].plan) /\ manager'.up
        /\ plan'[task[t].plan].state = "none" => ~plan'[task[t].plan].staging
    BY <1>12, <2>1, CleanupRemovesDoes DEF PlanBecomes, CleanupIs, StateKept, CleanupKept,
      DownFits, ManagerIs
  <2> QED
    BY <2>1, <2>2, StaysUpToo
<1>13. ASSUME NEW t \in Tasks, CleanupFails(t) PROVE DownFits'
  <2>1. task[t].plan \in Plans /\ manager.up
    BY <1>13, CleanupFailsDoes, FitOf, Awake DEF TaskFit, PlanPoints
  <2>2. /\ OnlyPlan(task[t].plan) /\ manager'.up
        /\ plan'[task[t].plan].state = "none" => ~plan'[task[t].plan].staging
    BY <1>13, <2>1, CleanupFailsDoes DEF PlanBecomes, CleanupIs, StateKept, CleanupKept,
      DownFits, ManagerIs
  <2> QED
    BY <2>1, <2>2, StaysUpToo
<1>14. ASSUME NEW t \in Tasks, PruneForgets(t) PROVE DownFits'
  BY <1>14, PruneForgetsDoes, Awake DEF SameState, CleanupKept, CleanupIs, DownFits
<1>15. ASSUME NEW t \in Clients, Request(t) PROVE DownFits'
  BY <1>15, RequestDoes, StaysUp DEF Accepted, ManagerIs
<1>16. CASE ReapBegins
  BY <1>16, ReapBeginsDoes, StaysUp
<1>17. CASE ShutdownBegins
  BY <1>17, ShutdownBeginsDoes, StaysUp
<1>18. CASE ShutdownCancels
  BY <1>18, ShutdownCancelsDoes, Awake
  DEF SameState, CleanupKept, CleanupIs, DownFits, Tasks
<1>19. CASE ShutdownDrains
  BY <1>19, ShutdownDrainsDoes, Awake, StaysUp DEF Tasks
<1>20. ASSUME NEW p \in Plans, Overdue(p) \/ Age(p) PROVE DownFits'
  BY <1>20, TimeDoes, StaysUpToo DEF Overdue, Age, StateKept, CleanupKept, PlanBecomes,
    CleanupIs, DownFits
<1>21. CASE Crash
  BY <1>21, CrashDoes DEF Forgotten, DownFits
<1>22. CASE Restart
  BY <1>22, RestartDoes DEF Forgotten, DownFits
<1> QED
  BY <1>1, <1>2, <1>3, <1>4, <1>5, <1>6, <1>7, <1>8, <1>9, <1>10, <1>11,
      <1>12, <1>13, <1>14, <1>15, <1>16, <1>17, <1>18, <1>19, <1>20, <1>21,
      <1>22
  DEF Next, Step, Create, Upload, Commit, Abort, Cleanup, Prune, Loop,
      Shutdown, AtRest

(***************************************************************************)
(* Uploads.                                                                *)
(* An upload holds the activity lock of its plan from its check to its     *)
(* record; whoever takes the plan out of Open has found that lock free.    *)
(***************************************************************************)

(* Outside abort_session, cleanup_session and prune_results a task has no  *)
(* role.                                                                   *)
LEMMA NoRole ==
  ASSUME Shape, TaskFits, NEW t \in Tasks,
         task[t].pc \notin CleanupPoints \cup {"alone", "wait"}
  PROVE  task[t].role = "none"
BY FitOf DEF TaskFit, Shape, TaskRecords, Roles

(* A move of one task that concerns none of the parts below: it takes no   *)
(* lock, no commit, no creation and no staging, and leaves none.           *)
QuietMove(t) ==
  /\ OnlyTask(t) /\ UNCHANGED <<plan, manager>>
  /\ task[t].pc \notin {"none", "apply", "insert", "remove"} /\ task[t].role # "commit"
  /\ task'[t].pc \notin {"stream", "record", "apply", "insert", "remove", "wait"}
  /\ task'[t].role = "none" \/ task'[t].pc \notin {"prune", "forget"}
  /\ task'[t].list \subseteq task[t].list

(* The moves that are.                                                     *)
LEMMA QuietMoves ==
  ASSUME Shape, TaskFits, NEW t \in Tasks,
         NotFound(t) \/ CreateBegins(t) \/ CreateRefused(t)
         \/ UploadFails(t) \/ CommitWakes(t) \/ AbortWakes(t)
         \/ AbortOpenBegins(t) \/ NextPlan(t) \/ NoMorePlans(t)
  PROVE  QuietMove(t)
<1>1. CASE NotFound(t)
  BY <1>1, FitOf, IdleIs, QuietEnds DEF QuietMove, TaskFit, CleanupPoints,
      Rests
<1>2. CASE CreateBegins(t)
  BY <1>2, FitOf, IdleIs, CreateBeginsDoes DEF QuietMove, TaskFit,
      CleanupPoints, Reaches, Advances
<1>3. CASE CreateRefused(t)
  BY <1>3, FitOf, IdleIs, QuietEnds DEF QuietMove, TaskFit, CleanupPoints,
      Rests
<1>4. CASE UploadFails(t)
  BY <1>4, FitOf, IdleIs, QuietEnds DEF QuietMove, TaskFit, CleanupPoints,
      Rests
<1>5. CASE CommitWakes(t)
  BY <1>5, FitOf, IdleIs, CommitWakesDoes DEF QuietMove, TaskFit,
      CleanupPoints, Reaches
<1>6. CASE AbortWakes(t)
  BY <1>6, FitOf, IdleIs, AbortWakesDoes DEF QuietMove, TaskFit,
      CleanupPoints, Reaches
<1>7. CASE AbortOpenBegins(t)
  BY <1>7, FitOf, IdleIs, AbortOpenBeginsDoes DEF QuietMove, TaskFit,
      CleanupPoints, Reaches
<1>8. CASE NextPlan(t)
  BY <1>8, FitOf, IdleIs, NextPlanDoes DEF QuietMove, TaskFit, CleanupPoints,
      Reaches
<1>9. CASE NoMorePlans(t)
  BY <1>9, FitOf, NoRole, IdleIs, NoMorePlansDoes DEF QuietMove, TaskFit,
      CleanupPoints, Reaches, Advances, Rests
<1> QED
  BY <1>1, <1>2, <1>3, <1>4, <1>5, <1>6, <1>7, <1>8, <1>9

(* Task t holds no activity lock afterwards, and plan p either was not     *)
(* open, had its lock free, or stays as it was.                            *)
LEMMA UploadFitsAgain ==
  ASSUME UploadFits, TaskFits, NEW t \in Tasks, OnlyTask(t),
         task'[t].pc \notin {"stream", "record"},
         NEW p \in Plans, OnlyPlan(p),
         \/ plan[p].state # "Open" \/ ActivityUnused(p)
         \/ plan'[p].state = plan[p].state /\ plan[p].staged \subseteq plan'[p].staged
  PROVE  UploadFits'
<1> SUFFICES ASSUME NEW u \in Tasks, task'[u].pc \in {"stream", "record"}
             PROVE  /\ plan'[task'[u].plan].state = "Open"
                    /\ task'[u].pc = "record" =>
                         task'[u].file \subseteq plan'[task'[u].plan].staged
  BY DEF UploadFits, HoldsActivity
<1>1. task'[u] = task[u] /\ task[u].plan \in Plans
  BY FitOf DEF OnlyTask, TaskFit, PlanPoints
<1>2. CASE task[u].plan # p
  BY <1>1, <1>2 DEF UploadFits, HoldsActivity, OnlyPlan
<1>3. CASE task[u].plan = p
  BY <1>1, <1>3 DEF UploadFits, HoldsActivity, ActivityUnused
<1> QED
  BY <1>2, <1>3

(* No task moves, and plans keep their state and their files.              *)
LEMMA UploadFitsStill ==
  ASSUME UploadFits, TaskFits, task' = task, plan' \in [Plans -> PlanRecords],
         \A p \in Plans : plan'[p].state = plan[p].state /\ plan'[p].staged = plan[p].staged
  PROVE  UploadFits'
BY FitOf DEF UploadFits, HoldsActivity, TaskFit, PlanPoints

(* Task t holds no activity lock afterwards.                               *)
LEMMA UploadFitsMoved ==
  ASSUME UploadFits, NEW t \in Tasks, OnlyTask(t), UNCHANGED plan,
         task'[t].pc \notin {"stream", "record"}
  PROVE  UploadFits'
BY DEF UploadFits, HoldsActivity, OnlyTask

(* Every step keeps uploads at open plans.                                 *)
LEMMA UploadFitsKept ==
  ASSUME Shape, TaskFits, PlanFits, DownFits, PermitFits, UploadFits,
      CommitFits, CleanupFits, [Next]_vars
  PROVE  UploadFits'
<1>1. CASE UNCHANGED vars
  BY <1>1 DEF vars, UploadFits, HoldsActivity
<1>2. ASSUME NEW t \in Tasks,
             NotFound(t) \/ CreateBegins(t) \/ CreateRefused(t)
             \/ UploadFails(t) \/ CommitWakes(t) \/ AbortWakes(t)
             \/ AbortOpenBegins(t) \/ NextPlan(t) \/ NoMorePlans(t)
     PROVE  UploadFits'
  BY <1>2, QuietMoves, UploadFitsMoved DEF QuietMove
<1>3. ASSUME NEW t \in Tasks, create_staging_dir(t) PROVE UploadFits'
  BY <1>3, CreatesStaging, UploadFitsAgain, NewIs DEF PlanBecomes, Reaches
<1>4. ASSUME NEW t \in Tasks, StagingRejected(t) PROVE UploadFits'
  <2>1. task[t].plan \in Plans
    BY <1>4, StagingRejectedDoes, FitOf DEF TaskFit, PlanPoints
  <2>2. /\ OnlyPlan(task[t].plan) /\ OnlyTask(t) /\ task'[t].pc \notin {"stream", "record"}
        /\ \/ plan[task[t].plan].state # "Open"
           \/ /\ plan'[task[t].plan].state = plan[task[t].plan].state
              /\ plan[task[t].plan].staged \subseteq plan'[task[t].plan].staged
    BY <1>4, <2>1, StagingRejectedDoes, IdleIs
    DEF PlanBecomes, CleanupIs, StateKept, CleanupKept, Rests, PermitFits, Creates
  <2> QED
    BY <2>1, <2>2, UploadFitsAgain
<1>5. ASSUME NEW t \in Tasks, InsertPlan(t) PROVE UploadFits'
  <2>1. task[t].plan \in Plans
    BY <1>5, InsertPlanDoes, FitOf DEF TaskFit, PlanPoints
  <2>2. /\ OnlyPlan(task[t].plan) /\ OnlyTask(t) /\ task'[t].pc \notin {"stream", "record"}
        /\ \/ plan[task[t].plan].state # "Open"
           \/ /\ plan'[task[t].plan].state = plan[task[t].plan].state
              /\ plan[task[t].plan].staged \subseteq plan'[task[t].plan].staged
    BY <1>5, <2>1, InsertPlanDoes, IdleIs
    DEF PlanBecomes, CleanupIs, StateKept, CleanupKept, Rests, PermitFits, Creates
  <2> QED
    BY <2>1, <2>2, UploadFitsAgain
<1>6. ASSUME NEW t \in Tasks, UploadChecks(t) PROVE UploadFits'
  BY <1>6, UploadChecksDoes, UploadFitsMoved, IdleIs
  DEF Advances, Reaches, Rests, UploadFits, HoldsActivity, OnlyTask
<1>7. ASSUME NEW t \in Tasks, atomic_replace(t) PROVE UploadFits'
  <2> DEFINE p == task[t].plan
  <2>1. p \in Plans /\ plan[p].state = "Open" /\ plan[p].staging
    BY <1>7, StagesFile, FitOf, PlanFitOf
    DEF TaskFit, PlanPoints, UploadFits, HoldsActivity, PlanFit, Active
  <2>2. /\ OnlyPlan(p) /\ OnlyTask(t) /\ task'[t].plan = p /\ task'[t].file = task[t].file
        /\ plan'[p].state = "Open" /\ plan'[p].staged = plan[p].staged \cup task[t].file
    BY <1>7, <2>1, StagesFile
    DEF PlanBecomes, CleanupIs, StateKept, Advances, Reaches
  <2>3. ASSUME NEW u \in Tasks, task'[u].pc \in {"stream", "record"}
       PROVE  /\ plan'[task'[u].plan].state = "Open"
              /\ task'[u].pc = "record" =>
                   task'[u].file \subseteq plan'[task'[u].plan].staged
    <3>1. CASE u = t
      BY <2>2, <3>1
    <3>2. CASE u # t
      <4>1. task'[u] = task[u] /\ task[u].plan \in Plans
        BY <2>2, <2>3, <3>2, FitOf DEF OnlyTask, TaskFit, PlanPoints
      <4>2. /\ plan[task[u].plan].state = "Open"
            /\ task[u].pc = "record" => task[u].file \subseteq plan[task[u].plan].staged
        BY <2>3, <4>1 DEF UploadFits, HoldsActivity
      <4> QED
        BY <2>2, <4>1, <4>2 DEF OnlyPlan
    <3> QED
      BY <3>1, <3>2
  <2> QED
    BY <2>3 DEF UploadFits, HoldsActivity
<1>8. ASSUME NEW t \in Tasks, UploadRecords(t) PROVE UploadFits'
  <2>1. task[t].plan \in Plans
    BY <1>8, UploadRecordsDoes, FitOf DEF TaskFit, PlanPoints
  <2>2. /\ OnlyPlan(task[t].plan) /\ OnlyTask(t) /\ task'[t].pc \notin {"stream", "record"}
        /\ \/ plan[task[t].plan].state # "Open"
           \/ /\ plan'[task[t].plan].state = plan[task[t].plan].state
              /\ plan[task[t].plan].staged \subseteq plan'[task[t].plan].staged
    BY <1>8, <2>1, UploadRecordsDoes, IdleIs
    DEF PlanBecomes, CleanupIs, StateKept, CleanupKept, Rests
  <2> QED
    BY <2>1, <2>2, UploadFitsAgain
<1>9. ASSUME NEW t \in Tasks, CommitDecides(t) PROVE UploadFits'
  <2>1. /\ task[t].plan \in Plans /\ ActivityUnused(task[t].plan)
        /\ OnlyTask(t) /\ task'[t].pc \notin {"stream", "record"}
    BY <1>9, CommitDecidesDoes, FitOf, IdleIs DEF TaskFit, PlanPoints, Advances, Reaches, Rests
  <2>2. CASE UNCHANGED plan
    BY <2>1, <2>2, UploadFitsMoved
  <2>3. CASE plan' # plan
    <3>1. OnlyPlan(task[t].plan)
      BY <1>9, <2>1, <2>3, CommitDecidesDoes DEF PlanBecomes, Settles
    <3> QED
      BY <2>1, <3>1, UploadFitsAgain
  <2> QED
    BY <2>2, <2>3
<1>10. ASSUME NEW t \in Tasks, CommitSettles(t) PROVE UploadFits'
  <2>1. task[t].plan \in Plans
    BY <1>10, CommitSettlesDoes, FitOf DEF TaskFit, PlanPoints
  <2>2. /\ OnlyPlan(task[t].plan) /\ OnlyTask(t) /\ task'[t].pc \notin {"stream", "record"}
        /\ \/ plan[task[t].plan].state # "Open"
           \/ /\ plan'[task[t].plan].state = plan[task[t].plan].state
              /\ plan[task[t].plan].staged \subseteq plan'[task[t].plan].staged
    BY <1>10, <2>1, CommitSettlesDoes, IdleIs
    DEF PlanBecomes, CleanupIs, StateKept, CleanupKept, Reaches, Settles, CommitFits
  <2> QED
    BY <2>1, <2>2, UploadFitsAgain
<1>11. ASSUME NEW t \in Tasks, CommitLooks(t) PROVE UploadFits'
  BY <1>11, CommitLooksDoes, UploadFitsMoved, IdleIs DEF Advances, Reaches, Rests
<1>12. ASSUME NEW t \in Tasks, AbortBegins(t) PROVE UploadFits'
  <2>1. task[t].plan \in Plans
    BY <1>12, AbortBeginsDoes, FitOf DEF TaskFit, PlanPoints
  <2>2. /\ OnlyPlan(task[t].plan) /\ OnlyTask(t) /\ task'[t].pc \notin {"stream", "record"}
        /\ \/ plan[task[t].plan].state # "Open"
           \/ /\ plan'[task[t].plan].state = plan[task[t].plan].state
              /\ plan[task[t].plan].staged \subseteq plan'[task[t].plan].staged
    BY <1>12, <2>1, AbortBeginsDoes, IdleIs
    DEF PlanBecomes, CleanupIs, StateKept, CleanupKept, Reaches
  <2> QED
    BY <2>1, <2>2, UploadFitsAgain
<1>13. ASSUME NEW t \in Tasks, AbortDecides(t) PROVE UploadFits'
  <2>1. /\ task[t].plan \in Plans /\ ActivityUnused(task[t].plan)
        /\ OnlyTask(t) /\ task'[t].pc \notin {"stream", "record"}
    BY <1>13, AbortDecidesDoes, FitOf, IdleIs DEF TaskFit, PlanPoints, Advances, Reaches, Rests
  <2>2. CASE UNCHANGED plan
    BY <2>1, <2>2, UploadFitsMoved
  <2>3. CASE plan' # plan
    <3>1. OnlyPlan(task[t].plan)
      BY <1>13, <2>1, <2>3, AbortDecidesDoes DEF PlanBecomes, Settles
    <3> QED
      BY <2>1, <3>1, UploadFitsAgain
  <2> QED
    BY <2>2, <2>3
<1>14. ASSUME NEW t \in Tasks, CleanupBegins(t) PROVE UploadFits'
  BY <1>14, CleanupBeginsDoes, UploadFitsMoved, IdleIs DEF Advances, Reaches, Rests
<1>15. ASSUME NEW t \in Tasks, CleanupRemoves(t) PROVE UploadFits'
  <2>1. task[t].plan \in Plans
    BY <1>15, CleanupRemovesDoes, FitOf DEF TaskFit, PlanPoints
  <2>2. /\ OnlyPlan(task[t].plan) /\ OnlyTask(t) /\ task'[t].pc \notin {"stream", "record"}
        /\ \/ plan[task[t].plan].state # "Open"
           \/ /\ plan'[task[t].plan].state = plan[task[t].plan].state
              /\ plan[task[t].plan].staged \subseteq plan'[task[t].plan].staged
    BY <1>15, <2>1, CleanupRemovesDoes, PlanFitOf, IdleIs
    DEF PlanBecomes, CleanupIs, StateKept, CleanupKept, Reaches, Advances, CleanupFits,
      PlanFit, Active, Ended
  <2> QED
    BY <2>1, <2>2, UploadFitsAgain
<1>16. ASSUME NEW t \in Tasks, CleanupFails(t) PROVE UploadFits'
  <2>1. task[t].plan \in Plans
    BY <1>16, CleanupFailsDoes, FitOf DEF TaskFit, PlanPoints
  <2>2. /\ OnlyPlan(task[t].plan) /\ OnlyTask(t) /\ task'[t].pc \notin {"stream", "record"}
        /\ \/ plan[task[t].plan].state # "Open"
           \/ /\ plan'[task[t].plan].state = plan[task[t].plan].state
              /\ plan[task[t].plan].staged \subseteq plan'[task[t].plan].staged
    BY <1>16, <2>1, CleanupFailsDoes, PlanFitOf, IdleIs
    DEF PlanBecomes, CleanupIs, StateKept, CleanupKept, Reaches, CleanupFits, PlanFit, Active,
      Ended
  <2> QED
    BY <2>1, <2>2, UploadFitsAgain
<1>17. ASSUME NEW t \in Tasks, Cleaned(t) PROVE UploadFits'
  BY <1>17, CleanedDoes, IdleIs DEF Told, UploadFits, HoldsActivity
<1>18. ASSUME NEW t \in Tasks, PruneLooks(t) PROVE UploadFits'
  BY <1>18, PruneLooksDoes, UploadFitsMoved, IdleIs DEF Advances, Reaches, Rests, Prunes
<1>19. ASSUME NEW t \in Tasks, PruneForgets(t) PROVE UploadFits'
  <2>1. OnlyTask(t) /\ task'[t].pc \notin {"stream", "record"}
    BY <1>19, PruneForgetsDoes, IdleIs DEF Prunes, Reaches, Rests
  <2>2. \A p \in Plans : plan'[p].state = plan[p].state /\ plan'[p].staged = plan[p].staged
    BY <1>19, PruneForgetsDoes DEF SameState, CleanupKept, CleanupIs
  <2> QED
    BY <2>1, <2>2, FitOf DEF UploadFits, HoldsActivity, OnlyTask, TaskFit, PlanPoints
<1>20. ASSUME NEW t \in Clients, Request(t) PROVE UploadFits'
  BY <1>20, RequestDoes, UploadFitsMoved DEF Accepted, Tasks
<1>21. CASE ReapBegins
  BY <1>21, ReapBeginsDoes, UploadFitsMoved DEF Tasks
<1>22. CASE ShutdownBegins
  BY <1>22, ShutdownBeginsDoes, UploadFitsMoved DEF Tasks
<1>23. CASE ShutdownCancels
  <2>1. OnlyTask(Closer) /\ task'[Closer].pc \notin {"stream", "record"}
    BY <1>23, ShutdownCancelsDoes DEF Advances, Reaches
  <2>2. \A p \in Plans : plan'[p].state = plan[p].state /\ plan'[p].staged = plan[p].staged
    BY <1>23, ShutdownCancelsDoes DEF SameState, CleanupKept, CleanupIs
  <2> QED
    BY <2>1, <2>2, FitOf DEF UploadFits, HoldsActivity, OnlyTask, TaskFit, PlanPoints
<1>24. CASE ShutdownDrains
  BY <1>24, ShutdownDrainsDoes, UploadFitsMoved DEF Tasks, Reaches
<1>25. ASSUME NEW p \in Plans, Overdue(p) \/ Age(p) PROVE UploadFits'
  BY <1>25, TimeDoes, UploadFitsStill
  DEF StateKept, CleanupKept, PlanBecomes, CleanupIs, OnlyPlan
<1>26. CASE Crash
  BY <1>26, CrashDoes, IdleIs DEF UploadFits, HoldsActivity
<1>27. CASE Restart
  BY <1>27, RestartDoes, IdleIs DEF UploadFits, HoldsActivity, DownFits
<1> QED
  BY <1>1, <1>2, <1>3, <1>4, <1>5, <1>6, <1>7, <1>8, <1>9, <1>10, <1>11,
      <1>12, <1>13, <1>14, <1>15, <1>16, <1>17, <1>18, <1>19, <1>20, <1>21,
      <1>22, <1>23, <1>24, <1>25, <1>26, <1>27
  DEF Next, Step, Create, Upload, Commit, Abort, Cleanup, Prune, Loop,
      Shutdown, AtRest

(***************************************************************************)
(* Commits.                                                                *)
(* A plan is Committing exactly while one task applies it.                 *)
(***************************************************************************)

(* Task t moves and does not apply.                                        *)
LEMMA CommitFitsMoved ==
  ASSUME CommitFits, NEW t \in Tasks, OnlyTask(t), UNCHANGED plan,
         task[t].pc # "apply", task'[t].pc # "apply"
  PROVE  CommitFits'
BY DEF CommitFits, OnlyTask

(* Nor does plan p begin or end to commit.                                 *)
LEMMA CommitFitsAgain ==
  ASSUME CommitFits, TaskFits, NEW t \in Tasks, OnlyTask(t),
         task[t].pc # "apply", task'[t].pc # "apply", NEW p \in Plans, OnlyPlan(p),
         plan[p].state = "Committing" <=> plan'[p].state = "Committing"
  PROVE  CommitFits'
<1>1. \A u \in Tasks : task[u].pc = "apply" => task[u].plan \in Plans
  BY FitOf DEF TaskFit, PlanPoints
<1>2. \A u \in Tasks : /\ task'[u].pc = "apply" => task'[u] = task[u]
                       /\ task[u].pc = "apply" => task'[u] = task[u]
  BY DEF OnlyTask
<1>3. \A q \in Plans : plan'[q].state = "Committing" <=> plan[q].state = "Committing"
  BY DEF OnlyPlan
<1> QED
  BY <1>1, <1>2, <1>3 DEF CommitFits

(* Whoever applies goes on.                                                *)
LEMMA CommitFitsStill ==
  ASSUME CommitFits, TaskFits,
         \A u \in Tasks : /\ task'[u].pc = "apply" <=> task[u].pc = "apply"
                          /\ task[u].pc = "apply" => task'[u].plan = task[u].plan,
         \A p \in Plans : plan'[p].state = plan[p].state
  PROVE  CommitFits'
<1>1. \A u \in Tasks : task[u].pc = "apply" => task[u].plan \in Plans
  BY FitOf DEF TaskFit, PlanPoints
<1> QED
  BY <1>1 DEF CommitFits

(* Every step keeps a committing plan in one task.                         *)
LEMMA CommitFitsKept ==
  ASSUME Shape, TaskFits, DownFits, PermitFits, CommitFits, CloserFits,
      [Next]_vars
  PROVE  CommitFits'
<1>1. CASE UNCHANGED vars
  BY <1>1 DEF vars, CommitFits
<1>2. ASSUME NEW t \in Tasks,
             NotFound(t) \/ CreateBegins(t) \/ CreateRefused(t)
             \/ UploadFails(t) \/ CommitWakes(t) \/ AbortWakes(t)
             \/ AbortOpenBegins(t) \/ NextPlan(t) \/ NoMorePlans(t)
     PROVE  CommitFits'
  BY <1>2, QuietMoves, CommitFitsMoved DEF QuietMove
<1>3. ASSUME NEW t \in Tasks, create_staging_dir(t) PROVE CommitFits'
  BY <1>3, CreatesStaging, CommitFitsAgain, NewIs DEF PlanBecomes, Reaches
<1>4. ASSUME NEW t \in Tasks, StagingRejected(t) PROVE CommitFits'
  <2>1. task[t].plan \in Plans
    BY <1>4, StagingRejectedDoes, FitOf DEF TaskFit, PlanPoints
  <2>2. /\ OnlyPlan(task[t].plan) /\ OnlyTask(t)
        /\ task[t].pc # "apply" /\ task'[t].pc # "apply"
        /\ plan[task[t].plan].state = "Committing" <=>
              plan'[task[t].plan].state = "Committing"
    BY <1>4, <2>1, StagingRejectedDoes, NewIs, IdleIs
    DEF PlanBecomes, StateKept, Rests, PermitFits, Creates
  <2> QED
    BY <2>1, <2>2, CommitFitsAgain
<1>5. ASSUME NEW t \in Tasks, InsertPlan(t) PROVE CommitFits'
  <2>1. task[t].plan \in Plans
    BY <1>5, InsertPlanDoes, FitOf DEF TaskFit, PlanPoints
  <2>2. /\ OnlyPlan(task[t].plan) /\ OnlyTask(t)
        /\ task[t].pc # "apply" /\ task'[t].pc # "apply"
        /\ plan[task[t].plan].state = "Committing" <=>
              plan'[task[t].plan].state = "Committing"
    BY <1>5, <2>1, InsertPlanDoes, IdleIs
    DEF PlanBecomes, StateKept, Rests, PermitFits, Creates
  <2> QED
    BY <2>1, <2>2, CommitFitsAgain
<1>6. ASSUME NEW t \in Tasks, UploadChecks(t) PROVE CommitFits'
  BY <1>6, UploadChecksDoes, CommitFitsMoved, IdleIs DEF Advances, Reaches, Rests
<1>7. ASSUME NEW t \in Tasks, atomic_replace(t) PROVE CommitFits'
  <2>1. task[t].plan \in Plans
    BY <1>7, StagesFile, FitOf DEF TaskFit, PlanPoints
  <2>2. /\ OnlyPlan(task[t].plan) /\ OnlyTask(t)
        /\ task[t].pc # "apply" /\ task'[t].pc # "apply"
        /\ plan[task[t].plan].state = "Committing" <=>
              plan'[task[t].plan].state = "Committing"
    BY <1>7, <2>1, StagesFile, IdleIs
    DEF PlanBecomes, StateKept, Advances, Reaches
  <2> QED
    BY <2>1, <2>2, CommitFitsAgain
<1>8. ASSUME NEW t \in Tasks, UploadRecords(t) PROVE CommitFits'
  <2>1. task[t].plan \in Plans
    BY <1>8, UploadRecordsDoes, FitOf DEF TaskFit, PlanPoints
  <2>2. /\ OnlyPlan(task[t].plan) /\ OnlyTask(t)
        /\ task[t].pc # "apply" /\ task'[t].pc # "apply"
        /\ plan[task[t].plan].state = "Committing" <=>
              plan'[task[t].plan].state = "Committing"
    BY <1>8, <2>1, UploadRecordsDoes, IdleIs
    DEF PlanBecomes, StateKept, Rests
  <2> QED
    BY <2>1, <2>2, CommitFitsAgain
<1>9. ASSUME NEW t \in Tasks, CommitDecides(t) PROVE CommitFits'
  <2>1. /\ task[t].plan \in Plans /\ OnlyTask(t) /\ task[t].pc # "apply"
    BY <1>9, CommitDecidesDoes, FitOf DEF TaskFit, Advances, Reaches, Rests
  <2>2. CASE UNCHANGED plan /\ task'[t].pc # "apply"
    BY <2>1, <2>2, CommitFitsMoved
  <2>3. CASE ~(UNCHANGED plan /\ task'[t].pc # "apply")
    <3> DEFINE p == task[t].plan
    <3>1. /\ plan[p].state = "Open" /\ OnlyPlan(p) /\ plan'[p].state = "Committing"
          /\ task'[t].pc = "apply" /\ task'[t].plan = p
      BY <1>9, <2>3, CommitDecidesDoes, IdleIs DEF Advances, Reaches, Rests, PlanBecomes
    <3>2. \A u \in Tasks \ {t} : /\ task'[u] = task[u]
                                 /\ task[u].pc = "apply" => task[u].plan # p
                                 /\ task[u].pc = "apply" => task[u].plan \in Plans
      BY <2>1, <3>1, FitOf DEF OnlyTask, CommitFits, TaskFit, PlanPoints
    <3>3. \A q \in Plans \ {p} : plan'[q] = plan[q]
      BY <3>1 DEF OnlyPlan
    <3> QED
      BY <2>1, <3>1, <3>2, <3>3 DEF CommitFits
  <2> QED
    BY <2>2, <2>3
<1>10. ASSUME NEW t \in Tasks, CommitSettles(t) PROVE CommitFits'
  <2> DEFINE p == task[t].plan
  <2>1. /\ p \in Plans /\ OnlyTask(t) /\ task[t].pc = "apply" /\ task'[t].pc # "apply"
        /\ OnlyPlan(p) /\ plan'[p].state # "Committing"
    BY <1>10, CommitSettlesDoes, FitOf
    DEF TaskFit, PlanPoints, Reaches, Settles, PlanBecomes
  <2>2. \A u \in Tasks \ {t} : /\ task'[u] = task[u]
                               /\ task[u].pc = "apply" => task[u].plan # p
                               /\ task[u].pc = "apply" => task[u].plan \in Plans
    BY <2>1, FitOf DEF OnlyTask, CommitFits, TaskFit, PlanPoints
  <2>3. \A q \in Plans \ {p} : plan'[q] = plan[q]
    BY <2>1 DEF OnlyPlan
  <2> QED
    BY <2>1, <2>2, <2>3 DEF CommitFits
<1>11. ASSUME NEW t \in Tasks, CommitLooks(t) PROVE CommitFits'
  BY <1>11, CommitLooksDoes, CommitFitsMoved, IdleIs DEF Advances, Reaches, Rests
<1>12. ASSUME NEW t \in Tasks, AbortBegins(t) PROVE CommitFits'
  <2>1. task[t].plan \in Plans
    BY <1>12, AbortBeginsDoes, FitOf DEF TaskFit, PlanPoints
  <2>2. /\ OnlyPlan(task[t].plan) /\ OnlyTask(t)
        /\ task[t].pc # "apply" /\ task'[t].pc # "apply"
        /\ plan[task[t].plan].state = "Committing" <=>
              plan'[task[t].plan].state = "Committing"
    BY <1>12, <2>1, AbortBeginsDoes, IdleIs
    DEF PlanBecomes, StateKept, Reaches
  <2> QED
    BY <2>1, <2>2, CommitFitsAgain
<1>13. ASSUME NEW t \in Tasks, AbortDecides(t) PROVE CommitFits'
  <2>1. /\ task[t].plan \in Plans /\ OnlyTask(t)
        /\ task[t].pc # "apply" /\ task'[t].pc # "apply"
    BY <1>13, AbortDecidesDoes, FitOf DEF TaskFit, PlanPoints, Advances, Reaches
  <2>2. CASE UNCHANGED plan
    BY <2>1, <2>2, CommitFitsMoved
  <2>3. CASE plan' # plan
    <3>1. /\ OnlyPlan(task[t].plan)
          /\ plan[task[t].plan].state # "Committing"
          /\ plan'[task[t].plan].state # "Committing"
      BY <1>13, <2>1, <2>3, AbortDecidesDoes DEF PlanBecomes, Settles, Ended
    <3> QED
      BY <2>1, <3>1, CommitFitsAgain
  <2> QED
    BY <2>2, <2>3
<1>14. ASSUME NEW t \in Tasks, CleanupBegins(t) PROVE CommitFits'
  BY <1>14, CleanupBeginsDoes, CommitFitsMoved, IdleIs DEF Advances, Reaches, Rests
<1>15. ASSUME NEW t \in Tasks, CleanupRemoves(t) PROVE CommitFits'
  <2>1. task[t].plan \in Plans
    BY <1>15, CleanupRemovesDoes, FitOf DEF TaskFit, PlanPoints
  <2>2. /\ OnlyPlan(task[t].plan) /\ OnlyTask(t)
        /\ task[t].pc # "apply" /\ task'[t].pc # "apply"
        /\ plan[task[t].plan].state = "Committing" <=>
              plan'[task[t].plan].state = "Committing"
    BY <1>15, <2>1, CleanupRemovesDoes, IdleIs
    DEF PlanBecomes, StateKept, Reaches, Advances
  <2> QED
    BY <2>1, <2>2, CommitFitsAgain
<1>16. ASSUME NEW t \in Tasks, CleanupFails(t) PROVE CommitFits'
  <2>1. task[t].plan \in Plans
    BY <1>16, CleanupFailsDoes, FitOf DEF TaskFit, PlanPoints
  <2>2. /\ OnlyPlan(task[t].plan) /\ OnlyTask(t)
        /\ task[t].pc # "apply" /\ task'[t].pc # "apply"
        /\ plan[task[t].plan].state = "Committing" <=>
              plan'[task[t].plan].state = "Committing"
    BY <1>16, <2>1, CleanupFailsDoes, IdleIs
    DEF PlanBecomes, StateKept, Reaches
  <2> QED
    BY <2>1, <2>2, CommitFitsAgain
<1>17. ASSUME NEW t \in Tasks, Cleaned(t) PROVE CommitFits'
  BY <1>17, CleanedDoes, IdleIs, CommitFitsStill DEF Told
<1>18. ASSUME NEW t \in Tasks, PruneLooks(t) PROVE CommitFits'
  BY <1>18, PruneLooksDoes, CommitFitsMoved, IdleIs DEF Advances, Reaches, Rests, Prunes
<1>19. ASSUME NEW t \in Tasks, PruneForgets(t) PROVE CommitFits'
  BY <1>19, PruneForgetsDoes, IdleIs, CommitFitsStill
  DEF Prunes, Reaches, Rests, OnlyTask, SameState
<1>20. ASSUME NEW t \in Clients, Request(t) PROVE CommitFits'
  BY <1>20, RequestDoes, IdleIs, CommitFitsMoved DEF Accepted, Tasks
<1>21. CASE ReapBegins
  BY <1>21, ReapBeginsDoes, IdleIs, CommitFitsMoved DEF Tasks
<1>22. CASE ShutdownBegins
  BY <1>22, ShutdownBeginsDoes, IdleIs, CommitFitsMoved DEF CloserFits, Tasks
<1>23. CASE ShutdownCancels
  BY <1>23, ShutdownCancelsDoes, CommitFitsStill
  DEF Advances, Reaches, OnlyTask, SameState
<1>24. CASE ShutdownDrains
  BY <1>24, ShutdownDrainsDoes, CommitFitsMoved DEF Tasks, Reaches
<1>25. ASSUME NEW p \in Plans, Overdue(p) \/ Age(p) PROVE CommitFits'
  BY <1>25, TimeDoes, CommitFitsStill DEF StateKept, PlanBecomes, OnlyPlan
<1>26. CASE Crash
  BY <1>26, CrashDoes, IdleIs DEF CommitFits, Forgotten
<1>27. CASE Restart
  BY <1>27, RestartDoes, IdleIs DEF CommitFits, Forgotten, DownFits
<1> QED
  BY <1>1, <1>2, <1>3, <1>4, <1>5, <1>6, <1>7, <1>8, <1>9, <1>10, <1>11,
      <1>12, <1>13, <1>14, <1>15, <1>16, <1>17, <1>18, <1>19, <1>20, <1>21,
      <1>22, <1>23, <1>24, <1>25, <1>26, <1>27
  DEF Next, Step, Create, Upload, Commit, Abort, Cleanup, Prune, Loop,
      Shutdown, AtRest

(***************************************************************************)
(* Cleanup.                                                                *)
(* One task at a time removes the staging of a plan, and prune_results has *)
(* only plans in hand that are clean.                                      *)
(***************************************************************************)

(* Task t moves into the cleanup of a free plan, or out of it.             *)
LEMMA CleanupFitsMoved ==
  ASSUME CleanupFits, NEW t \in Tasks, OnlyTask(t), UNCHANGED plan,
         task'[t].pc = "remove" => plan[task'[t].plan].cleanup_pending,
         InCleanup(t)' => \/ CleanupFree(task'[t].plan)
                          \/ InCleanup(t) /\ task'[t].plan = task[t].plan,
         \A q \in Plans : q \in task'[t].list =>
           q \in task[t].list \/ (plan[q].state \in Ended /\ ~plan[q].cleanup_pending)
  PROVE  CleanupFits'
<1>1. \A u \in Tasks \ {t} : task'[u] = task[u]
  BY DEF OnlyTask
<1>2. \A u \in Tasks : task'[u].pc = "remove" => plan'[task'[u].plan].cleanup_pending
  BY <1>1 DEF CleanupFits
<1>3. \A u, v \in Tasks :
        InCleanup(u)' /\ InCleanup(v)' /\ task'[u].plan = task'[v].plan => u = v
  BY <1>1 DEF CleanupFits, CleanupFree, InCleanup
<1>4. \A u \in Tasks, q \in Plans : q \in task'[u].list =>
        plan'[q].state \in Ended /\ ~plan'[q].cleanup_pending
  BY <1>1 DEF CleanupFits
<1> QED
  BY <1>2, <1>3, <1>4 DEF CleanupFits

(* Task t stays in its cleanup or leaves it, and plan p changes.           *)
LEMMA CleanupFitsAgain ==
  ASSUME CleanupFits, TaskFits, NEW t \in Tasks, OnlyTask(t), task'[t].pc # "remove",
         InCleanup(t)' => InCleanup(t) /\ task'[t].plan = task[t].plan,
         task'[t].list \subseteq task[t].list, NEW p \in Plans, OnlyPlan(p),
         \/ plan[p].state \notin Ended \/ plan[p].cleanup_pending
         \/ plan'[p].state \in Ended /\ ~plan'[p].cleanup_pending,
         \/ plan[p].cleanup_pending => plan'[p].cleanup_pending
         \/ InCleanup(t) /\ task[t].plan = p
  PROVE  CleanupFits'
<1>1. \A u \in Tasks \ {t} : task'[u] = task[u]
  BY DEF OnlyTask
<1>2. \A q \in Plans \ {p} : plan'[q] = plan[q]
  BY DEF OnlyPlan
<1>3. \A u \in Tasks : task[u].pc = "remove" => task[u].plan \in Plans /\ InCleanup(u)
  BY FitOf DEF TaskFit, PlanPoints, InCleanup
<1>4. \A u \in Tasks : task'[u].pc = "remove" => plan'[task'[u].plan].cleanup_pending
  BY <1>1, <1>2, <1>3 DEF CleanupFits
<1>5. \A u, v \in Tasks :
        InCleanup(u)' /\ InCleanup(v)' /\ task'[u].plan = task'[v].plan => u = v
  BY <1>1 DEF CleanupFits, InCleanup
<1>6. \A u \in Tasks, q \in Plans : q \in task'[u].list =>
        plan'[q].state \in Ended /\ ~plan'[q].cleanup_pending
  BY <1>1, <1>2 DEF CleanupFits
<1> QED
  BY <1>4, <1>5, <1>6 DEF CleanupFits

(* Nobody takes up a cleanup.                                              *)
LEMMA CleanupFitsStill ==
  ASSUME CleanupFits, TaskFits,
         \A u \in Tasks : /\ task'[u].pc = "remove" =>
                                task[u].pc = "remove" /\ task'[u].plan = task[u].plan
                          /\ InCleanup(u)' => InCleanup(u) /\ task'[u].plan = task[u].plan
                          /\ task'[u].list \subseteq task[u].list,
         \A p \in Plans : /\ plan'[p].state = plan[p].state
                          /\ plan'[p].cleanup_pending = plan[p].cleanup_pending
  PROVE  CleanupFits'
<1>1. \A u \in Tasks : task[u].pc = "remove" => task[u].plan \in Plans
  BY FitOf DEF TaskFit, PlanPoints
<1> QED
  BY <1>1 DEF CleanupFits

(* Every step keeps cleanup one at a time, of what is owed.                *)
LEMMA CleanupFitsKept ==
  ASSUME Shape, TaskFits, PlanFits, DownFits, PermitFits, CommitFits,
      CleanupFits, [Next]_vars
  PROVE  CleanupFits'
<1>1. CASE UNCHANGED vars
  BY <1>1 DEF vars, CleanupFits, InCleanup
<1>2. ASSUME NEW t \in Tasks,
             NotFound(t) \/ CreateBegins(t) \/ CreateRefused(t)
             \/ UploadFails(t) \/ CommitWakes(t) \/ AbortWakes(t)
             \/ AbortOpenBegins(t) \/ NextPlan(t) \/ NoMorePlans(t)
     PROVE  CleanupFits'
  BY <1>2, QuietMoves, CleanupFitsMoved DEF QuietMove, InCleanup
<1>3. ASSUME NEW t \in Tasks, create_staging_dir(t) PROVE CleanupFits'
  BY <1>3, CreatesStaging, CleanupFitsAgain, NewIs
  DEF PlanBecomes, CleanupIs, Reaches, InCleanup, Ended
<1>4. ASSUME NEW t \in Tasks, StagingRejected(t) PROVE CleanupFits'
  <2> DEFINE p == task[t].plan
  <2>1. p \in Plans
    BY <1>4, StagingRejectedDoes, FitOf DEF TaskFit, PlanPoints
  <2>2. /\ OnlyTask(t) /\ task'[t].pc # "remove" /\ task'[t].list \subseteq task[t].list
        /\ InCleanup(t)' => InCleanup(t) /\ task'[t].plan = p
    BY <1>4, StagingRejectedDoes, IdleIs, FitOf DEF Advances, Reaches, Rests, InCleanup, TaskFit
  <2>3. /\ OnlyPlan(p)
        /\ \/ plan[p].state \notin Ended \/ plan[p].cleanup_pending
           \/ plan'[p].state \in Ended /\ ~plan'[p].cleanup_pending
        /\ \/ plan[p].cleanup_pending => plan'[p].cleanup_pending
           \/ InCleanup(t)
    BY <1>4, <2>1, StagingRejectedDoes, NewIs, PlanFitOf
    DEF PlanBecomes, StateKept, CleanupIs, CleanupKept, PermitFits, Creates, PlanFit, Ended
  <2> QED
    BY <2>1, <2>2, <2>3, CleanupFitsAgain
<1>5. ASSUME NEW t \in Tasks, InsertPlan(t) PROVE CleanupFits'
  <2> DEFINE p == task[t].plan
  <2>1. p \in Plans
    BY <1>5, InsertPlanDoes, FitOf DEF TaskFit, PlanPoints
  <2>2. /\ OnlyTask(t) /\ task'[t].pc # "remove" /\ task'[t].list \subseteq task[t].list
        /\ InCleanup(t)' => InCleanup(t) /\ task'[t].plan = p
    BY <1>5, InsertPlanDoes, IdleIs, FitOf DEF Advances, Reaches, Rests, InCleanup, TaskFit
  <2>3. /\ OnlyPlan(p)
        /\ \/ plan[p].state \notin Ended \/ plan[p].cleanup_pending
           \/ plan'[p].state \in Ended /\ ~plan'[p].cleanup_pending
        /\ \/ plan[p].cleanup_pending => plan'[p].cleanup_pending
           \/ InCleanup(t)
    BY <1>5, <2>1, InsertPlanDoes, PlanFitOf
    DEF PlanBecomes, StateKept, CleanupIs, CleanupKept, PermitFits, Creates, PlanFit, Ended
  <2> QED
    BY <2>1, <2>2, <2>3, CleanupFitsAgain
<1>6. ASSUME NEW t \in Tasks, UploadChecks(t) PROVE CleanupFits'
  BY <1>6, UploadChecksDoes, CleanupFitsMoved, IdleIs DEF Advances, Reaches, Rests, InCleanup
<1>7. ASSUME NEW t \in Tasks, atomic_replace(t) PROVE CleanupFits'
  <2> DEFINE p == task[t].plan
  <2>1. p \in Plans
    BY <1>7, StagesFile, FitOf DEF TaskFit, PlanPoints
  <2>2. /\ OnlyTask(t) /\ task'[t].pc # "remove" /\ task'[t].list \subseteq task[t].list
        /\ InCleanup(t)' => InCleanup(t) /\ task'[t].plan = p
    BY <1>7, StagesFile, IdleIs, FitOf DEF Advances, Reaches, Rests, InCleanup, TaskFit
  <2>3. /\ OnlyPlan(p)
        /\ \/ plan[p].state \notin Ended \/ plan[p].cleanup_pending
           \/ plan'[p].state \in Ended /\ ~plan'[p].cleanup_pending
        /\ \/ plan[p].cleanup_pending => plan'[p].cleanup_pending
           \/ InCleanup(t)
    BY <1>7, <2>1, StagesFile
    DEF PlanBecomes, StateKept, CleanupIs, CleanupKept
  <2> QED
    BY <2>1, <2>2, <2>3, CleanupFitsAgain
<1>8. ASSUME NEW t \in Tasks, UploadRecords(t) PROVE CleanupFits'
  <2> DEFINE p == task[t].plan
  <2>1. p \in Plans
    BY <1>8, UploadRecordsDoes, FitOf DEF TaskFit, PlanPoints
  <2>2. /\ OnlyTask(t) /\ task'[t].pc # "remove" /\ task'[t].list \subseteq task[t].list
        /\ InCleanup(t)' => InCleanup(t) /\ task'[t].plan = p
    BY <1>8, UploadRecordsDoes, IdleIs, FitOf DEF Advances, Reaches, Rests, InCleanup, TaskFit
  <2>3. /\ OnlyPlan(p)
        /\ \/ plan[p].state \notin Ended \/ plan[p].cleanup_pending
           \/ plan'[p].state \in Ended /\ ~plan'[p].cleanup_pending
        /\ \/ plan[p].cleanup_pending => plan'[p].cleanup_pending
           \/ InCleanup(t)
    BY <1>8, <2>1, UploadRecordsDoes
    DEF PlanBecomes, StateKept, CleanupIs, CleanupKept
  <2> QED
    BY <2>1, <2>2, <2>3, CleanupFitsAgain
<1>9. ASSUME NEW t \in Tasks, CommitDecides(t) PROVE CleanupFits'
  <2>1. /\ task[t].plan \in Plans /\ OnlyTask(t) /\ task'[t].pc # "remove"
        /\ ~InCleanup(t)' /\ task'[t].list \subseteq task[t].list
    BY <1>9, CommitDecidesDoes, FitOf, IdleIs
    DEF TaskFit, Advances, Reaches, Rests, InCleanup
  <2>2. CASE UNCHANGED plan
    BY <2>1, <2>2, CleanupFitsMoved
  <2>3. CASE plan' # plan
    <3> DEFINE p == task[t].plan
    <3>1. /\ OnlyPlan(p) /\ plan[p].state \notin Ended
          /\ plan'[p].cleanup_pending = plan[p].cleanup_pending
      BY <1>9, <2>3, CommitDecidesDoes DEF PlanBecomes, CleanupIs, CleanupKept, Ended
    <3> QED
      BY <2>1, <3>1, CleanupFitsAgain
  <2> QED
    BY <2>2, <2>3
<1>10. ASSUME NEW t \in Tasks, CommitSettles(t) PROVE CleanupFits'
  <2> DEFINE p == task[t].plan
  <2>1. /\ p \in Plans /\ OnlyTask(t) /\ task'[t].pc # "remove"
        /\ ~InCleanup(t)' /\ task'[t].list \subseteq task[t].list
    BY <1>10, CommitSettlesDoes, FitOf DEF TaskFit, PlanPoints, Reaches, InCleanup
  <2>2. /\ OnlyPlan(p) /\ plan[p].state \notin Ended /\ plan'[p].cleanup_pending
    BY <1>10, CommitSettlesDoes DEF CommitFits, PlanBecomes, CleanupIs, Settles, Ended
  <2> QED
    BY <2>1, <2>2, CleanupFitsAgain
<1>11. ASSUME NEW t \in Tasks, CommitLooks(t) PROVE CleanupFits'
  BY <1>11, CommitLooksDoes, CleanupFitsMoved, IdleIs DEF Advances, Reaches, Rests, InCleanup
<1>12. ASSUME NEW t \in Tasks, AbortBegins(t) PROVE CleanupFits'
  <2> DEFINE p == task[t].plan
  <2>1. p \in Plans
    BY <1>12, AbortBeginsDoes, FitOf DEF TaskFit, PlanPoints
  <2>2. /\ OnlyTask(t) /\ task'[t].pc # "remove" /\ task'[t].list \subseteq task[t].list
        /\ InCleanup(t)' => InCleanup(t) /\ task'[t].plan = p
    BY <1>12, AbortBeginsDoes, IdleIs, FitOf DEF Advances, Reaches, Rests, InCleanup, TaskFit
  <2>3. /\ OnlyPlan(p)
        /\ \/ plan[p].state \notin Ended \/ plan[p].cleanup_pending
           \/ plan'[p].state \in Ended /\ ~plan'[p].cleanup_pending
        /\ \/ plan[p].cleanup_pending => plan'[p].cleanup_pending
           \/ InCleanup(t)
    BY <1>12, <2>1, AbortBeginsDoes
    DEF PlanBecomes, StateKept, CleanupIs, CleanupKept
  <2> QED
    BY <2>1, <2>2, <2>3, CleanupFitsAgain
<1>13. ASSUME NEW t \in Tasks, AbortDecides(t) PROVE CleanupFits'
  <2>1. /\ task[t].plan \in Plans /\ OnlyTask(t) /\ task'[t].pc # "remove"
        /\ ~InCleanup(t)' /\ task'[t].list \subseteq task[t].list
    BY <1>13, AbortDecidesDoes, FitOf DEF TaskFit, PlanPoints, Advances, Reaches, InCleanup
  <2>2. CASE UNCHANGED plan
    BY <2>1, <2>2, CleanupFitsMoved
  <2>3. CASE plan' # plan
    <3> DEFINE p == task[t].plan
    <3>1. /\ OnlyPlan(p) /\ plan[p].state \notin Ended /\ plan'[p].cleanup_pending
      BY <1>13, <2>3, AbortDecidesDoes DEF PlanBecomes, CleanupIs, Settles, Ended
    <3> QED
      BY <2>1, <3>1, CleanupFitsAgain
  <2> QED
    BY <2>2, <2>3
<1>14. ASSUME NEW t \in Tasks, CleanupBegins(t) PROVE CleanupFits'
  BY <1>14, CleanupBeginsDoes, CleanupFitsMoved, IdleIs DEF Advances, Reaches, Rests, InCleanup
<1>15. ASSUME NEW t \in Tasks, CleanupRemoves(t) PROVE CleanupFits'
  <2> DEFINE p == task[t].plan
  <2>1. p \in Plans
    BY <1>15, CleanupRemovesDoes, FitOf DEF TaskFit, PlanPoints
  <2>2. /\ OnlyTask(t) /\ task'[t].pc # "remove" /\ task'[t].list \subseteq task[t].list
        /\ InCleanup(t)' => InCleanup(t) /\ task'[t].plan = p
    BY <1>15, CleanupRemovesDoes, IdleIs, FitOf DEF Advances, Reaches, Rests, InCleanup, TaskFit
  <2>3. /\ OnlyPlan(p)
        /\ \/ plan[p].state \notin Ended \/ plan[p].cleanup_pending
           \/ plan'[p].state \in Ended /\ ~plan'[p].cleanup_pending
        /\ \/ plan[p].cleanup_pending => plan'[p].cleanup_pending
           \/ InCleanup(t)
    BY <1>15, <2>1, FitOf, CleanupRemovesDoes
    DEF PlanBecomes, StateKept, CleanupIs, CleanupKept, CleanupFits, TaskFit, InCleanup
  <2> QED
    BY <2>1, <2>2, <2>3, CleanupFitsAgain
<1>16. ASSUME NEW t \in Tasks, CleanupFails(t) PROVE CleanupFits'
  <2> DEFINE p == task[t].plan
  <2>1. p \in Plans
    BY <1>16, CleanupFailsDoes, FitOf DEF TaskFit, PlanPoints
  <2>2. /\ OnlyTask(t) /\ task'[t].pc # "remove" /\ task'[t].list \subseteq task[t].list
        /\ InCleanup(t)' => InCleanup(t) /\ task'[t].plan = p
    BY <1>16, CleanupFailsDoes, IdleIs, FitOf DEF Advances, Reaches, Rests, InCleanup, TaskFit
  <2>3. /\ OnlyPlan(p)
        /\ \/ plan[p].state \notin Ended \/ plan[p].cleanup_pending
           \/ plan'[p].state \in Ended /\ ~plan'[p].cleanup_pending
        /\ \/ plan[p].cleanup_pending => plan'[p].cleanup_pending
           \/ InCleanup(t)
    BY <1>16, <2>1, CleanupFailsDoes
    DEF PlanBecomes, StateKept, CleanupIs, CleanupKept
  <2> QED
    BY <2>1, <2>2, <2>3, CleanupFitsAgain
<1>17. ASSUME NEW t \in Tasks, Cleaned(t) PROVE CleanupFits'
  BY <1>17, CleanedDoes, IdleIs, CleanupFitsStill DEF Told, InCleanup
<1>18. ASSUME NEW t \in Tasks, PruneLooks(t) PROVE CleanupFits'
  <2>1. \A q \in Finished : plan[q].state \in Ended /\ ~plan[q].cleanup_pending
    BY DEF Finished
  <2>2. /\ OnlyTask(t) /\ UNCHANGED plan /\ task'[t].pc # "remove" /\ task[t].pc = "prune"
        /\ InCleanup(t)' => /\ task'[t].plan = task[t].plan
                            /\ task'[t].role = task[t].role
        /\ \A q \in Plans : q \in task'[t].list => q \in Finished
    BY <1>18, PruneLooksDoes, IdleIs DEF Prunes, Reaches, Rests, InCleanup
  <2> QED
    BY <2>1, <2>2, CleanupFitsMoved DEF InCleanup
<1>19. ASSUME NEW t \in Tasks, PruneForgets(t) PROVE CleanupFits'
  <2>1. /\ OnlyTask(t) /\ task'[t].pc # "remove" /\ ~InCleanup(t)'
        /\ task'[t].list \subseteq task[t].list
    BY <1>19, PruneForgetsDoes, IdleIs DEF Prunes, Reaches, Rests, InCleanup
  <2>2. \A p \in Plans : /\ plan'[p].state = plan[p].state
                         /\ plan'[p].cleanup_pending = plan[p].cleanup_pending
    BY <1>19, PruneForgetsDoes DEF SameState, CleanupKept, CleanupIs
  <2> QED
    BY <2>1, <2>2, CleanupFitsStill DEF OnlyTask, InCleanup
<1>20. ASSUME NEW t \in Clients, Request(t) PROVE CleanupFits'
  BY <1>20, RequestDoes, CleanupFitsMoved DEF Accepted, Tasks, InCleanup
<1>21. CASE ReapBegins
  BY <1>21, ReapBeginsDoes, CleanupFitsMoved DEF Tasks, InCleanup
<1>22. CASE ShutdownBegins
  BY <1>22, ShutdownBeginsDoes, CleanupFitsMoved DEF Tasks, InCleanup
<1>23. CASE ShutdownCancels
  <2>1. /\ OnlyTask(Closer) /\ task'[Closer].pc # "remove" /\ ~InCleanup(Closer)'
        /\ task'[Closer].list \subseteq task[Closer].list
    BY <1>23, ShutdownCancelsDoes DEF Advances, Reaches, InCleanup
  <2>2. \A p \in Plans : /\ plan'[p].state = plan[p].state
                         /\ plan'[p].cleanup_pending = plan[p].cleanup_pending
    BY <1>23, ShutdownCancelsDoes DEF SameState, CleanupKept, CleanupIs
  <2> QED
    BY <2>1, <2>2, CleanupFitsStill DEF OnlyTask, InCleanup
<1>24. CASE ShutdownDrains
  BY <1>24, ShutdownDrainsDoes, CleanupFitsMoved DEF Tasks, Reaches, InCleanup
<1>25. ASSUME NEW p \in Plans, Overdue(p) \/ Age(p) PROVE CleanupFits'
  BY <1>25, TimeDoes, CleanupFitsStill
  DEF StateKept, CleanupKept, CleanupIs, PlanBecomes, OnlyPlan, InCleanup
<1>26. CASE Crash
  BY <1>26, CrashDoes, IdleIs DEF CleanupFits, InCleanup
<1>27. CASE Restart
  BY <1>27, RestartDoes, IdleIs DEF CleanupFits, DownFits, InCleanup
<1> QED
  BY <1>1, <1>2, <1>3, <1>4, <1>5, <1>6, <1>7, <1>8, <1>9, <1>10, <1>11,
      <1>12, <1>13, <1>14, <1>15, <1>16, <1>17, <1>18, <1>19, <1>20, <1>21,
      <1>22, <1>23, <1>24, <1>25, <1>26, <1>27
  DEF Next, Step, Create, Upload, Commit, Abort, Cleanup, Prune, Loop,
      Shutdown, AtRest

(***************************************************************************)
(* The permit.                                                             *)
(* The one permit of the slot is with the manager, with a creation between *)
(* its permit and its insertion, or with the one active plan.              *)
(***************************************************************************)

(* No creation and no active plan comes or goes.                           *)
LEMMA PermitFitsStill ==
  ASSUME PermitFits, TaskFits, manager'.permits = manager.permits,
         \A u \in Tasks : /\ Creates(u)' <=> Creates(u)
                          /\ Creates(u) => task'[u].plan = task[u].plan,
         \A p \in Plans : /\ plan'[p].state \in Active <=> plan[p].state \in Active
                          /\ plan[p].state = "created" => plan'[p].state = "created"
  PROVE  PermitFits'
<1>1. \A u \in Tasks : Creates(u) => task[u].plan \in Plans
  BY FitOf DEF TaskFit, PlanPoints, Creates
<1> QED
  BY <1>1 DEF PermitFits

(* Task t moves, and creates nothing.                                      *)
LEMMA PermitFitsMoved ==
  ASSUME PermitFits, TaskFits, NEW t \in Tasks, OnlyTask(t), UNCHANGED plan,
         manager'.permits = manager.permits, task[t].pc # "insert", task'[t].pc # "insert"
  PROVE  PermitFits'
BY PermitFitsStill DEF OnlyTask, Creates

(* Nor does plan p become active or end.                                   *)
LEMMA PermitFitsAgain ==
  ASSUME PermitFits, TaskFits, NEW t \in Tasks, OnlyTask(t),
         manager'.permits = manager.permits, task[t].pc # "insert", task'[t].pc # "insert",
         NEW p \in Plans, OnlyPlan(p), plan[p].state # "created",
         plan'[p].state \in Active <=> plan[p].state \in Active
  PROVE  PermitFits'
<1>1. \A q \in Plans : /\ plan'[q].state \in Active <=> plan[q].state \in Active
                       /\ plan[q].state = "created" => plan'[q].state = "created"
  BY DEF OnlyPlan
<1> QED
  BY <1>1, PermitFitsStill DEF OnlyTask, Creates

(* A plan that ends gives its permit back.                                 *)
LEMMA PermitFitsSettled ==
  ASSUME PermitFits, TaskFits, PlanFits, NEW t \in Tasks, OnlyTask(t),
         task[t].pc # "insert", task'[t].pc # "insert",
         NEW p \in Plans, plan[p].state \in Active, NEW state \in Ended, Settles(p, state)
  PROVE  PermitFits'
<1>1. /\ OnlyPlan(p) /\ plan'[p].state \notin Active
      /\ manager'.permits = manager.permits + 1
  BY PlanFitOf DEF Settles, PlanBecomes, ManagerIs, PlanFit, Active, Ended
<1>2. \A u \in Tasks : ~Creates(u)
  BY DEF PermitFits
<1>3. \A u \in Tasks : ~Creates(u)'
  BY <1>2 DEF Creates, OnlyTask
<1>4. \A q \in Plans : plan'[q].state \notin Active
  BY <1>1 DEF PermitFits, OnlyPlan
<1>5. manager.permits = 0
  BY DEF PermitFits
<1> QED
  BY <1>1, <1>3, <1>4, <1>5 DEF PermitFits

(* Every step keeps the permit in one place.                               *)
LEMMA PermitFitsKept ==
  ASSUME Shape, TaskFits, PlanFits, DownFits, PermitFits, CommitFits,
      CloserFits, [Next]_vars
  PROVE  PermitFits'
<1>1. CASE UNCHANGED vars
  BY <1>1 DEF vars, PermitFits, Creates
<1>2. ASSUME NEW t \in Tasks,
             NotFound(t) \/ CreateBegins(t) \/ CreateRefused(t)
             \/ UploadFails(t) \/ CommitWakes(t) \/ AbortWakes(t)
             \/ AbortOpenBegins(t) \/ NextPlan(t) \/ NoMorePlans(t)
     PROVE  PermitFits'
  BY <1>2, QuietMoves, PermitFitsMoved DEF QuietMove
<1>3. ASSUME NEW t \in Tasks, create_staging_dir(t) PROVE PermitFits'
  <2>1. /\ task[t].op = "create" /\ manager.permits > 0
        /\ ManagerIs(manager.permits - 1, manager.cleanup_degraded)
    BY <1>3, CreatesStaging
  <2>2. PICK p \in Plans :
          /\ PlanBecomes(p, "created", plan[p].registered, plan[p].permit,
                         plan[p].upload_files, plan[p].uploaded)
          /\ Reaches(t, "insert", task[t].role, p, task[t].heard, task[t].todo,
                     task[t].list)
    BY <1>3, CreatesStaging
  <2>3. /\ OnlyPlan(p) /\ plan'[p].state = "created"
        /\ OnlyTask(t) /\ task'[t].pc = "insert" /\ task'[t].plan = p
        /\ task'[t].op = "create"
    BY <2>1, <2>2 DEF PlanBecomes, Reaches
  <2>4. manager.permits = 1 /\ manager'.permits = 0
    BY <2>1 DEF PermitFits, ManagerIs
  <2>5. /\ \A u \in Tasks : ~Creates(u)
        /\ \A q \in Plans : plan[q].state \notin Active
    BY <2>4 DEF PermitFits
  <2>6. /\ \A u \in Tasks : Creates(u)' <=> u = t
        /\ \A q \in Plans : plan'[q].state \notin Active
    BY <2>5, <2>3 DEF Creates, OnlyTask, OnlyPlan, Active
  <2> QED
    BY <2>4, <2>6, <2>3 DEF PermitFits
<1>4. ASSUME NEW t \in Tasks, StagingRejected(t) PROVE PermitFits'
  <2> DEFINE p == task[t].plan
  <2>1. p \in Plans /\ Creates(t)
    BY <1>4, StagingRejectedDoes, FitOf DEF TaskFit, PlanPoints, Creates
  <2>2. /\ manager'.permits = manager.permits + 1 /\ OnlyTask(t) /\ task'[t] = Idle
        /\ OnlyPlan(p) /\ plan'[p].state \notin Active
    BY <1>4, <2>1, StagingRejectedDoes, NewIs DEF ManagerIs, Rests, PlanBecomes, Active
  <2>3. /\ manager.permits = 0
        /\ \A u \in Tasks \ {t} : ~Creates(u)
        /\ \A q \in Plans : plan[q].state \notin Active
    BY <2>1 DEF PermitFits
  <2>4. /\ \A u \in Tasks : ~Creates(u)'
        /\ \A q \in Plans : plan'[q].state \notin Active
    BY <2>2, <2>3, IdleIs DEF Creates, OnlyTask, OnlyPlan
  <2> QED
    BY <2>2, <2>3, <2>4 DEF PermitFits
<1>5. ASSUME NEW t \in Tasks, InsertPlan(t) PROVE PermitFits'
  <2> DEFINE p == task[t].plan
  <2>1. p \in Plans /\ Creates(t)
    BY <1>5, InsertPlanDoes, FitOf DEF TaskFit, PlanPoints, Creates
  <2>2. /\ UNCHANGED manager /\ OnlyTask(t) /\ task'[t] = Idle
        /\ OnlyPlan(p) /\ plan'[p].state = "Open"
    BY <1>5, <2>1, InsertPlanDoes DEF Rests, PlanBecomes
  <2>3. /\ manager.permits = 0
        /\ \A u \in Tasks \ {t} : ~Creates(u)
        /\ \A q \in Plans : plan[q].state \notin Active
    BY <2>1 DEF PermitFits
  <2>4. /\ \A u \in Tasks : ~Creates(u)'
        /\ \A q \in Plans : plan'[q].state \in Active <=> q = p
    BY <2>1, <2>2, <2>3, IdleIs DEF Creates, OnlyTask, OnlyPlan, Active
  <2> QED
    BY <2>1, <2>2, <2>3, <2>4 DEF PermitFits
<1>6. ASSUME NEW t \in Tasks, UploadChecks(t) PROVE PermitFits'
  BY <1>6, UploadChecksDoes, PermitFitsMoved, IdleIs DEF Advances, Reaches, Rests
<1>7. ASSUME NEW t \in Tasks, atomic_replace(t) PROVE PermitFits'
  <2>1. /\ OnlyTask(t) /\ task[t].pc # "insert" /\ task'[t].pc # "insert"
        /\ manager'.permits = manager.permits /\ task[t].plan \in Plans
    BY <1>7, StagesFile, IdleIs, FitOf DEF TaskFit, PlanPoints, Advances, Reaches
  <2>2. \A p \in Plans : plan'[p].state = plan[p].state
    BY <1>7, <2>1, StagesFile DEF StateKept, PlanBecomes, OnlyPlan
  <2> QED
    BY <2>1, <2>2, PermitFitsStill DEF OnlyTask, Creates
<1>8. ASSUME NEW t \in Tasks, UploadRecords(t) PROVE PermitFits'
  <2>1. /\ OnlyTask(t) /\ task[t].pc # "insert" /\ task'[t].pc # "insert"
        /\ manager'.permits = manager.permits /\ task[t].plan \in Plans
    BY <1>8, UploadRecordsDoes, IdleIs, FitOf DEF TaskFit, PlanPoints, Rests
  <2>2. \A p \in Plans : plan'[p].state = plan[p].state
    BY <1>8, <2>1, UploadRecordsDoes DEF StateKept, PlanBecomes, OnlyPlan
  <2> QED
    BY <2>1, <2>2, PermitFitsStill DEF OnlyTask, Creates
<1>9. ASSUME NEW t \in Tasks, CommitDecides(t) PROVE PermitFits'
  <2>1. /\ task[t].plan \in Plans /\ OnlyTask(t)
        /\ task[t].pc # "insert" /\ task'[t].pc # "insert" /\ UNCHANGED manager
    BY <1>9, CommitDecidesDoes, FitOf, IdleIs DEF TaskFit, Advances, Reaches, Rests
  <2>2. CASE UNCHANGED plan
    BY <2>1, <2>2, PermitFitsMoved
  <2>3. CASE plan' # plan
    <3>1. /\ OnlyPlan(task[t].plan) /\ plan[task[t].plan].state = "Open"
          /\ plan'[task[t].plan].state = "Committing"
      BY <1>9, <2>3, CommitDecidesDoes DEF PlanBecomes
    <3> QED
      BY <2>1, <3>1, PermitFitsAgain DEF Active
  <2> QED
    BY <2>2, <2>3
<1>10. ASSUME NEW t \in Tasks, CommitSettles(t) PROVE PermitFits'
  <2>1. /\ task[t].plan \in Plans /\ plan[task[t].plan].state \in Active /\ OnlyTask(t)
        /\ task[t].pc # "insert" /\ task'[t].pc # "insert"
    BY <1>10, CommitSettlesDoes, FitOf
    DEF TaskFit, PlanPoints, CommitFits, Active, Reaches
  <2> QED
    BY <1>10, <2>1, CommitSettlesDoes, PermitFitsSettled DEF Ended
<1>11. ASSUME NEW t \in Tasks, CommitLooks(t) PROVE PermitFits'
  BY <1>11, CommitLooksDoes, PermitFitsMoved, IdleIs DEF Advances, Reaches, Rests
<1>12. ASSUME NEW t \in Tasks, AbortBegins(t) PROVE PermitFits'
  <2>1. /\ OnlyTask(t) /\ task[t].pc # "insert" /\ task'[t].pc # "insert"
        /\ manager'.permits = manager.permits /\ task[t].plan \in Plans
    BY <1>12, AbortBeginsDoes, IdleIs, FitOf DEF TaskFit, PlanPoints, Reaches
  <2>2. \A p \in Plans : plan'[p].state = plan[p].state
    BY <1>12, <2>1, AbortBeginsDoes DEF StateKept, PlanBecomes, OnlyPlan
  <2> QED
    BY <2>1, <2>2, PermitFitsStill DEF OnlyTask, Creates
<1>13. ASSUME NEW t \in Tasks, AbortDecides(t) PROVE PermitFits'
  <2>1. /\ task[t].plan \in Plans /\ OnlyTask(t)
        /\ task[t].pc # "insert" /\ task'[t].pc # "insert"
    BY <1>13, AbortDecidesDoes, FitOf DEF TaskFit, PlanPoints, Advances, Reaches
  <2>2. CASE UNCHANGED <<plan, manager>>
    BY <2>1, <2>2, PermitFitsMoved
  <2>3. CASE plan' # plan \/ manager' # manager
    <3>1. /\ plan[task[t].plan].state \in Active
          /\ \E state \in Ended : Settles(task[t].plan, state)
      BY <1>13, <2>3, AbortDecidesDoes DEF Active
    <3> QED
      BY <2>1, <3>1, PermitFitsSettled
  <2> QED
    BY <2>2, <2>3
<1>14. ASSUME NEW t \in Tasks, CleanupBegins(t) PROVE PermitFits'
  BY <1>14, CleanupBeginsDoes, PermitFitsMoved, IdleIs DEF Advances, Reaches, Rests
<1>15. ASSUME NEW t \in Tasks, CleanupRemoves(t) PROVE PermitFits'
  <2>1. /\ OnlyTask(t) /\ task[t].pc # "insert" /\ task'[t].pc # "insert"
        /\ manager'.permits = manager.permits /\ task[t].plan \in Plans
    BY <1>15, CleanupRemovesDoes, IdleIs, FitOf DEF TaskFit, PlanPoints, Reaches, Advances,
      ManagerIs
  <2>2. \A p \in Plans : plan'[p].state = plan[p].state
    BY <1>15, <2>1, CleanupRemovesDoes DEF StateKept, PlanBecomes, OnlyPlan
  <2> QED
    BY <2>1, <2>2, PermitFitsStill DEF OnlyTask, Creates
<1>16. ASSUME NEW t \in Tasks, CleanupFails(t) PROVE PermitFits'
  <2>1. /\ OnlyTask(t) /\ task[t].pc # "insert" /\ task'[t].pc # "insert"
        /\ manager'.permits = manager.permits /\ task[t].plan \in Plans
    BY <1>16, CleanupFailsDoes, IdleIs, FitOf DEF TaskFit, PlanPoints, Reaches, ManagerIs
  <2>2. \A p \in Plans : plan'[p].state = plan[p].state
    BY <1>16, <2>1, CleanupFailsDoes DEF StateKept, PlanBecomes, OnlyPlan
  <2> QED
    BY <2>1, <2>2, PermitFitsStill DEF OnlyTask, Creates
<1>17. ASSUME NEW t \in Tasks, Cleaned(t) PROVE PermitFits'
  BY <1>17, CleanedDoes, IdleIs, PermitFitsStill DEF Told, Creates
<1>18. ASSUME NEW t \in Tasks, PruneLooks(t) PROVE PermitFits'
  BY <1>18, PruneLooksDoes, PermitFitsMoved, IdleIs DEF Advances, Reaches, Rests, Prunes
<1>19. ASSUME NEW t \in Tasks, PruneForgets(t) PROVE PermitFits'
  BY <1>19, PruneForgetsDoes, IdleIs, PermitFitsStill
  DEF Prunes, Reaches, Rests, OnlyTask, SameState, Creates
<1>20. ASSUME NEW t \in Clients, Request(t) PROVE PermitFits'
  BY <1>20, RequestDoes, IdleIs, PermitFitsMoved DEF Accepted, ManagerIs, Tasks
<1>21. CASE ReapBegins
  BY <1>21, ReapBeginsDoes, IdleIs, PermitFitsMoved DEF Tasks
<1>22. CASE ShutdownBegins
  BY <1>22, ShutdownBeginsDoes, IdleIs, PermitFitsMoved DEF CloserFits, Tasks
<1>23. CASE ShutdownCancels
  BY <1>23, ShutdownCancelsDoes, PermitFitsStill
  DEF Advances, Reaches, OnlyTask, SameState, Creates
<1>24. CASE ShutdownDrains
  BY <1>24, ShutdownDrainsDoes, PermitFitsMoved DEF Tasks, Reaches
<1>25. ASSUME NEW p \in Plans, Overdue(p) \/ Age(p) PROVE PermitFits'
  BY <1>25, TimeDoes, PermitFitsStill DEF StateKept, PlanBecomes, OnlyPlan, Creates
<1>26. CASE Crash
  BY <1>26, CrashDoes, IdleIs DEF PermitFits, Creates, Forgotten, Active
<1>27. CASE Restart
  <2>1. \A u \in Tasks : ~Creates(u)
    BY <1>27, RestartDoes, IdleIs DEF DownFits, Creates
  <2>2. \A p \in Plans : plan[p].state \notin Active
    BY <1>27, RestartDoes, PlanFitOf DEF DownFits, PlanFit
  <2>3. manager'.permits = 1
    BY <1>27, <2>1, <2>2, RestartDoes DEF PermitFits
  <2>4. \A p \in Plans : plan'[p].state \notin Active
    BY <1>27, RestartDoes DEF Forgotten, Active
  <2>5. \A u \in Tasks : ~Creates(u)'
    BY <1>27, <2>1, RestartDoes DEF Creates
  <2> QED
    BY <2>3, <2>4, <2>5 DEF PermitFits
<1> QED
  BY <1>1, <1>2, <1>3, <1>4, <1>5, <1>6, <1>7, <1>8, <1>9, <1>10, <1>11,
      <1>12, <1>13, <1>14, <1>15, <1>16, <1>17, <1>18, <1>19, <1>20, <1>21,
      <1>22, <1>23, <1>24, <1>25, <1>26, <1>27
  DEF Next, Step, Create, Upload, Commit, Abort, Cleanup, Prune, Loop,
      Shutdown, AtRest

(***************************************************************************)
(* Shutdown.                                                               *)
(* Once the other tasks are drained, the plans that are still active are   *)
(* ahead of the closer, or in its hand.                                    *)
(***************************************************************************)

(* A task that is not of shutdown moves before the drain has ended.        *)
LEMMA CloserFitsElse ==
  ASSUME CloserFits, NEW t \in Tasks, OnlyTask(t), task[t].pc # "none",
         task[t].op # "shutdown", manager'.closed = manager.closed
  PROVE  CloserFits'
<1>1. t # Closer
  BY IdleIs DEF CloserFits
<1>2. task'[Closer] = task[Closer] /\ task[t] # Idle
  BY <1>1, IdleIs DEF OnlyTask, Tasks
<1> QED
  BY <1>1, <1>2, IdleIs DEF CloserFits

(* The closer will still come to plan p, or has it in hand.                *)
Covered(k, p) == p \in k.todo \/ (k.plan = p /\ k.pc \in {"abort", "alone", "wait"})

(* After the drain only the closer moves, and covers what is active.       *)
LEMMA CloserFitsOwn ==
  ASSUME CloserFits, NEW t \in Tasks, OnlyTask(t),
         task[t].pc \notin {"none", "cancel", "drain"}, manager'.closed = manager.closed,
         t = Closer =>
           /\ task'[t].op = task[t].op /\ task'[t].pc \notin {"cancel", "drain"}
           /\ \A p \in Plans : plan'[p].state \in Active => Covered(task'[t], p)
           /\ task'[t].pc = "stopped" => task'[t].todo = {}
  PROVE  CloserFits'
<1>1. CASE t # Closer
  <2>1. task'[Closer] = task[Closer] /\ task[t] # Idle
    BY <1>1, IdleIs DEF OnlyTask, Tasks
  <2> QED
    BY <1>1, <2>1, IdleIs DEF CloserFits
<1>2. CASE t = Closer
  <2>1. /\ manager.closed /\ task[Closer].op = "shutdown"
        /\ \A u \in Tasks \ {Closer} : task[u] = Idle
    BY <1>2, IdleIs DEF CloserFits
  <2>2. \A u \in Tasks \ {Closer} : task'[u] = Idle
    BY <1>2, <2>1 DEF OnlyTask
  <2> QED
    BY <1>2, <2>1, <2>2 DEF CloserFits, Covered
<1> QED
  BY <1>1, <1>2

(* Past the drain, the closer covers every active plan.                    *)
LEMMA CloserCovers ==
  ASSUME CloserFits, task[Closer].pc \notin {"none", "cancel", "drain"}
  PROVE  /\ task[Closer].op = "shutdown"
         /\ \A p \in Plans : plan[p].state \in Active => Covered(task[Closer], p)
BY IdleIs DEF CloserFits, Covered

(* Every step keeps the active plans before the closer.                    *)
LEMMA CloserFitsKept ==
  ASSUME Shape, TaskFits, PlanFits, DownFits, CommitFits, CloserFits,
      [Next]_vars
  PROVE  CloserFits'
<1>1. CASE UNCHANGED vars
  BY <1>1 DEF vars, CloserFits
<1>2. ASSUME NEW t \in Tasks, NotFound(t) PROVE CloserFits'
  BY <1>2, QuietEnds, CloserFitsElse DEF Rests
<1>3. ASSUME NEW t \in Tasks, CreateBegins(t) PROVE CloserFits'
  BY <1>3, CreateBeginsDoes, CloserFitsElse DEF Reaches, Advances
<1>4. ASSUME NEW t \in Tasks, CreateRefused(t) PROVE CloserFits'
  BY <1>4, QuietEnds, CloserFitsElse DEF Rests
<1>5. ASSUME NEW t \in Tasks, create_staging_dir(t) PROVE CloserFits'
  BY <1>5, CreatesStaging, CloserFitsElse DEF Reaches, ManagerIs
<1>6. ASSUME NEW t \in Tasks, StagingRejected(t) PROVE CloserFits'
  BY <1>6, StagingRejectedDoes, CloserFitsElse DEF Rests, ManagerIs
<1>7. ASSUME NEW t \in Tasks, InsertPlan(t) PROVE CloserFits'
  BY <1>7, InsertPlanDoes, CloserFitsElse DEF Rests
<1>8. ASSUME NEW t \in Tasks, UploadChecks(t) PROVE CloserFits'
  BY <1>8, UploadChecksDoes, CloserFitsElse DEF Reaches, Advances, Rests
<1>9. ASSUME NEW t \in Tasks, UploadFails(t) PROVE CloserFits'
  BY <1>9, QuietEnds, CloserFitsElse DEF Rests
<1>10. ASSUME NEW t \in Tasks, atomic_replace(t) PROVE CloserFits'
  BY <1>10, StagesFile, CloserFitsElse DEF Reaches, Advances
<1>11. ASSUME NEW t \in Tasks, UploadRecords(t) PROVE CloserFits'
  BY <1>11, UploadRecordsDoes, CloserFitsElse DEF Rests
<1>12. ASSUME NEW t \in Tasks, CommitDecides(t) PROVE CloserFits'
  BY <1>12, CommitDecidesDoes, CloserFitsElse DEF Reaches, Advances, Rests
<1>13. ASSUME NEW t \in Tasks, CommitSettles(t) PROVE CloserFits'
  BY <1>13, CommitSettlesDoes, CloserFitsElse DEF Reaches, Settles, ManagerIs
<1>14. ASSUME NEW t \in Tasks, CommitLooks(t) PROVE CloserFits'
  BY <1>14, CommitLooksDoes, CloserFitsElse DEF Reaches, Advances, Rests
<1>15. ASSUME NEW t \in Tasks, CommitWakes(t) PROVE CloserFits'
  BY <1>15, CommitWakesDoes, CloserFitsElse DEF Reaches
<1>16. ASSUME NEW t \in Tasks, AbortBegins(t) PROVE CloserFits'
  <2>1. /\ OnlyTask(t) /\ task[t].pc \notin {"none", "cancel", "drain"}
        /\ manager'.closed = manager.closed /\ task[t].plan \in Plans
    BY <1>16, AbortBeginsDoes, FitOf DEF Reaches, ManagerIs, TaskFit, PlanPoints
  <2>2. \A p \in Plans : plan'[p].state = plan[p].state
    BY <1>16, <2>1, AbortBeginsDoes DEF StateKept, PlanBecomes, OnlyPlan
  <2>3. ASSUME t = Closer
       PROVE  /\ task'[t].op = task[t].op /\ task'[t].pc \notin {"cancel", "drain"}
              /\ \A p \in Plans : plan'[p].state \in Active => Covered(task'[t], p)
              /\ task'[t].pc = "stopped" => task'[t].todo = {}
    <3>1. /\ task[t].op = "shutdown"
          /\ \A p \in Plans : plan[p].state \in Active => Covered(task[t], p)
      BY <2>1, <2>3, CloserCovers
    <3>2. /\ task'[t].op = task[t].op /\ task'[t].pc = "alone"
          /\ task'[t].plan = task[t].plan /\ task'[t].todo = task[t].todo
          /\ task[t].pc # "start"
      BY <1>16, <3>1, AbortBeginsDoes DEF Reaches
    <3> QED
      BY <2>2, <3>1, <3>2, AbortBeginsDoes, <1>16 DEF Covered
  <2> QED
    BY <2>1, <2>3, CloserFitsOwn
<1>17. ASSUME NEW t \in Tasks, AbortDecides(t) PROVE CloserFits'
  <2>1. /\ OnlyTask(t) /\ task[t].pc = "alone" /\ manager'.closed = manager.closed
        /\ task[t].plan \in Plans /\ task'[t].op = task[t].op
        /\ task'[t].plan = task[t].plan /\ task'[t].todo = task[t].todo
        /\ \/ task'[t].pc = "wait" /\ UNCHANGED plan
           \/ /\ task'[t].pc = "cleanup" /\ UNCHANGED plan
              /\ plan[task[t].plan].state \notin Active
           \/ /\ task'[t].pc = "cleanup" /\ OnlyPlan(task[t].plan)
              /\ plan'[task[t].plan].state \notin Active
    BY <1>17, AbortDecidesDoes, FitOf
    DEF Advances, Reaches, Settles, PlanBecomes, ManagerIs, TaskFit, PlanPoints, Active,
        Ended
  <2>2. ASSUME t = Closer, NEW p \in Plans, plan'[p].state \in Active
       PROVE  Covered(task'[t], p)
    BY <2>1, <2>2, CloserCovers DEF Covered, OnlyPlan
  <2> QED
    BY <2>1, <2>2, CloserFitsOwn
<1>18. ASSUME NEW t \in Tasks, AbortWakes(t) PROVE CloserFits'
  <2>1. /\ OnlyTask(t) /\ task[t].pc \notin {"none", "cancel", "drain"}
        /\ manager'.closed = manager.closed
    BY <1>18, AbortWakesDoes, IdleIs DEF Advances, Reaches, Rests, Prunes, ManagerIs
  <2>2. ASSUME t = Closer
       PROVE  /\ task'[t].op = task[t].op /\ task'[t].pc \notin {"cancel", "drain"}
              /\ \A p \in Plans : plan'[p].state \in Active => Covered(task'[t], p)
              /\ task'[t].pc = "stopped" => task'[t].todo = {}
    BY <1>18, <2>1, <2>2, AbortWakesDoes, CloserCovers
    DEF Covered, Reaches
  <2> QED
    BY <2>1, <2>2, CloserFitsOwn
<1>19. ASSUME NEW t \in Tasks, CleanupBegins(t) PROVE CloserFits'
  <2>1. /\ OnlyTask(t) /\ task[t].pc \notin {"none", "cancel", "drain"}
        /\ manager'.closed = manager.closed
    BY <1>19, CleanupBeginsDoes, IdleIs DEF Advances, Reaches, Rests, Prunes, ManagerIs
  <2>2. ASSUME t = Closer
       PROVE  /\ task'[t].op = task[t].op /\ task'[t].pc \notin {"cancel", "drain"}
              /\ \A p \in Plans : plan'[p].state \in Active => Covered(task'[t], p)
              /\ task'[t].pc = "stopped" => task'[t].todo = {}
    BY <1>19, <2>1, <2>2, CleanupBeginsDoes, CloserCovers
    DEF Covered, Reaches, Advances
  <2> QED
    BY <2>1, <2>2, CloserFitsOwn
<1>20. ASSUME NEW t \in Tasks, CleanupRemoves(t) PROVE CloserFits'
  <2>1. /\ OnlyTask(t) /\ task[t].pc \notin {"none", "cancel", "drain"}
        /\ manager'.closed = manager.closed /\ task[t].plan \in Plans
    BY <1>20, CleanupRemovesDoes, FitOf DEF Advances, Reaches, ManagerIs, TaskFit, PlanPoints
  <2>2. \A p \in Plans : plan'[p].state = plan[p].state
    BY <1>20, <2>1, CleanupRemovesDoes DEF StateKept, PlanBecomes, OnlyPlan
  <2>3. ASSUME t = Closer
       PROVE  /\ task'[t].op = task[t].op /\ task'[t].pc \notin {"cancel", "drain"}
              /\ \A p \in Plans : plan'[p].state \in Active => Covered(task'[t], p)
              /\ task'[t].pc = "stopped" => task'[t].todo = {}
    <3>1. /\ task[t].op = "shutdown"
          /\ \A p \in Plans : plan[p].state \in Active => Covered(task[t], p)
      BY <2>1, <2>3, CloserCovers
    <3>2. /\ task'[t].op = task[t].op /\ task'[t].pc = "prune"
          /\ task'[t].plan = task[t].plan /\ task'[t].todo = task[t].todo
          /\ task[t].pc = "remove"
      BY <1>20, <3>1, CleanupRemovesDoes DEF Advances, Reaches
    <3> QED
      BY <2>2, <3>1, <3>2 DEF Covered
  <2> QED
    BY <2>1, <2>3, CloserFitsOwn
<1>21. ASSUME NEW t \in Tasks, CleanupFails(t) PROVE CloserFits'
  <2>1. /\ OnlyTask(t) /\ task[t].pc \notin {"none", "cancel", "drain"}
        /\ manager'.closed = manager.closed /\ task[t].plan \in Plans
    BY <1>21, CleanupFailsDoes, FitOf DEF Reaches, ManagerIs, TaskFit, PlanPoints
  <2>2. \A p \in Plans : plan'[p].state = plan[p].state
    BY <1>21, <2>1, CleanupFailsDoes DEF StateKept, PlanBecomes, OnlyPlan
  <2>3. ASSUME t = Closer
       PROVE  /\ task'[t].op = task[t].op /\ task'[t].pc \notin {"cancel", "drain"}
              /\ \A p \in Plans : plan'[p].state \in Active => Covered(task'[t], p)
              /\ task'[t].pc = "stopped" => task'[t].todo = {}
    <3>1. /\ task[t].op = "shutdown"
          /\ \A p \in Plans : plan[p].state \in Active => Covered(task[t], p)
      BY <2>1, <2>3, CloserCovers
    <3>2. /\ task'[t].op = task[t].op /\ task'[t].pc = "prune"
          /\ task'[t].plan = task[t].plan /\ task'[t].todo = task[t].todo
          /\ task[t].pc = "remove"
      BY <1>21, <3>1, CleanupFailsDoes DEF Reaches
    <3> QED
      BY <2>2, <3>1, <3>2 DEF Covered
  <2> QED
    BY <2>1, <2>3, CloserFitsOwn
<1>22. ASSUME NEW t \in Tasks, Cleaned(t) PROVE CloserFits'
  <2>1. /\ task[t].pc = "cleaned" /\ UNCHANGED <<plan, manager>>
        /\ \A u \in Tasks \ {t} : ~Hears(task[t].plan, u) => task'[u] = task[u]
    BY <1>22, CleanedDoes DEF Told
  <2>2. CASE t # Closer
    <3>1. task[t] # Idle
      BY <2>1, IdleIs
    <3>2. ~Hears(task[t].plan, Closer)
      BY <2>2, <3>1, IdleIs DEF CloserFits, Hears
    <3>3. task'[Closer] = task[Closer]
      BY <2>1, <2>2, <3>2 DEF Tasks
    <3> QED
      BY <2>1, <2>2, <3>1, <3>3, IdleIs DEF CloserFits
  <2>3. CASE t = Closer
    <3>1. /\ manager.closed /\ task[Closer].op = "shutdown"
          /\ \A u \in Tasks \ {Closer} : task[u] = Idle
          /\ \A p \in Plans : plan[p].state \in Active => p \in task[Closer].todo
      BY <2>1, <2>3, IdleIs DEF CloserFits
    <3>2. \A u \in Tasks \ {Closer} : task'[u] = Idle
      BY <2>1, <2>3, <3>1, IdleIs DEF Hears
    <3>3. /\ task'[Closer].op = "shutdown" /\ task'[Closer].pc = "next"
          /\ task'[Closer].todo = task[Closer].todo
      BY <1>22, <2>3, <3>1, CleanedDoes
    <3> QED
      BY <2>1, <3>1, <3>2, <3>3 DEF CloserFits
  <2> QED
    BY <2>2, <2>3
<1>23. ASSUME NEW t \in Tasks, PruneLooks(t) PROVE CloserFits'
  <2>1. /\ OnlyTask(t) /\ task[t].pc \notin {"none", "cancel", "drain"}
        /\ manager'.closed = manager.closed
    BY <1>23, PruneLooksDoes, IdleIs DEF Advances, Reaches, Rests, Prunes, ManagerIs
  <2>2. ASSUME t = Closer
       PROVE  /\ task'[t].op = task[t].op /\ task'[t].pc \notin {"cancel", "drain"}
              /\ \A p \in Plans : plan'[p].state \in Active => Covered(task'[t], p)
              /\ task'[t].pc = "stopped" => task'[t].todo = {}
    BY <1>23, <2>1, <2>2, PruneLooksDoes, CloserCovers, FitOf
    DEF Covered, Reaches, Prunes, TaskFit
  <2> QED
    BY <2>1, <2>2, CloserFitsOwn
<1>24. ASSUME NEW t \in Tasks, PruneForgets(t) PROVE CloserFits'
  <2>1. /\ OnlyTask(t) /\ task[t].pc \notin {"none", "cancel", "drain"}
        /\ manager'.closed = manager.closed
    BY <1>24, PruneForgetsDoes, IdleIs DEF Advances, Reaches, Rests, Prunes, ManagerIs
  <2>2. ASSUME t = Closer
       PROVE  /\ task'[t].op = task[t].op /\ task'[t].pc \notin {"cancel", "drain"}
              /\ \A p \in Plans : plan'[p].state \in Active => Covered(task'[t], p)
              /\ task'[t].pc = "stopped" => task'[t].todo = {}
    BY <1>24, <2>1, <2>2, PruneForgetsDoes, CloserCovers, FitOf
    DEF Covered, Reaches, Prunes, SameState, TaskFit
  <2> QED
    BY <2>1, <2>2, CloserFitsOwn
<1>25. ASSUME NEW t \in Tasks, AbortOpenBegins(t) PROVE CloserFits'
  BY <1>25, AbortOpenBeginsDoes, CloserFitsElse DEF Reaches
<1>26. ASSUME NEW t \in Tasks, NextPlan(t) PROVE CloserFits'
  <2>1. /\ OnlyTask(t) /\ task[t].pc \notin {"none", "cancel", "drain"}
        /\ manager'.closed = manager.closed
    BY <1>26, NextPlanDoes, IdleIs DEF Advances, Reaches, Rests, Prunes, ManagerIs
  <2>2. ASSUME t = Closer
       PROVE  /\ task'[t].op = task[t].op /\ task'[t].pc \notin {"cancel", "drain"}
              /\ \A p \in Plans : plan'[p].state \in Active => Covered(task'[t], p)
              /\ task'[t].pc = "stopped" => task'[t].todo = {}
    BY <1>26, <2>1, <2>2, NextPlanDoes, CloserCovers
    DEF Covered, Reaches
  <2> QED
    BY <2>1, <2>2, CloserFitsOwn
<1>27. ASSUME NEW t \in Tasks, NoMorePlans(t) PROVE CloserFits'
  <2>1. /\ OnlyTask(t) /\ task[t].pc \notin {"none", "cancel", "drain"}
        /\ manager'.closed = manager.closed
    BY <1>27, NoMorePlansDoes, IdleIs DEF Advances, Reaches, Rests, Prunes, ManagerIs
  <2>2. ASSUME t = Closer
       PROVE  /\ task'[t].op = task[t].op /\ task'[t].pc \notin {"cancel", "drain"}
              /\ \A p \in Plans : plan'[p].state \in Active => Covered(task'[t], p)
              /\ task'[t].pc = "stopped" => task'[t].todo = {}
    BY <1>27, <2>1, <2>2, NoMorePlansDoes, CloserCovers
    DEF Covered, Reaches, Advances
  <2> QED
    BY <2>1, <2>2, CloserFitsOwn
<1>28. ASSUME NEW t \in Clients, Request(t) PROVE CloserFits'
  <2>1. /\ ~manager.closed /\ OnlyTask(t) /\ manager'.closed = manager.closed
        /\ t # Closer
    BY <1>28, RequestDoes, SyncManagerAssumption DEF Accepted, ManagerIs
  <2> QED
    BY <2>1, IdleIs DEF CloserFits, OnlyTask, Tasks
<1>29. CASE ReapBegins
  BY <1>29, ReapBeginsDoes, SyncManagerAssumption, IdleIs DEF CloserFits, OnlyTask, Tasks
<1>30. CASE ShutdownBegins
  BY <1>30, ShutdownBeginsDoes, IdleIs DEF CloserFits, Tasks
<1>31. CASE ShutdownCancels
  BY <1>31, ShutdownCancelsDoes DEF CloserFits, Advances, Reaches
<1>32. CASE ShutdownDrains
  <2>1. \A p \in Plans : plan[p].state \in Active => p \in Registered
    BY PlanFitOf DEF PlanFit, Registered
  <2>2. /\ manager.closed /\ \A u \in Tasks \ {Closer} : task'[u] = Idle
        /\ UNCHANGED <<plan, manager>> /\ task'[Closer].op = "shutdown"
        /\ task'[Closer].pc = "next" /\ task'[Closer].todo = Registered
    BY <1>32, ShutdownDrainsDoes, IdleIs DEF Reaches, OnlyTask, CloserFits
  <2> QED
    BY <2>1, <2>2 DEF CloserFits
<1>33. ASSUME NEW p \in Plans, Overdue(p) \/ Age(p) PROVE CloserFits'
  BY <1>33, TimeDoes DEF CloserFits, StateKept, PlanBecomes, OnlyPlan
<1>34. CASE Crash
  BY <1>34, CrashDoes, IdleIs DEF CloserFits, Tasks
<1>35. CASE Restart
  BY <1>35, RestartDoes, IdleIs DEF CloserFits, DownFits, Tasks
<1> QED
  BY <1>1, <1>2, <1>3, <1>4, <1>5, <1>6, <1>7, <1>8, <1>9, <1>10, <1>11,
      <1>12, <1>13, <1>14, <1>15, <1>16, <1>17, <1>18, <1>19, <1>20, <1>21,
      <1>22, <1>23, <1>24, <1>25, <1>26, <1>27, <1>28, <1>29, <1>30, <1>31,
      <1>32, <1>33, <1>34, <1>35
  DEF Next, Step, Create, Upload, Commit, Abort, Cleanup, Prune, Loop,
      Shutdown, AtRest

(***************************************************************************)
(* The degraded counter, and the waiters.                                  *)
(***************************************************************************)

(* The plans whose staging could not be removed.                           *)
Degrading == {p \in Registered : plan[p].cleanup_failed}

(* The same plans degrade the service, and the counter stays.              *)
LEMMA DegradedStill ==
  ASSUME DegradedAgrees, manager'.cleanup_degraded = manager.cleanup_degraded,
         \A p \in Plans : plan'[p].registered /\ plan'[p].cleanup_failed <=>
                            plan[p].registered /\ plan[p].cleanup_failed
  PROVE  DegradedAgrees'
<1>1. Degrading' = Degrading
  BY DEF Degrading, Registered
<1> QED
  BY <1>1 DEF DegradedAgrees, Degrading

(* So it is when only plan p changes, and not in this.                     *)
LEMMA DegradedOne ==
  ASSUME DegradedAgrees, manager'.cleanup_degraded = manager.cleanup_degraded,
         NEW p \in Plans, OnlyPlan(p),
         plan'[p].registered /\ plan'[p].cleanup_failed <=>
           plan[p].registered /\ plan[p].cleanup_failed
  PROVE  DegradedAgrees'
BY DegradedStill DEF OnlyPlan

(* They are finitely many.                                                 *)
LEMMA DegradingFinite == IsFiniteSet(Degrading) /\ Cardinality(Degrading) \in Nat
<1>1. IsFiniteSet(Degrading)
  BY SyncManagerAssumption, FS_Subset DEF Degrading, Registered
<1> QED
  BY <1>1, FS_CardinalityType

(* Every step counts a failed removal once, and discounts it once.         *)
LEMMA DegradedKept ==
  ASSUME Shape, TaskFits, PlanFits, DownFits, PermitFits, CommitFits,
      CleanupFits, DegradedAgrees, [Next]_vars
  PROVE  DegradedAgrees'
<1>1. CASE UNCHANGED vars
  BY <1>1 DEF vars, DegradedAgrees, Registered
<1>2. ASSUME NEW t \in Tasks,
             NotFound(t) \/ CreateBegins(t) \/ CreateRefused(t)
             \/ UploadChecks(t) \/ UploadFails(t) \/ CommitLooks(t)
             \/ CommitWakes(t) \/ AbortWakes(t) \/ CleanupBegins(t)
             \/ Cleaned(t) \/ PruneLooks(t) \/ AbortOpenBegins(t)
             \/ NextPlan(t) \/ NoMorePlans(t)
     PROVE  DegradedAgrees'
  BY <1>2, OnlyTasksMove, DegradedStill
<1>3. ASSUME NEW t \in Tasks, create_staging_dir(t) PROVE DegradedAgrees'
  BY <1>3, CreatesStaging, DegradedOne DEF PlanBecomes, CleanupIs, ManagerIs
<1>4. ASSUME NEW t \in Tasks, StagingRejected(t) PROVE DegradedAgrees'
  <2>1. task[t].plan \in Plans /\ PlanFit(plan[task[t].plan])
    BY <1>4, StagingRejectedDoes, FitOf, PlanFitOf DEF TaskFit, PlanPoints
  <2>2. /\ OnlyPlan(task[t].plan) /\ manager'.cleanup_degraded = manager.cleanup_degraded
        /\ plan'[task[t].plan].registered /\ plan'[task[t].plan].cleanup_failed <=>
              plan[task[t].plan].registered /\ plan[task[t].plan].cleanup_failed
    BY <1>4, <2>1, StagingRejectedDoes, NewIs
    DEF PlanBecomes, StateKept, CleanupIs, CleanupKept, ManagerIs, PermitFits, Creates,
      PlanFit, Active, Ended
  <2> QED
    BY <2>1, <2>2, DegradedOne
<1>5. ASSUME NEW t \in Tasks, InsertPlan(t) PROVE DegradedAgrees'
  <2>1. task[t].plan \in Plans /\ PlanFit(plan[task[t].plan])
    BY <1>5, InsertPlanDoes, FitOf, PlanFitOf DEF TaskFit, PlanPoints
  <2>2. /\ OnlyPlan(task[t].plan) /\ manager'.cleanup_degraded = manager.cleanup_degraded
        /\ plan'[task[t].plan].registered /\ plan'[task[t].plan].cleanup_failed <=>
              plan[task[t].plan].registered /\ plan[task[t].plan].cleanup_failed
    BY <1>5, <2>1, InsertPlanDoes
    DEF PlanBecomes, StateKept, CleanupIs, CleanupKept, PermitFits, Creates, PlanFit, Active,
      Ended
  <2> QED
    BY <2>1, <2>2, DegradedOne
<1>6. ASSUME NEW t \in Tasks, atomic_replace(t) PROVE DegradedAgrees'
  <2>1. task[t].plan \in Plans /\ PlanFit(plan[task[t].plan])
    BY <1>6, StagesFile, FitOf, PlanFitOf DEF TaskFit, PlanPoints
  <2>2. /\ OnlyPlan(task[t].plan) /\ manager'.cleanup_degraded = manager.cleanup_degraded
        /\ plan'[task[t].plan].registered /\ plan'[task[t].plan].cleanup_failed <=>
              plan[task[t].plan].registered /\ plan[task[t].plan].cleanup_failed
    BY <1>6, <2>1, StagesFile
    DEF PlanBecomes, StateKept, CleanupIs, CleanupKept
  <2> QED
    BY <2>1, <2>2, DegradedOne
<1>7. ASSUME NEW t \in Tasks, UploadRecords(t) PROVE DegradedAgrees'
  <2>1. task[t].plan \in Plans /\ PlanFit(plan[task[t].plan])
    BY <1>7, UploadRecordsDoes, FitOf, PlanFitOf DEF TaskFit, PlanPoints
  <2>2. /\ OnlyPlan(task[t].plan) /\ manager'.cleanup_degraded = manager.cleanup_degraded
        /\ plan'[task[t].plan].registered /\ plan'[task[t].plan].cleanup_failed <=>
              plan[task[t].plan].registered /\ plan[task[t].plan].cleanup_failed
    BY <1>7, <2>1, UploadRecordsDoes
    DEF PlanBecomes, StateKept, CleanupIs, CleanupKept
  <2> QED
    BY <2>1, <2>2, DegradedOne
<1>8. ASSUME NEW t \in Tasks, CommitDecides(t) PROVE DegradedAgrees'
  <2>1. task[t].plan \in Plans
    BY <1>8, CommitDecidesDoes, FitOf DEF TaskFit, PlanPoints
  <2>2. CASE UNCHANGED <<plan, manager>>
    BY <2>2, DegradedStill
  <2>3. CASE plan' # plan \/ manager' # manager
    <3>1. /\ OnlyPlan(task[t].plan)
          /\ manager'.cleanup_degraded = manager.cleanup_degraded
          /\ plan'[task[t].plan].registered = plan[task[t].plan].registered
          /\ plan'[task[t].plan].cleanup_failed = plan[task[t].plan].cleanup_failed
      BY <1>8, <2>3, CommitDecidesDoes DEF PlanBecomes, CleanupIs, CleanupKept, Settles,
        ManagerIs
    <3> QED
      BY <2>1, <3>1, DegradedOne
  <2> QED
    BY <2>2, <2>3
<1>9. ASSUME NEW t \in Tasks, CommitSettles(t) PROVE DegradedAgrees'
  <2>1. task[t].plan \in Plans /\ PlanFit(plan[task[t].plan])
    BY <1>9, CommitSettlesDoes, FitOf, PlanFitOf DEF TaskFit, PlanPoints
  <2>2. /\ OnlyPlan(task[t].plan) /\ manager'.cleanup_degraded = manager.cleanup_degraded
        /\ plan'[task[t].plan].registered /\ plan'[task[t].plan].cleanup_failed <=>
              plan[task[t].plan].registered /\ plan[task[t].plan].cleanup_failed
    BY <1>9, <2>1, CommitSettlesDoes
    DEF PlanBecomes, StateKept, CleanupIs, CleanupKept, Settles, ManagerIs
  <2> QED
    BY <2>1, <2>2, DegradedOne
<1>10. ASSUME NEW t \in Tasks, AbortBegins(t) PROVE DegradedAgrees'
  <2>1. task[t].plan \in Plans /\ PlanFit(plan[task[t].plan])
    BY <1>10, AbortBeginsDoes, FitOf, PlanFitOf DEF TaskFit, PlanPoints
  <2>2. /\ OnlyPlan(task[t].plan) /\ manager'.cleanup_degraded = manager.cleanup_degraded
        /\ plan'[task[t].plan].registered /\ plan'[task[t].plan].cleanup_failed <=>
              plan[task[t].plan].registered /\ plan[task[t].plan].cleanup_failed
    BY <1>10, <2>1, AbortBeginsDoes
    DEF PlanBecomes, StateKept, CleanupIs, CleanupKept
  <2> QED
    BY <2>1, <2>2, DegradedOne
<1>11. ASSUME NEW t \in Tasks, AbortDecides(t) PROVE DegradedAgrees'
  <2>1. task[t].plan \in Plans
    BY <1>11, AbortDecidesDoes, FitOf DEF TaskFit, PlanPoints
  <2>2. CASE UNCHANGED <<plan, manager>>
    BY <2>2, DegradedStill
  <2>3. CASE plan' # plan \/ manager' # manager
    <3>1. /\ OnlyPlan(task[t].plan)
          /\ manager'.cleanup_degraded = manager.cleanup_degraded
          /\ plan'[task[t].plan].registered = plan[task[t].plan].registered
          /\ plan'[task[t].plan].cleanup_failed = plan[task[t].plan].cleanup_failed
      BY <1>11, <2>3, AbortDecidesDoes DEF PlanBecomes, CleanupIs, CleanupKept, Settles,
        ManagerIs
    <3> QED
      BY <2>1, <3>1, DegradedOne
  <2> QED
    BY <2>2, <2>3
<1>12. ASSUME NEW t \in Tasks, CleanupRemoves(t) PROVE DegradedAgrees'
  <2> DEFINE p == task[t].plan
  <2>1. p \in Plans /\ plan[p].registered
    BY <1>12, CleanupRemovesDoes, FitOf, PlanFitOf DEF TaskFit, PlanPoints, CleanupFits, PlanFit
  <2>2. /\ OnlyPlan(p) /\ ~plan'[p].cleanup_failed
        /\ manager'.cleanup_degraded = IF plan[p].cleanup_failed
                                       THEN manager.cleanup_degraded - 1
                                       ELSE manager.cleanup_degraded
    BY <1>12, <2>1, CleanupRemovesDoes DEF StateKept, PlanBecomes, CleanupIs, ManagerIs
  <2>3. CASE ~plan[p].cleanup_failed
    BY <2>1, <2>2, <2>3, DegradedOne
  <2>4. CASE plan[p].cleanup_failed
    <3>1. Degrading' = Degrading \ {p} /\ p \in Degrading
      BY <2>1, <2>2, <2>4 DEF Degrading, Registered, OnlyPlan
    <3>2. Cardinality(Degrading') = Cardinality(Degrading) - 1
      BY <3>1, DegradingFinite, FS_RemoveElement
    <3> QED
      BY <2>2, <2>4, <3>2 DEF DegradedAgrees, Degrading
  <2> QED
    BY <2>3, <2>4
<1>13. ASSUME NEW t \in Tasks, CleanupFails(t) PROVE DegradedAgrees'
  <2> DEFINE p == task[t].plan
  <2>1. p \in Plans /\ plan[p].registered
    BY <1>13, CleanupFailsDoes, FitOf, PlanFitOf DEF TaskFit, PlanPoints, CleanupFits, PlanFit
  <2>2. /\ OnlyPlan(p) /\ plan'[p].cleanup_failed /\ plan'[p].registered
        /\ manager'.cleanup_degraded = IF plan[p].cleanup_failed
                                       THEN manager.cleanup_degraded
                                       ELSE manager.cleanup_degraded + 1
    BY <1>13, <2>1, CleanupFailsDoes DEF StateKept, PlanBecomes, CleanupIs, ManagerIs
  <2>3. CASE plan[p].cleanup_failed
    BY <2>1, <2>2, <2>3, DegradedOne
  <2>4. CASE ~plan[p].cleanup_failed
    <3>1. Degrading' = Degrading \cup {p} /\ p \notin Degrading
      BY <2>1, <2>2, <2>4 DEF Degrading, Registered, OnlyPlan
    <3>2. Cardinality(Degrading') = Cardinality(Degrading) + 1
      BY <3>1, DegradingFinite, FS_AddElement
    <3> QED
      BY <2>2, <2>4, <3>2 DEF DegradedAgrees, Degrading
  <2> QED
    BY <2>3, <2>4
<1>14. ASSUME NEW t \in Tasks, PruneForgets(t) PROVE DegradedAgrees'
  <2>1. ASSUME NEW p \in Plans
       PROVE  plan'[p].registered /\ plan'[p].cleanup_failed <=>
                plan[p].registered /\ plan[p].cleanup_failed
    <3>1. CASE p \in task[t].list
      BY <1>14, <3>1, PruneForgetsDoes, PlanFitOf DEF CleanupFits, PlanFit, CleanupKept,
        CleanupIs
    <3>2. CASE p \notin task[t].list
      BY <1>14, <3>2, PruneForgetsDoes
    <3> QED
      BY <3>1, <3>2
  <2> QED
    BY <1>14, <2>1, PruneForgetsDoes, DegradedStill
<1>15. ASSUME NEW t \in Clients, Request(t) PROVE DegradedAgrees'
  BY <1>15, RequestDoes, DegradedStill DEF Accepted, ManagerIs
<1>16. CASE ReapBegins
  BY <1>16, ReapBeginsDoes, DegradedStill
<1>17. CASE ShutdownBegins
  BY <1>17, ShutdownBeginsDoes, DegradedStill
<1>18. CASE ShutdownCancels
  BY <1>18, ShutdownCancelsDoes, DegradedStill DEF CleanupKept, CleanupIs
<1>19. CASE ShutdownDrains
  BY <1>19, ShutdownDrainsDoes, DegradedStill
<1>20. ASSUME NEW p \in Plans, Overdue(p) \/ Age(p) PROVE DegradedAgrees'
  BY <1>20, TimeDoes, DegradedOne
  DEF StateKept, CleanupKept, PlanBecomes, CleanupIs
<1>21. CASE Crash
  <2>1. Degrading' = {}
    BY <1>21, CrashDoes DEF Degrading, Registered, Forgotten
  <2> QED
    BY <1>21, <2>1, CrashDoes, FS_EmptySet DEF DegradedAgrees, Degrading
<1>22. CASE Restart
  BY <1>22, RestartDoes, DegradedStill DEF DownFits, Forgotten
<1> QED
  BY <1>1, <1>2, <1>3, <1>4, <1>5, <1>6, <1>7, <1>8, <1>9, <1>10, <1>11,
      <1>12, <1>13, <1>14, <1>15, <1>16, <1>17, <1>18, <1>19, <1>20, <1>21,
      <1>22
  DEF Next, Step, Create, Upload, Commit, Abort, Cleanup, Prune, Loop,
      Shutdown, AtRest

(* Task u has still to notify those who wait for the commit of plan p.     *)
Settling(u, p) ==
  task[u].op = "commit" /\ task[u].plan = p /\ (task[u].pc = "apply" \/ task[u].role = "commit")

(* Task t goes on to notify, and waits only while another will.            *)
LEMMA WaitersWakeAgain ==
  ASSUME WaitersWake, NEW t \in Tasks, OnlyTask(t),
         task'[t].pc = "wait" => \E u \in Tasks \ {t} : Settling(u, task'[t].plan),
         \A p : Settling(t, p) => Settling(t, p)'
  PROVE  WaitersWake'
<1>1. \A u \in Tasks \ {t} : task'[u] = task[u]
  BY DEF OnlyTask
<1>2. ASSUME NEW v \in Tasks, task'[v].pc = "wait", ~task'[v].heard
     PROVE  \E u \in Tasks : Settling(u, task[v].plan)'
  <2>1. \E u \in Tasks : Settling(u, task'[v].plan) /\ (v = t => u # t)
    BY <1>1, <1>2 DEF WaitersWake, Settling
  <2> QED
    BY <1>1, <2>1 DEF Settling
<1> QED
  BY <1>2 DEF WaitersWake, Settling

(* Task t does not wait, and had nobody to notify or still has.            *)
LEMMA WaitersWakeMoved ==
  ASSUME WaitersWake, NEW t \in Tasks, OnlyTask(t), task'[t].pc # "wait",
         \/ task[t].pc # "apply" /\ task[t].role # "commit"
         \/ /\ task'[t].op = task[t].op /\ task'[t].plan = task[t].plan
            /\ task'[t].role = task[t].role /\ task[t].pc # "apply"
  PROVE  WaitersWake'
BY WaitersWakeAgain DEF Settling

(* A plan that commits does so in a task that will notify.                 *)
LEMMA SomeoneSettles ==
  ASSUME TaskFits, CommitFits, NEW p \in Plans, plan[p].state = "Committing",
         NEW t \in Tasks, task[t].pc # "apply"
  PROVE  \E u \in Tasks \ {t} : Settling(u, p)
BY FitOf DEF CommitFits, Settling, TaskFit

(* Every step keeps a notifier for whoever waits unheard.                  *)
LEMMA WaitersWakeKept ==
  ASSUME Shape, TaskFits, CommitFits, CloserFits, WaitersWake, [Next]_vars
  PROVE  WaitersWake'
<1>1. CASE UNCHANGED vars
  BY <1>1 DEF vars, WaitersWake
<1>2. ASSUME NEW t \in Tasks,
             NotFound(t) \/ CreateBegins(t) \/ CreateRefused(t)
             \/ UploadFails(t) \/ CommitWakes(t) \/ AbortWakes(t)
             \/ AbortOpenBegins(t) \/ NextPlan(t) \/ NoMorePlans(t)
     PROVE  WaitersWake'
  BY <1>2, QuietMoves, WaitersWakeMoved DEF QuietMove
<1>3. ASSUME NEW t \in Tasks, create_staging_dir(t) PROVE WaitersWake'
  BY <1>3, CreatesStaging, NoRole, WaitersWakeMoved DEF Reaches, CleanupPoints
<1>4. ASSUME NEW t \in Tasks, StagingRejected(t) PROVE WaitersWake'
  BY <1>4, StagingRejectedDoes, NoRole, WaitersWakeMoved, IdleIs DEF Rests, CleanupPoints
<1>5. ASSUME NEW t \in Tasks, InsertPlan(t) PROVE WaitersWake'
  BY <1>5, InsertPlanDoes, NoRole, WaitersWakeMoved, IdleIs DEF Rests, CleanupPoints
<1>6. ASSUME NEW t \in Tasks, UploadChecks(t) PROVE WaitersWake'
  BY <1>6, UploadChecksDoes, NoRole, WaitersWakeMoved, IdleIs DEF Rests, Advances, Reaches,
    CleanupPoints
<1>7. ASSUME NEW t \in Tasks, atomic_replace(t) PROVE WaitersWake'
  BY <1>7, StagesFile, NoRole, WaitersWakeMoved DEF Advances, Reaches, CleanupPoints
<1>8. ASSUME NEW t \in Tasks, UploadRecords(t) PROVE WaitersWake'
  BY <1>8, UploadRecordsDoes, NoRole, WaitersWakeMoved, IdleIs DEF Rests, CleanupPoints
<1>9. ASSUME NEW t \in Tasks, CommitDecides(t) PROVE WaitersWake'
  BY <1>9, CommitDecidesDoes, NoRole, WaitersWakeMoved, IdleIs
  DEF Rests, Advances, Reaches, CleanupPoints
<1>10. ASSUME NEW t \in Tasks, CommitSettles(t) PROVE WaitersWake'
  <2>1. /\ OnlyTask(t) /\ task[t].op = "commit" /\ task'[t].op = "commit"
        /\ task'[t].pc = "cleanup" /\ task'[t].role = "commit" /\ task'[t].plan = task[t].plan
    BY <1>10, CommitSettlesDoes DEF Reaches
  <2> QED
    BY <2>1, WaitersWakeAgain DEF Settling
<1>11. ASSUME NEW t \in Tasks, CommitLooks(t) PROVE WaitersWake'
  <2>1. task[t].plan \in Plans /\ task[t].role = "none" /\ task[t].pc = "look"
    BY <1>11, CommitLooksDoes, FitOf, NoRole DEF TaskFit, PlanPoints, CleanupPoints
  <2>2. CASE Rests(t)
    BY <2>1, <2>2, WaitersWakeMoved, IdleIs DEF Rests
  <2>3. CASE plan[task[t].plan].state = "Committing" /\ Advances(t, "wait")
    <3>1. \E u \in Tasks \ {t} : Settling(u, task[t].plan)
      BY <2>1, <2>3, SomeoneSettles
    <3> QED
      BY <2>1, <2>3, <3>1, WaitersWakeAgain DEF Settling, Advances, Reaches
  <2> QED
    BY <1>11, <2>2, <2>3, CommitLooksDoes
<1>12. ASSUME NEW t \in Tasks, AbortBegins(t) PROVE WaitersWake'
  BY <1>12, AbortBeginsDoes, NoRole, WaitersWakeMoved DEF Reaches, CleanupPoints
<1>13. ASSUME NEW t \in Tasks, AbortDecides(t) PROVE WaitersWake'
  <2>1. task[t].plan \in Plans /\ task[t].role # "commit" /\ task[t].pc = "alone"
    BY <1>13, AbortDecidesDoes, FitOf DEF TaskFit, PlanPoints, CleanupPoints
  <2>2. CASE Advances(t, "cleanup")
    BY <2>1, <2>2, WaitersWakeMoved DEF Advances, Reaches
  <2>3. CASE plan[task[t].plan].state = "Committing" /\ Advances(t, "wait")
    <3>1. \E u \in Tasks \ {t} : Settling(u, task[t].plan)
      BY <2>1, <2>3, SomeoneSettles
    <3> QED
      BY <2>1, <2>3, <3>1, WaitersWakeAgain DEF Settling, Advances, Reaches
  <2> QED
    BY <1>13, <2>2, <2>3, AbortDecidesDoes
<1>14. ASSUME NEW t \in Tasks, CleanupBegins(t) PROVE WaitersWake'
  BY <1>14, CleanupBeginsDoes, WaitersWakeMoved DEF Advances, Reaches
<1>15. ASSUME NEW t \in Tasks, CleanupRemoves(t) PROVE WaitersWake'
  BY <1>15, CleanupRemovesDoes, WaitersWakeMoved DEF Advances, Reaches
<1>16. ASSUME NEW t \in Tasks, CleanupFails(t) PROVE WaitersWake'
  BY <1>16, CleanupFailsDoes, WaitersWakeMoved DEF Advances, Reaches
<1>17. ASSUME NEW t \in Tasks, Cleaned(t) PROVE WaitersWake'
  <2>1. /\ task[t].pc = "cleaned" /\ task'[t].pc # "wait"
        /\ \A u \in Tasks \ {t} : Told(t, u)
    BY <1>17, CleanedDoes, IdleIs
  <2>2. ASSUME NEW v \in Tasks, task'[v].pc = "wait", ~task'[v].heard
       PROVE  \E u \in Tasks : Settling(u, task[v].plan)'
    <3>1. /\ v # t /\ task[v].pc = "wait" /\ ~task[v].heard /\ task'[v].plan = task[v].plan
      BY <2>1, <2>2 DEF Told
    <3>2. PICK u \in Tasks : Settling(u, task[v].plan)
      BY <3>1 DEF WaitersWake, Settling
    <3>3. u # t
      BY <2>1, <2>2, <3>1, <3>2 DEF Settling, Told, Hears
    <3> QED
      BY <2>1, <3>1, <3>2, <3>3 DEF Settling, Told
  <2> QED
    BY <2>2 DEF WaitersWake, Settling
<1>18. ASSUME NEW t \in Tasks, PruneLooks(t) PROVE WaitersWake'
  BY <1>18, PruneLooksDoes, WaitersWakeMoved, IdleIs DEF Prunes, Reaches, Rests
<1>19. ASSUME NEW t \in Tasks, PruneForgets(t) PROVE WaitersWake'
  BY <1>19, PruneForgetsDoes, WaitersWakeMoved, IdleIs DEF Prunes, Reaches, Rests
<1>20. ASSUME NEW t \in Clients, Request(t) PROVE WaitersWake'
  BY <1>20, RequestDoes, WaitersWakeMoved, IdleIs DEF Accepted, Tasks
<1>21. CASE ReapBegins
  BY <1>21, ReapBeginsDoes, WaitersWakeMoved, IdleIs DEF Tasks
<1>22. CASE ShutdownBegins
  BY <1>22, ShutdownBeginsDoes, WaitersWakeMoved, IdleIs DEF CloserFits, Tasks
<1>23. CASE ShutdownCancels
  BY <1>23, ShutdownCancelsDoes, WaitersWakeMoved DEF Advances, Reaches, Tasks
<1>24. CASE ShutdownDrains
  BY <1>24, ShutdownDrainsDoes, WaitersWakeMoved DEF Reaches, Tasks
<1>25. ASSUME NEW p \in Plans, Overdue(p) \/ Age(p) PROVE WaitersWake'
  BY <1>25, TimeDoes DEF WaitersWake
<1>26. CASE Crash
  BY <1>26, CrashDoes, IdleIs DEF WaitersWake
<1>27. CASE Restart
  BY <1>27, RestartDoes DEF WaitersWake
<1> QED
  BY <1>1, <1>2, <1>3, <1>4, <1>5, <1>6, <1>7, <1>8, <1>9, <1>10, <1>11,
      <1>12, <1>13, <1>14, <1>15, <1>16, <1>17, <1>18, <1>19, <1>20, <1>21,
      <1>22, <1>23, <1>24, <1>25, <1>26, <1>27
  DEF Next, Step, Create, Upload, Commit, Abort, Cleanup, Prune, Loop,
      Shutdown, AtRest

(***************************************************************************)
(* The theorems.                                                           *)
(***************************************************************************)

(* A new process satisfies every part.                                     *)
LEMMA InitInvariant == ASSUME Init PROVE SyncManagerInv
<1>1. /\ \A p \in Plans : plan[p] = NewPlan
      /\ \A t \in Tasks : task[t] = Idle
      /\ plan \in [Plans -> PlanRecords] /\ task \in [Tasks -> TaskRecords]
  BY NewIs, IdleIs DEF Init
<1>2. /\ manager \in ManagerRecords /\ manager.up /\ ~manager.closed
      /\ manager.permits = 1 /\ manager.cleanup_degraded = 0
  BY DEF Init, ManagerRecords
<1>3. Shape /\ DownFits
  BY <1>1, <1>2, NewIs DEF Shape, DownFits
<1>4. TaskFits /\ PlanFits
  BY <1>1, IdleFits, NewFits DEF TaskFits, PlanFits
<1>5. PermitFits
  BY <1>1, <1>2, IdleIs, NewIs DEF PermitFits, Creates, Active
<1>6. UploadFits /\ CommitFits
  BY <1>1, IdleIs, NewIs DEF UploadFits, HoldsActivity, CommitFits
<1>7. CleanupFits
  BY <1>1, IdleIs DEF CleanupFits, InCleanup
<1>8. CloserFits
  BY <1>1, <1>2, IdleIs DEF CloserFits, Tasks
<1>9. DegradedAgrees
  <2>1. {p \in Registered : plan[p].cleanup_failed} = {}
    BY <1>1, NewIs DEF Registered
  <2> QED
    BY <1>2, <2>1, FS_EmptySet DEF DegradedAgrees
<1>10. WaitersWake
  BY <1>1, IdleIs DEF WaitersWake
<1> QED
  BY <1>3, <1>4, <1>5, <1>6, <1>7, <1>8, <1>9, <1>10 DEF SyncManagerInv

(* Every step keeps every part: the layers put together.                   *)
LEMMA NextInvariant == ASSUME SyncManagerInv, [Next]_vars PROVE SyncManagerInv'
<1>1. /\ Shape /\ TaskFits /\ PlanFits /\ DownFits /\ PermitFits /\ UploadFits
      /\ CommitFits /\ CleanupFits /\ CloserFits /\ DegradedAgrees /\ WaitersWake
  BY DEF SyncManagerInv
<1>2. Shape' /\ TaskFits' /\ PlanFits'
  BY <1>1, ShapeKept, TaskFitsKept, PlanFitsKept
<1>3. DownFits' /\ PermitFits' /\ UploadFits'
  BY <1>1, DownFitsKept, PermitFitsKept, UploadFitsKept
<1>4. CommitFits' /\ CleanupFits' /\ CloserFits'
  BY <1>1, CommitFitsKept, CleanupFitsKept, CloserFitsKept
<1>5. DegradedAgrees' /\ WaitersWake'
  BY <1>1, DegradedKept, WaitersWakeKept
<1> QED
  BY <1>2, <1>3, <1>4, <1>5 DEF SyncManagerInv

(* Requests, the reaper, shutdown, faults and crashes, in any order, keep  *)
(* the bookkeeping of the manager consistent: the inductive invariant      *)
(* holds.                                                                  *)
THEOREM SyncManagerInvariant == Spec => []SyncManagerInv
BY InitInvariant, NextInvariant, PTL DEF Spec

(* The parts give the sum of the permits.                                  *)
LEMMA InvariantPermit == ASSUME SyncManagerInv PROVE PermitKept
<1>1. Shape /\ PlanFits /\ PermitFits /\ DegradedAgrees
  BY DEF SyncManagerInv
<1>2. manager.cleanup_degraded \in 0 .. Cardinality(Plans)
  <2>1. manager.cleanup_degraded = Cardinality(Degrading)
    BY <1>1 DEF DegradedAgrees, Degrading
  <2>2. Cardinality(Degrading) =< Cardinality(Plans) /\ Cardinality(Plans) \in Nat
    BY SyncManagerAssumption, FS_Subset, FS_CardinalityType DEF Degrading, Registered
  <2> QED
    BY <2>1, <2>2, DegradingFinite
<1>3. SyncManagerTypeOK
  <2>1. \A t \in Tasks : task[t].plan \in Plans \cup {NoPlan}
    BY <1>1 DEF Shape, TaskRecords
  <2>2. manager.permits \in 0 .. 1
    BY <1>1 DEF PermitFits
  <2>3. plan \in [Plans -> PlanRecords]
    BY <1>1 DEF Shape
  <2> QED
    BY <1>2, <2>1, <2>2, <2>3 DEF SyncManagerTypeOK, PlanRecords, States
<1> DEFINE creators == {t \in Tasks : task[t].op = "create" /\ task[t].pc = "insert"}
           holders == {p \in Plans : plan[p].permit}
<1>4. holders = {p \in Plans : plan[p].state \in Active}
  BY <1>1, PlanFitOf DEF PlanFit
<1>5. /\ \A t \in Tasks : t \in creators <=> Creates(t)
      /\ \A p \in Plans : p \in holders <=> plan[p].state \in Active
  BY <1>4 DEF Creates
<1> HIDE DEF creators, holders
<1>6. creators \subseteq Tasks /\ holders \subseteq Plans
  BY DEF creators, holders
<1>7. Cardinality({}) = 0
  BY FS_EmptySet
<1>8. CASE manager.permits = 1
  <2>1. creators = {} /\ holders = {}
    BY <1>1, <1>5, <1>6, <1>8 DEF PermitFits
  <2>2. manager.permits + Cardinality(creators) + Cardinality(holders) = 1
    BY <1>7, <1>8, <2>1
  <2> QED
    BY <1>3, <1>4, <2>2 DEF PermitKept, PermitAgrees, creators, holders
<1>9. CASE manager.permits = 0 /\ \E t \in Tasks : Creates(t)
  <2>1. PICK t \in Tasks : Creates(t)
    BY <1>9
  <2>2. creators = {t} /\ holders = {}
    BY <1>1, <1>5, <1>6, <2>1 DEF PermitFits
  <2>3. Cardinality(creators) = 1
    BY <2>2, FS_Singleton
  <2>4. manager.permits + Cardinality(creators) + Cardinality(holders) = 1
    BY <1>7, <1>9, <2>2, <2>3
  <2> QED
    BY <1>3, <1>4, <2>4 DEF PermitKept, PermitAgrees, creators, holders
<1>10. CASE manager.permits = 0 /\ \E p \in Plans : plan[p].state \in Active
  <2>1. PICK p \in Plans : plan[p].state \in Active
    BY <1>10
  <2>2. creators = {} /\ holders = {p}
    BY <1>1, <1>5, <1>6, <2>1 DEF PermitFits
  <2>3. Cardinality(holders) = 1
    BY <2>2, FS_Singleton
  <2>4. manager.permits + Cardinality(creators) + Cardinality(holders) = 1
    BY <1>7, <1>10, <2>2, <2>3
  <2> QED
    BY <1>3, <1>4, <2>4 DEF PermitKept, PermitAgrees, creators, holders
<1>11. manager.permits \in 0 .. 1
  BY <1>1 DEF PermitFits
<1>12. manager.permits = 1 \/ manager.permits = 0
  BY <1>11
<1> QED
  BY <1>1, <1>8, <1>9, <1>10, <1>12 DEF PermitFits

(* The parts give that staging is kept, and used by uploads of open plans. *)
LEMMA InvariantStaging == ASSUME SyncManagerInv PROVE StagingSafe
<1>1. PlanFits /\ UploadFits
  BY DEF SyncManagerInv
<1>2. StagingKept
  BY <1>1, PlanFitOf DEF StagingKept, PlanFit
<1>3. UploadsIntoOpenPlan
  BY <1>1 DEF UploadFits, UploadsIntoOpenPlan
<1> QED
  BY <1>2, <1>3 DEF StagingSafe

(* The parts give that no staging leaks, and the counter.                  *)
LEMMA InvariantCleanup == ASSUME SyncManagerInv PROVE CleanupAgrees
<1>1. Shape /\ PlanFits /\ DownFits /\ DegradedAgrees
  BY DEF SyncManagerInv
<1>2. ASSUME manager.up, NEW p \in Plans, plan[p].staging
     PROVE  \/ plan[p].state \in Active \cup {"created", "abandoned"}
            \/ plan[p].registered /\ plan[p].cleanup_pending
  <2>1. plan[p].state \in States /\ plan[p].state # "none"
    BY <1>1, <1>2 DEF Shape, PlanRecords, DownFits
  <2> QED
    BY <1>1, <1>2, <2>1, PlanFitOf DEF PlanFit, States
<1> QED
  BY <1>1, <1>2 DEF CleanupAgrees, NothingLeaks

(* The parts give that shutdown leaves nothing.                            *)
LEMMA InvariantStopped == ASSUME SyncManagerInv PROVE StoppedIsClean
<1>1. CloserFits
  BY DEF SyncManagerInv
<1> QED
  BY <1>1, IdleIs DEF CloserFits, StoppedIsClean

(* create_plan, release_plan: the one permit is never lost or doubled, so  *)
(* at most one plan is active, however creations, ends and crashes         *)
(* interleave.                                                             *)
THEOREM OnePermit == Spec => []PermitKept
BY SyncManagerInvariant, InvariantPermit, PTL

(* receive_upload, commit: an open or committing plan keeps its staging    *)
(* with every file a client was told is there, and no upload writes to a   *)
(* plan that commits.                                                      *)
THEOREM StagingIsSafe == Spec => []StagingSafe
BY SyncManagerInvariant, InvariantStaging, PTL

(* cleanup_session: staging that is not removed stays owed by a registered *)
(* plan, and the degraded counter counts exactly the failed removals.      *)
THEOREM CleanupIsOwed == Spec => []CleanupAgrees
BY SyncManagerInvariant, InvariantCleanup, PTL

(* shutdown: when it returns no other task runs and no plan is active.     *)
THEOREM ShutdownIsClean == Spec => []StoppedIsClean
BY SyncManagerInvariant, InvariantStopped, PTL

(* wait_for_commit: no waiter is left without a commit that will notify    *)
(* it.                                                                     *)
THEOREM WaitersAreWoken == Spec => []WaitersWake
<1>1. SyncManagerInv => WaitersWake
  BY DEF SyncManagerInv
<1> QED
  BY <1>1, SyncManagerInvariant, PTL

(* Plan p stays known to the process.                                      *)
Remembers(p) == plan[p].registered /\ manager'.up => plan'[p].registered

(* So do all plans when the one that changes does.                         *)
LEMMA RemembersAll ==
  ASSUME NEW p \in Plans, NEW q \in Plans, OnlyPlan(q),
         plan[q].registered => plan'[q].registered
  PROVE  Remembers(p)
BY DEF Remembers, OnlyPlan

(* Plan p stays known, or prune_results forgets it.                        *)
Kept(p) == Remembers(p) \/ \E t \in Tasks : PruneForgets(t) /\ p \in Prunable(task[t].list)

(* Nothing but prune_results forgets a plan of a process that stays up.    *)
LEMMA OnlyPruningForgets ==
  ASSUME Shape, TaskFits, PlanFits, DownFits, PermitFits, CommitFits,
      [Next]_vars, NEW p \in Plans
  PROVE  Kept(p)
<1>1. CASE UNCHANGED vars
  BY <1>1 DEF vars, Remembers, Kept
<1>2. ASSUME NEW t \in Tasks,
             NotFound(t) \/ CreateBegins(t) \/ CreateRefused(t)
             \/ UploadChecks(t) \/ UploadFails(t) \/ CommitLooks(t)
             \/ CommitWakes(t) \/ AbortWakes(t) \/ CleanupBegins(t)
             \/ Cleaned(t) \/ PruneLooks(t) \/ AbortOpenBegins(t)
             \/ NextPlan(t) \/ NoMorePlans(t)
     PROVE  Kept(p)
  BY <1>2, OnlyTasksMove DEF Kept, Remembers
<1>3. ASSUME NEW t \in Tasks, create_staging_dir(t) PROVE Kept(p)
  BY <1>3, CreatesStaging, RemembersAll DEF Kept, PlanBecomes
<1>4. ASSUME NEW t \in Tasks, StagingRejected(t) PROVE Kept(p)
  <2>1. task[t].plan \in Plans /\ PlanFit(plan[task[t].plan])
    BY <1>4, StagingRejectedDoes, FitOf, PlanFitOf DEF TaskFit, PlanPoints
  <2>2. /\ OnlyPlan(task[t].plan)
        /\ plan[task[t].plan].registered => plan'[task[t].plan].registered
    BY <1>4, <2>1, StagingRejectedDoes, NewIs DEF PlanBecomes, StateKept, PermitFits, Creates,
      PlanFit, Active, Ended
  <2> QED
    BY <2>1, <2>2, RemembersAll DEF Kept
<1>5. ASSUME NEW t \in Tasks, InsertPlan(t) PROVE Kept(p)
  <2>1. task[t].plan \in Plans /\ PlanFit(plan[task[t].plan])
    BY <1>5, InsertPlanDoes, FitOf, PlanFitOf DEF TaskFit, PlanPoints
  <2>2. /\ OnlyPlan(task[t].plan)
        /\ plan[task[t].plan].registered => plan'[task[t].plan].registered
    BY <1>5, <2>1, InsertPlanDoes DEF PlanBecomes, StateKept
  <2> QED
    BY <2>1, <2>2, RemembersAll DEF Kept
<1>6. ASSUME NEW t \in Tasks, atomic_replace(t) PROVE Kept(p)
  <2>1. task[t].plan \in Plans /\ PlanFit(plan[task[t].plan])
    BY <1>6, StagesFile, FitOf, PlanFitOf DEF TaskFit, PlanPoints
  <2>2. /\ OnlyPlan(task[t].plan)
        /\ plan[task[t].plan].registered => plan'[task[t].plan].registered
    BY <1>6, <2>1, StagesFile DEF PlanBecomes, StateKept
  <2> QED
    BY <2>1, <2>2, RemembersAll DEF Kept
<1>7. ASSUME NEW t \in Tasks, UploadRecords(t) PROVE Kept(p)
  <2>1. task[t].plan \in Plans /\ PlanFit(plan[task[t].plan])
    BY <1>7, UploadRecordsDoes, FitOf, PlanFitOf DEF TaskFit, PlanPoints
  <2>2. /\ OnlyPlan(task[t].plan)
        /\ plan[task[t].plan].registered => plan'[task[t].plan].registered
    BY <1>7, <2>1, UploadRecordsDoes DEF PlanBecomes, StateKept
  <2> QED
    BY <2>1, <2>2, RemembersAll DEF Kept
<1>8. ASSUME NEW t \in Tasks, CommitDecides(t) PROVE Kept(p)
  <2>1. task[t].plan \in Plans
    BY <1>8, CommitDecidesDoes, FitOf DEF TaskFit, PlanPoints
  <2>2. CASE UNCHANGED plan
    BY <2>2 DEF Kept, Remembers
  <2>3. CASE plan' # plan
    <3>1. /\ OnlyPlan(task[t].plan)
          /\ plan'[task[t].plan].registered = plan[task[t].plan].registered
      BY <1>8, <2>3, CommitDecidesDoes DEF PlanBecomes, Settles
    <3> QED
      BY <2>1, <3>1, RemembersAll DEF Kept
  <2> QED
    BY <2>2, <2>3
<1>9. ASSUME NEW t \in Tasks, CommitSettles(t) PROVE Kept(p)
  <2>1. task[t].plan \in Plans /\ PlanFit(plan[task[t].plan])
    BY <1>9, CommitSettlesDoes, FitOf, PlanFitOf DEF TaskFit, PlanPoints
  <2>2. /\ OnlyPlan(task[t].plan)
        /\ plan[task[t].plan].registered => plan'[task[t].plan].registered
    BY <1>9, <2>1, CommitSettlesDoes DEF PlanBecomes, StateKept, Settles
  <2> QED
    BY <2>1, <2>2, RemembersAll DEF Kept
<1>10. ASSUME NEW t \in Tasks, AbortBegins(t) PROVE Kept(p)
  <2>1. task[t].plan \in Plans /\ PlanFit(plan[task[t].plan])
    BY <1>10, AbortBeginsDoes, FitOf, PlanFitOf DEF TaskFit, PlanPoints
  <2>2. /\ OnlyPlan(task[t].plan)
        /\ plan[task[t].plan].registered => plan'[task[t].plan].registered
    BY <1>10, <2>1, AbortBeginsDoes DEF PlanBecomes, StateKept
  <2> QED
    BY <2>1, <2>2, RemembersAll DEF Kept
<1>11. ASSUME NEW t \in Tasks, AbortDecides(t) PROVE Kept(p)
  <2>1. task[t].plan \in Plans
    BY <1>11, AbortDecidesDoes, FitOf DEF TaskFit, PlanPoints
  <2>2. CASE UNCHANGED plan
    BY <2>2 DEF Kept, Remembers
  <2>3. CASE plan' # plan
    <3>1. /\ OnlyPlan(task[t].plan)
          /\ plan'[task[t].plan].registered = plan[task[t].plan].registered
      BY <1>11, <2>3, AbortDecidesDoes DEF PlanBecomes, Settles
    <3> QED
      BY <2>1, <3>1, RemembersAll DEF Kept
  <2> QED
    BY <2>2, <2>3
<1>12. ASSUME NEW t \in Tasks, CleanupRemoves(t) PROVE Kept(p)
  <2>1. task[t].plan \in Plans /\ PlanFit(plan[task[t].plan])
    BY <1>12, CleanupRemovesDoes, FitOf, PlanFitOf DEF TaskFit, PlanPoints
  <2>2. /\ OnlyPlan(task[t].plan)
        /\ plan[task[t].plan].registered => plan'[task[t].plan].registered
    BY <1>12, <2>1, CleanupRemovesDoes DEF PlanBecomes, StateKept
  <2> QED
    BY <2>1, <2>2, RemembersAll DEF Kept
<1>13. ASSUME NEW t \in Tasks, CleanupFails(t) PROVE Kept(p)
  <2>1. task[t].plan \in Plans /\ PlanFit(plan[task[t].plan])
    BY <1>13, CleanupFailsDoes, FitOf, PlanFitOf DEF TaskFit, PlanPoints
  <2>2. /\ OnlyPlan(task[t].plan)
        /\ plan[task[t].plan].registered => plan'[task[t].plan].registered
    BY <1>13, <2>1, CleanupFailsDoes DEF PlanBecomes, StateKept
  <2> QED
    BY <2>1, <2>2, RemembersAll DEF Kept
<1>14. ASSUME NEW t \in Tasks, PruneForgets(t) PROVE Kept(p)
  <2>1. CASE p \in Prunable(task[t].list)
    BY <1>14, <2>1 DEF Kept
  <2>2. CASE p \notin Prunable(task[t].list)
    BY <1>14, <2>2 DEF PruneForgets, Kept, Remembers
  <2> QED
    BY <2>1, <2>2
<1>15. ASSUME NEW t \in Clients, Request(t) PROVE Kept(p)
  BY <1>15, RequestDoes DEF Kept, Remembers, Accepted
<1>16. CASE ReapBegins
  BY <1>16, ReapBeginsDoes DEF Kept, Remembers
<1>17. CASE ShutdownBegins
  BY <1>17, ShutdownBeginsDoes DEF Kept, Remembers
<1>18. CASE ShutdownCancels
  BY <1>18, ShutdownCancelsDoes DEF Kept, Remembers
<1>19. CASE ShutdownDrains
  BY <1>19, ShutdownDrainsDoes DEF Kept, Remembers
<1>20. ASSUME NEW q \in Plans, Overdue(q) \/ Age(q) PROVE Kept(p)
  BY <1>20, TimeDoes, RemembersAll DEF Kept, StateKept, PlanBecomes
<1>21. CASE Crash
  BY <1>21, CrashDoes DEF Kept, Remembers
<1>22. CASE Restart
  BY <1>22, RestartDoes DEF Kept, Remembers, DownFits
<1> QED
  BY <1>1, <1>2, <1>3, <1>4, <1>5, <1>6, <1>7, <1>8, <1>9, <1>10, <1>11,
      <1>12, <1>13, <1>14, <1>15, <1>16, <1>17, <1>18, <1>19, <1>20, <1>21,
      <1>22
  DEF Next, Step, Create, Upload, Commit, Abort, Cleanup, Prune, Loop,
      Shutdown, AtRest

(* prune_results: the outcome of a plan is forgotten only when the plan    *)
(* has ended, its staging is removed, and it is old or enough later ones   *)
(* are kept.                                                               *)
THEOREM ResultsAreKept == Spec => ResultsKept
<1>1. ASSUME SyncManagerInv, [Next]_vars
     PROVE  \A p \in Plans :
            plan[p].registered /\ ~plan'[p].registered /\ manager'.up =>
              /\ plan[p].state \in Ended /\ ~plan[p].cleanup_pending
              /\ \/ plan[p].aged
                 \/ Cardinality({q \in Plans : plan[q].finished > plan[p].finished})
                      >= MaxRetained
  <2> SUFFICES ASSUME NEW p \in Plans, plan[p].registered, ~plan'[p].registered, manager'.up
               PROVE  /\ plan[p].state \in Ended /\ ~plan[p].cleanup_pending
                      /\ \/ plan[p].aged
                         \/ Cardinality({q \in Plans : plan[q].finished > plan[p].finished})
                              >= MaxRetained
    OBVIOUS
  <2>1. /\ Shape /\ TaskFits /\ PlanFits /\ DownFits /\ PermitFits /\ CommitFits
        /\ CleanupFits
    BY <1>1 DEF SyncManagerInv
  <2> DEFINE later == {q \in Plans : plan[q].finished > plan[p].finished}
  <2>2. PICK t \in Tasks : PruneForgets(t) /\ p \in Prunable(task[t].list)
    BY <1>1, <2>1, OnlyPruningForgets DEF Kept, Remembers
  <2>3. p \in task[t].list /\ task[t].list \subseteq Plans
    BY <2>1, <2>2 DEF Prunable, Shape, TaskRecords
  <2>4. plan[p].state \in Ended /\ ~plan[p].cleanup_pending
    BY <2>1, <2>3 DEF CleanupFits
  <2> DEFINE some == {q \in task[t].list : plan[q].finished > plan[p].finished}
  <2>5. some \subseteq later /\ later \subseteq Plans
    BY <2>3
  <2>6. plan[p].aged \/ Cardinality(some) >= MaxRetained
    BY <2>2 DEF Prunable
  <2> HIDE DEF some, later
  <2>7. /\ IsFiniteSet(later) /\ IsFiniteSet(some)
        /\ Cardinality(some) =< Cardinality(later)
    BY <2>5, SyncManagerAssumption, FS_Subset
  <2>8. Cardinality(some) \in Nat /\ Cardinality(later) \in Nat /\ MaxRetained \in Nat
    BY <2>7, SyncManagerAssumption, FS_CardinalityType
  <2>9. plan[p].aged \/ Cardinality(later) >= MaxRetained
    BY <2>6, <2>7, <2>8
  <2> QED
    BY <2>4, <2>9 DEF later
<1> QED
  BY <1>1, SyncManagerInvariant, PTL DEF Spec, ResultsKept
=============================================================================
