------------------------ MODULE WorkflowRefinement --------------------------
(***************************************************************************)
(* The workflow manager implements WorkflowLifecycle: every step of every  *)
(* task is a step of the life cycle that a client is promised, or invisible *)
(* to it.                                                                  *)
(***************************************************************************)
EXTENDS WorkflowProofs

(* A step that a client of the life cycle does not see.                    *)
Invisible == UNCHANGED <<active, status, marker>>

LEMMA LifecycleInit == Init => Lifecycle!Init
BY DEF Init, Fresh, StoreInit, Lifecycle!Init

(* A request for cleanup, whoever makes it, stops the owner or comes late.  *)
LEMMA RequestStops ==
  ASSUME TypeOK, SlotInv, NEW w \in Workflows, NEW target, NEW invalidate,
         request_cleanup(w, target, invalidate), UNCHANGED <<active, marker>>
  PROVE  Lifecycle!Stop(w) \/ Invisible
BY DEF request_cleanup, StillOwner, TypeOK, SlotInv, SlotAgrees, Owning, cleanupVars,
       Lifecycle!Stop, Lifecycle!Enter, Invisible

LEMMA LifecycleStep ==
  ASSUME TypeOK, SlotInv, PlanInv, TreeInv, [Next]_vars
  PROVE  [Lifecycle!Next]_Lifecycle!lifecycleVars
<1> USE NoneAssumption DEF Invisible, vars, storeVars, markerVars,
    registryVars, requestVars, cleanupVars, planVars, sessionVars, localVars,
    clientVars, flagVars, dataVars, outsideVars, workflowVars, PublishedVars,
    Owning, Terminal
<1>1. CASE UNCHANGED vars
  BY <1>1 DEF Lifecycle!lifecycleVars
(* Invisible steps. *)
<1>2. ASSUME NEW w \in Workflows,
             \/ CreateRead(w) \/ PushPlan(w) \/ CommitMarked(w)
             \/ CommitApply(w) \/ CommitOk(w) \/ CommitErr(w)
             \/ CommitRestore(w) \/ StartMarked(w) \/ Spawn(w)
             \/ FinishFails(w) \/ CleanupRound(w) \/ CleanupStops(w)
             \/ CleanupMarks(w) \/ CleanupMarked(w) \/ CleanupAborts(w)
             \/ CleanupAbortFails(w) \/ CleanupChecks(w)
             \/ CleanupDecides(w) \/ Heartbeat(w) \/ FallSilent(w)
             \/ lease(w) \/ PushBegin(w) \/ abort_sync(w) \/ CommitBegin(w)
             \/ StartRefused(w) \/ StartBegin(w) \/ StopReads(w)
             \/ FinishBegin(w) \/ TaskPanics(w) \/ ObserverPanics(w)
             \/ CleanupPanics(w) \/ LeaseDrop(w)
             \/ SessionEnds(w) \/ ObserverPolls(w) \/ CleanupLocks(w)
             \/ (\E reset \in BOOLEAN : CreateAccept(w, reset))
     PROVE  Invisible
  BY <1>2 DEF CreateRead, PushPlan, CommitMarked, CommitApply, CommitOk,
      CommitErr, CommitRestore, StartMarked, Spawn, FinishFails, CleanupRound,
      CleanupStops, CleanupMarks, CleanupMarked, CleanupAborts,
      CleanupAbortFails, CleanupChecks, CleanupDecides, Heartbeat, FallSilent,
      lease, PushBegin, abort_sync, CommitBegin, StartRefused, StartBegin,
      StopReads, FinishBegin, TaskPanics, ObserverPanics, CleanupPanics, LeaseDrop,
      SessionEnds, ObserverPolls, CleanupLocks, CreateAccept, mark_dirty, mark_clean,
      write_marker, MarkReturns
<1>3. CASE PlanExpires \/ ApplyWrites \/ ApplySettles \/ ShutdownEnds
  BY <1>3 DEF Lifecycle!lifecycleVars, PlanExpires, ApplyWrites, ApplySettles,
      ShutdownEnds
(* Steps that take, advance or release the slot. *)
<1>4. ASSUME NEW w \in Workflows, CreateReserve(w)
     PROVE  Lifecycle!Reserve(w) \/ Invisible
  BY <1>4 DEF CreateReserve, Goto, TypeOK, Lifecycle!Reserve, Lifecycle!Enter
<1>5. ASSUME NEW w \in Workflows, CreateRefuse(w)
     PROVE  Lifecycle!Release(w, "failed") \/ Invisible
  BY <1>5 DEF CreateRefuse, Done, Goto, TerminalAllowed, Publish, TypeOK,
      SlotInv, SlotAgrees, HolderOwns, StatusFits, CreateOps,
      Lifecycle!Release, Lifecycle!Enter
<1>6. ASSUME NEW w \in Workflows, StartOk(w)
     PROVE  Lifecycle!Run(w) \/ Invisible
  BY <1>6 DEF StartOk, Goto, TypeOK, SlotInv, SlotAgrees, HolderOwns,
      StatusFits, CleanupOps, PlanInv, MarkerFits, TreeInv,
      DirtyBeforeWriting, Lifecycle!Run, Lifecycle!Enter
<1>7. ASSUME NEW w \in Workflows, ObserverPublishes(w)
     PROVE  Lifecycle!Pull(w) \/ Invisible
  BY <1>7 DEF ObserverPublishes, Goto, MarkReturns, TypeOK, SlotInv,
      SlotAgrees, PlanInv, MarkerFits, CleanMarkOps, Lifecycle!Pull,
      Lifecycle!Enter
<1>8. ASSUME NEW w \in Workflows, FinishPublishes(w)
     PROVE  Lifecycle!Release(w, "completed") \/ Invisible
  <2>1. status[w] = "pulling" => marker = "clean" /\ active = w
    BY DEF SlotInv, SlotAgrees, PlanInv, MarkerFits, TreeInv, PullingIsPublished
  <2> QED
    BY <1>8, <2>1
    DEF FinishPublishes, Goto, TerminalAllowed, Publish, TypeOK, Lifecycle!Release,
        Lifecycle!Enter
<1>9. ASSUME NEW w \in Workflows, NEW st \in {"failed", "cancelled"},
             CleanupPublishes(w, st)
     PROVE  Lifecycle!Release(w, st) \/ Invisible
  BY <1>9 DEF CleanupPublishes, Done, Goto, TerminalAllowed, Publish, TypeOK,
      SlotInv, SlotAgrees, StatusFits, CleanupOps, Lifecycle!Release,
      Lifecycle!Enter
<1>10. ASSUME NEW w \in Workflows, prune(w)
     PROVE  Lifecycle!Prune(w) \/ Invisible
  BY <1>10 DEF prune, TypeOK, Lifecycle!Ended, Lifecycle!Prune,
      Lifecycle!Enter
(* Steps that may stop the owner. *)
<1>11. ASSUME NEW w \in Workflows, cancel(w)
     PROVE  Lifecycle!Stop(w) \/ Invisible
  BY <1>11, RequestStops DEF cancel
<1>12. ASSUME NEW w \in Workflows, expire_active(w)
     PROVE  Lifecycle!Stop(w) \/ Invisible
  BY <1>12, RequestStops DEF expire_active
<1>13. ASSUME NEW w \in Workflows, ReportFailure(w)
     PROVE  Lifecycle!Stop(w) \/ Invisible
  BY <1>13, RequestStops DEF ReportFailure
<1>14. ASSUME NEW w \in Workflows, MarkerError(w)
     PROVE  Lifecycle!Stop(w) \/ Invisible
  BY <1>14, RequestStops DEF MarkerError, fail, MarkReturns
<1>15. ASSUME NEW w \in Workflows, CommitGivesUp(w)
     PROVE  Lifecycle!Stop(w) \/ Invisible
  BY <1>15, RequestStops DEF CommitGivesUp, fail
<1>16. ASSUME NEW w \in Workflows, CommitRestored(w)
     PROVE  Lifecycle!Stop(w) \/ Invisible
  BY <1>16, RequestStops DEF CommitRestored, fail, MarkReturns
<1>17. ASSUME NEW w \in Workflows, SpawnFails(w)
     PROVE  Lifecycle!Stop(w) \/ Invisible
  BY <1>17, RequestStops DEF SpawnFails, fail
<1>18. ASSUME NEW w \in Workflows, ObserverLocks(w)
     PROVE  Lifecycle!Stop(w) \/ Invisible
  BY <1>18, RequestStops DEF ObserverLocks, fail, mark_clean, write_marker
(* Steps of the service. *)
<1>19. CASE shutdown
  <2>1. CASE active = None
    BY <1>19, <2>1 DEF shutdown, ShutdownCancels, Lifecycle!lifecycleVars
  <2>2. CASE active # None
    <3>1. Lifecycle!Stop(active) \/ Invisible
      BY <1>19, <2>2, RequestStops DEF shutdown, ShutdownCancels, TypeOK
    <3> QED
      BY <2>2, <3>1 DEF TypeOK, Lifecycle!Next, Lifecycle!lifecycleVars
  <2> QED
    BY <2>1, <2>2
<1>20. CASE MarkerStep
  <2>1. CASE Syncfs \/ DirSync \/ MarkFails
    BY <1>20, <2>1 DEF MarkerStep, Syncfs, DirSync, MarkFails, Lifecycle!lifecycleVars
  <2>2. CASE Rename
    <3>1. PICK w \in Workflows : op[w] \in MarkOps
      BY <2>2 DEF Rename, PlanInv, MarkerFits
    <3>2. Lifecycle!Mark(w) \/ Invisible
      BY <1>20, <2>2, <3>1
      DEF MarkerStep, Rename, TypeOK, StoreTypeOK, Markers, SlotInv, SlotAgrees,
          HolderOwns, StatusFits, PlanInv, MarkerFits, MarkOps, CleanMarkOps, DirtyMarkOps,
          Lifecycle!Mark
    <3> QED
      BY <3>2 DEF Lifecycle!Next, Lifecycle!lifecycleVars
  <2> QED
    BY <1>20, <2>1, <2>2 DEF MarkerStep, StoreStep
<1>21. CASE Restart \/ Crash
  <2>1. Lifecycle!Restarted
    BY <1>21 DEF Restart, Crash, Forget, Lifecycle!Restarted
  <2> QED
    BY <2>1 DEF Lifecycle!Next
(* What a step of a workflow's tasks is to the life cycle. *)
<1>22. ASSUME NEW w \in Workflows, HolderStep(w) \/ RequestStep(w) \/ TaskStep(w)
     PROVE  [Lifecycle!Next]_Lifecycle!lifecycleVars
  <2>1. \/ Invisible \/ Lifecycle!Reserve(w) \/ Lifecycle!Run(w) \/ Lifecycle!Pull(w)
        \/ Lifecycle!Stop(w) \/ Lifecycle!Prune(w)
        \/ \E to \in Lifecycle!Ended : Lifecycle!Release(w, to)
    BY <1>2, <1>4, <1>5, <1>6, <1>7, <1>8, <1>9, <1>10, <1>11, <1>12, <1>13,
        <1>14, <1>15, <1>16, <1>17, <1>18, <1>22
    DEF HolderStep, RequestStep, TaskStep, Lifecycle!Ended
  <2> QED
    BY <2>1 DEF Lifecycle!Next, Lifecycle!lifecycleVars
<1> QED
  BY <1>1, <1>3, <1>19, <1>20, <1>21, <1>22 DEF Next

(***************************************************************************)
(* The detailed specification implements the abstract one: with the slot   *)
(* as owner, the status as phase and a clean marker as reusable, every     *)
(* behaviour of the workflow manager, faults and restarts included, is a   *)
(* behaviour of the life cycle a client is promised.                       *)
(***************************************************************************)
THEOREM WorkflowImplementsLifecycle == Spec => ImplementsLifecycle
<1>1. Init => Lifecycle!Init
  BY LifecycleInit
<1>2. TypeOK /\ SlotInv /\ PlanInv /\ TreeInv /\ [Next]_vars
        => [Lifecycle!Next]_Lifecycle!lifecycleVars
  BY LifecycleStep
<1> QED
  BY <1>1, <1>2, TypeCorrect, SlotInvariant, PlanInvariant, TreeInvariant, PTL
  DEF Spec, ImplementsLifecycle, Lifecycle!Spec

(***************************************************************************)
(* What a release leaves behind.                                           *)
(***************************************************************************)
LEMMA RequestReleasesNothing ==
  ASSUME TypeOK, NEW w \in Workflows, NEW v \in Workflows, NEW target, NEW invalidate,
         request_cleanup(v, target, invalidate)
  PROVE  ~Releases(w)
BY DEF request_cleanup, cleanupVars, Releases, TypeOK, Owning, Terminal

(* A workflow ends in its creation, in finish or in its cleanup.           *)
Ends(w) ==
  \/ CreateRefuse(w) \/ FinishPublishes(w)
  \/ \E st \in {"failed", "cancelled"} : CleanupPublishes(w, st)

LEMMA OnlyAnEndReleases ==
  ASSUME TypeOK, [Next]_vars, NEW w \in Workflows, Releases(w)
  PROVE  Ends(w)
<1> USE NoneAssumption DEF vars, storeVars, markerVars, registryVars, requestVars,
    cleanupVars, planVars, sessionVars, localVars, clientVars, flagVars, dataVars,
    outsideVars, workflowVars, PublishedVars
<1>1. status' # status
  BY DEF Releases, Owning, Terminal
<1>2. ASSUME NEW v \in Workflows,
             \/ CreateRead(v) \/ PushPlan(v) \/ CommitMarked(v)
             \/ CommitApply(v) \/ CommitOk(v) \/ CommitErr(v)
             \/ CommitRestore(v) \/ StartMarked(v) \/ Spawn(v)
             \/ FinishFails(v) \/ CleanupRound(v) \/ CleanupStops(v)
             \/ CleanupMarks(v) \/ CleanupMarked(v) \/ CleanupAborts(v)
             \/ CleanupAbortFails(v) \/ CleanupChecks(v)
             \/ CleanupDecides(v) \/ Heartbeat(v) \/ FallSilent(v)
             \/ lease(v) \/ PushBegin(v) \/ abort_sync(v) \/ CommitBegin(v)
             \/ StartRefused(v) \/ StartBegin(v) \/ StopReads(v)
             \/ FinishBegin(v) \/ TaskPanics(v) \/ ObserverPanics(v)
             \/ CleanupPanics(v) \/ LeaseDrop(v)
             \/ SessionEnds(v) \/ ObserverPolls(v) \/ CleanupLocks(v)
             \/ (\E reset \in BOOLEAN : CreateAccept(v, reset))
     PROVE  FALSE
  BY <1>1, <1>2 DEF CreateRead, PushPlan, CommitMarked, CommitApply, CommitOk,
      CommitErr, CommitRestore, StartMarked, Spawn, FinishFails, CleanupRound,
      CleanupStops, CleanupMarks, CleanupMarked, CleanupAborts,
      CleanupAbortFails, CleanupChecks, CleanupDecides, Heartbeat, FallSilent,
      lease, PushBegin, abort_sync, CommitBegin, StartRefused, StartBegin,
      StopReads, FinishBegin, TaskPanics, ObserverPanics, CleanupPanics, LeaseDrop,
      SessionEnds, ObserverPolls, CleanupLocks, CreateAccept
<1>3. ASSUME UNCHANGED vars \/ MarkerStep \/ PlanExpires \/ ApplyWrites \/ ApplySettles
             \/ ShutdownEnds
     PROVE  FALSE
  BY <1>1, <1>3 DEF MarkerStep, PlanExpires, ApplyWrites, ApplySettles, ShutdownEnds
<1>4. ASSUME NEW v \in Workflows,
             CreateReserve(v) \/ StartOk(v) \/ ObserverPublishes(v) \/ prune(v)
     PROVE  FALSE
  BY <1>1, <1>4
  DEF CreateReserve, StartOk, ObserverPublishes, prune, Releases, TypeOK, Owning, Terminal
<1>5. ASSUME NEW v \in Workflows,
             \/ cancel(v) \/ expire_active(v) \/ ReportFailure(v) \/ MarkerError(v)
             \/ CommitGivesUp(v) \/ CommitRestored(v) \/ SpawnFails(v) \/ ObserverLocks(v)
     PROVE  FALSE
  <2>1. \/ status' = status
        \/ \E target \in {"failed", "cancelled"}, invalidate \in BOOLEAN :
             request_cleanup(v, target, invalidate)
    BY <1>5
    DEF cancel, expire_active, ReportFailure, MarkerError, CommitGivesUp, CommitRestored,
        SpawnFails, ObserverLocks, fail
  <2> QED
    BY <1>1, <2>1, RequestReleasesNothing
<1>6. ASSUME shutdown PROVE FALSE
  BY <1>1, <1>6, RequestReleasesNothing DEF shutdown, ShutdownCancels, TypeOK
<1>7. ASSUME Restart \/ Crash PROVE FALSE
  BY <1>7 DEF Restart, Crash, Forget, Releases, Terminal
<1>8. ASSUME NEW v \in Workflows, Ends(v)
     PROVE  v = w
  BY <1>8
  DEF Ends, CreateRefuse, FinishPublishes, CleanupPublishes, Publish, Releases, TypeOK,
      Owning, Terminal
<1>9. PICK v \in Workflows : Ends(v)
  BY <1>2, <1>3, <1>4, <1>5, <1>6, <1>7 DEF Next, HolderStep, RequestStep, TaskStep, Ends
<1> QED
  BY <1>8, <1>9

(* An end publishes once it has seen Vivado gone, the plan settled and the *)
(* last transfer over; a tree it calls reusable has the clean marker.      *)
LEMMA EndSettles ==
  ASSUME TypeOK, SlotInv, PlanInv, TreeInv, ReleaseInv, NEW w \in Workflows, Ends(w),
         Releases(w)
  PROVE  /\ ~Writing'
         /\ plan' # "open"
         /\ transfers'[w] = 0
         /\ op'[w] = "idle"
         /\ w \notin requires_full_upload' => marker' = "clean"
<1> USE NoneAssumption DEF storeVars, sessionVars, clientVars, PublishedVars
<1>1. op[w] \in CreateOps \cup {"finish_publish", "cleanup_to_failed", "cleanup_to_cancelled"}
  BY DEF Ends, CreateRefuse, FinishPublishes, CleanupPublishes, Done, Goto, CreateOps
<1>2. sess[w] \notin Vivado
  BY <1>1
  DEF SlotInv, SessionFits, BeforeVivado, StoppedOps, SettledOps, Vivado
<1>3. \A v \in Workflows : sess[v] \notin Vivado
  BY <1>1, <1>2 DEF TreeInv, VivadoHoldsSlot, SlotInv, HolderOwns, CreateOps
<1>4. plan \notin {"open", "committing"}
  BY <1>1 DEF PlanInv, PlanFits, WithoutPlan, SettledOps
<1>5. transfers[w] = 0
  BY <1>1 DEF ReleaseInv, CreateOps
<1>6. status' # status
  BY DEF Releases, Owning, Terminal
<1>7. UNCHANGED <<sess, transfers, marker>>
  BY DEF Ends, CreateRefuse, FinishPublishes, CleanupPublishes
<1>8. plan' = "none" /\ op' = [op EXCEPT ![w] = "idle"]
  BY <1>4, <1>6
  DEF Ends, CreateRefuse, FinishPublishes, CleanupPublishes, Publish, Done, Goto
<1>9. w \notin requires_full_upload' => marker = "clean"
  <2>1. CASE CreateRefuse(w)
    BY <2>1, <1>6 DEF CreateRefuse, Publish, SetFlag
  <2>2. CASE FinishPublishes(w)
    <3>1. status[w] = "pulling"
      BY <2>2, <1>6 DEF FinishPublishes, TerminalAllowed
    <3> QED
      BY <3>1 DEF TreeInv, PullingIsPublished, PlanInv, MarkerFits
  <2>3. CASE \E st \in {"failed", "cancelled"} : CleanupPublishes(w, st)
    <3>1. w \notin requires_full_upload' => w \in seen_clean
      BY <2>3, <1>6 DEF CleanupPublishes, Publish, SetFlag
    <3>2. op[w] \in {"cleanup_to_failed", "cleanup_to_cancelled"}
      BY <2>3 DEF CleanupPublishes
    <3> QED
      BY <3>1, <3>2 DEF ReleaseInv
  <2> QED
    BY <2>1, <2>2, <2>3 DEF Ends
<1> QED
  BY <1>3, <1>5, <1>7, <1>8, <1>9 DEF Writing, TypeOK

(***************************************************************************)
(* No workflow ends while Vivado may run, a commit may write, an upload    *)
(* plan is open or a transfer goes on; and it never calls a tree reusable  *)
(* that a restart would not find clean.                                    *)
(***************************************************************************)
THEOREM ReleaseIsSettled == Spec => ReleaseSettles
<1>1. ASSUME TypeOK, SlotInv, PlanInv, TreeInv, ReleaseInv, [Next]_vars
      PROVE  \A w \in Workflows : Releases(w) =>
               /\ ~Writing'
               /\ plan' # "open"
               /\ transfers'[w] = 0
               /\ op'[w] = "idle"
               /\ w \notin requires_full_upload' => marker' = "clean"
  BY <1>1, OnlyAnEndReleases, EndSettles
<1> QED
  BY <1>1, TypeCorrect, SlotInvariant, PlanInvariant, TreeInvariant, ReleaseInvariant, PTL
  DEF Spec, ReleaseSettles

(***************************************************************************)
(* The contract of the sessions.                                           *)
(***************************************************************************)
LEMMA ContractInit == Init => Contract!Init
BY DEF Init, Fresh, Contract!Init

(* Only the holder of the slot starts Vivado, once.                        *)
LEMMA OwnerMayStart ==
  ASSUME SlotInv, TreeInv, NEW w \in Workflows, op[w] = "start_create", sess[w] = "none"
  PROVE  Contract!NobodyHolds
BY DEF SlotInv, HolderOwns, TreeInv, VivadoHoldsSlot, Vivado, Contract!NobodyHolds,
       Contract!Holding

LEMMA ContractStep ==
  ASSUME TypeOK, SlotInv, PlanInv, TreeInv, [Next]_vars
  PROVE  [Contract!Next]_sess
<1> USE NoneAssumption DEF vars, storeVars, markerVars, registryVars, requestVars,
    cleanupVars, planVars, sessionVars, localVars, clientVars, flagVars, dataVars,
    outsideVars, workflowVars, PublishedVars
<1>1. ASSUME NEW w \in Workflows,
             \/ CreateRead(w) \/ CreateRefuse(w) \/ PushPlan(w) \/ CommitMarked(w)
             \/ MarkerError(w) \/ CommitApply(w) \/ CommitOk(w) \/ CommitErr(w)
             \/ CommitRestore(w) \/ CommitGivesUp(w) \/ CommitRestored(w)
             \/ StartMarked(w) \/ StartOk(w) \/ ObserverPublishes(w) \/ FinishFails(w)
             \/ FinishPublishes(w) \/ CleanupStops(w) \/ CleanupMarks(w)
             \/ CleanupMarked(w) \/ CleanupAborts(w) \/ CleanupAbortFails(w)
             \/ CleanupChecks(w) \/ CleanupDecides(w)
             \/ (\E st \in {"failed", "cancelled"} : CleanupPublishes(w, st))
             \/ (\E reset \in BOOLEAN : CreateAccept(w, reset))
             \/ CreateReserve(w) \/ Heartbeat(w) \/ FallSilent(w) \/ lease(w)
             \/ PushBegin(w) \/ abort_sync(w) \/ CommitBegin(w) \/ StartRefused(w)
             \/ StartBegin(w) \/ StopReads(w) \/ FinishBegin(w) \/ cancel(w)
             \/ TaskPanics(w) \/ ObserverPanics(w) \/ CleanupPanics(w)
             \/ expire_active(w) \/ LeaseDrop(w) \/ ObserverPolls(w)
             \/ ObserverLocks(w) \/ ReportFailure(w) \/ CleanupLocks(w)
     PROVE  UNCHANGED sess
  BY <1>1
  DEF CreateRead, CreateRefuse, PushPlan, CommitMarked, MarkerError, CommitApply, CommitOk,
      CommitErr, CommitRestore, CommitGivesUp, CommitRestored, StartMarked, StartOk,
      ObserverPublishes, FinishFails, FinishPublishes, CleanupStops, CleanupMarks,
      CleanupMarked, CleanupAborts, CleanupAbortFails, CleanupChecks, CleanupDecides,
      CleanupPublishes, CreateAccept, CreateReserve, Heartbeat, FallSilent, lease,
      PushBegin, abort_sync, CommitBegin, StartRefused, StartBegin, StopReads, FinishBegin,
      cancel, TaskPanics, ObserverPanics, CleanupPanics, expire_active, LeaseDrop,
      ObserverPolls, ObserverLocks, ReportFailure, CleanupLocks
<1>2. CASE UNCHANGED vars \/ MarkerStep \/ PlanExpires \/ ApplyWrites \/ ApplySettles
           \/ shutdown \/ ShutdownEnds
  BY <1>2
  DEF MarkerStep, PlanExpires, ApplyWrites, ApplySettles, shutdown, ShutdownCancels,
      ShutdownEnds
<1>3. ASSUME NEW w \in Workflows, Spawn(w)
      PROVE  Contract!Start(w)
  BY <1>3, OwnerMayStart DEF Spawn, Contract!Start, Contract!Holding, Contract!Becomes
<1>4. ASSUME NEW w \in Workflows, SpawnFails(w)
      PROVE  Contract!Start(w) \/ UNCHANGED sess
  BY <1>4, OwnerMayStart
  DEF SpawnFails, Goto, Contract!Start, Contract!Holding, Contract!Becomes
<1>5. ASSUME NEW w \in Workflows, SessionEnds(w)
      PROVE  Contract!End(w)
  BY <1>5 DEF SessionEnds, Contract!End, Contract!Becomes
<1>6. ASSUME NEW w \in Workflows, CleanupRound(w)
      PROVE  Contract!Stop(w) \/ UNCHANGED sess
  BY <1>6 DEF CleanupRound, StopSession, TypeOK, Contract!Stop, Contract!Becomes
(* A workflow that ended does not own the slot, so its Vivado is gone.     *)
<1>7. ASSUME NEW w \in Workflows, prune(w)
      PROVE  Contract!Forget(w) \/ UNCHANGED sess
  <2>1. sess[w] \notin Vivado
    BY <1>7 DEF prune, SlotInv, SlotAgrees, TreeInv, VivadoHoldsSlot, Owning, Terminal
  <2> QED
    BY <1>7, <2>1
    DEF prune, TypeOK, SessionStates, Vivado, Contract!Forget, Contract!Becomes
<1>8. CASE Restart \/ Crash
  BY <1>8 DEF Restart, Crash, Forget, Contract!Next, Contract!Restarted
<1> QED
  BY <1>1, <1>2, <1>3, <1>4, <1>5, <1>6, <1>7, <1>8
  DEF Next, HolderStep, RequestStep, TaskStep, Contract!Next

(***************************************************************************)
(* The workflow manager uses sessions only as SessionContract allows: one  *)
(* Vivado at a time, and a session forgotten only once its process ended.  *)
(* Session implements the same contract (SessionImplementsContract).       *)
(***************************************************************************)
THEOREM WorkflowKeepsSessionContract == Spec => KeepsSessionContract
<1>1. Init => Contract!Init
  BY ContractInit
<1>2. TypeOK /\ SlotInv /\ PlanInv /\ TreeInv /\ [Next]_vars => [Contract!Next]_sess
  BY ContractStep
<1> QED
  BY <1>1, <1>2, TypeCorrect, SlotInvariant, PlanInvariant, TreeInvariant, PTL
  DEF Spec, KeepsSessionContract, Contract!Spec
=============================================================================
