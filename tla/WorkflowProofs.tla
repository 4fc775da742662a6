-------------------------- MODULE WorkflowProofs ----------------------------
(***************************************************************************)
(* Proofs about Workflow, for any set of workflows, any bound on transfers *)
(* and any faults: its types, the layers of the inductive invariant one    *)
(* after the other, and what a clean marker promises about the project in  *)
(* every state and after every crash.                                      *)
(***************************************************************************)
EXTENDS WorkflowInductive, TLAPS

-----------------------------------------------------------------------------
(* Types.                                                                  *)

(***************************************************************************)
(* The store: each of its steps keeps its variables in their types.        *)
(***************************************************************************)
LEMMA StoreFrame ==
  ASSUME StoreTypeOK, UNCHANGED storeVars
  PROVE  StoreTypeOK'
BY DEF StoreTypeOK, storeVars

LEMMA WriteMarkerTyped ==
  ASSUME StoreTypeOK, NEW v \in Markers, write_marker(v)
  PROVE  StoreTypeOK'
BY DEF StoreTypeOK, Markers, MarkStages, Trees, write_marker

LEMMA MarkReturnsTyped ==
  ASSUME StoreTypeOK, NEW outcome, MarkReturns(outcome)
  PROVE  StoreTypeOK'
BY DEF StoreTypeOK, Markers, MarkStages, Trees, MarkReturns

LEMMA StoreStepTyped ==
  ASSUME StoreTypeOK, StoreStep
  PROVE  StoreTypeOK'
<1> USE DEF StoreTypeOK, Markers, MarkStages, Trees
<1>1. CASE Syncfs \/ MarkFails
  BY <1>1 DEF Syncfs, MarkFails
<1>2. CASE Rename
  BY <1>2 DEF Rename
<1>3. CASE DirSync
  BY <1>3 DEF DirSync
<1> QED
  BY <1>1, <1>2, <1>3 DEF StoreStep

LEMMA StoreCrashTyped ==
  ASSUME StoreTypeOK, StoreCrash
  PROVE  StoreTypeOK'
BY DEF StoreTypeOK, Markers, MarkStages, Trees, StoreCrash

LEMMA TypeInit == Init => TypeOK
BY TransfersAssumption
   DEF Init, Fresh, StoreInit, TypeOK, StoreTypeOK, Markers, MarkStages, Trees,
       Statuses, Owning, Terminal, Ops, SessionStates, Vivado, PlanStates, Results

(* One step per action of Next. *)
LEMMA TypeStep ==
  ASSUME TypeOK, [Next]_vars
  PROVE  TypeOK'
<1> USE NoneAssumption, TransfersAssumption DEF vars, storeVars, markerVars,
    registryVars, requestVars, cleanupVars, planVars, sessionVars, localVars,
    clientVars, flagVars, dataVars, outsideVars, workflowVars, PublishedVars,
    Owning, Terminal, CreateOps, CommitOps, StartOps, CleanupOps, Vivado
<1> USE DEF TypeOK, Statuses, Ops, SessionStates, PlanStates, Results, Trees
<1>1. CASE UNCHANGED vars
  <2>1. StoreTypeOK'
    BY <1>1, StoreFrame
  <2> QED
    BY <1>1, <2>1
(* Creation *)
<1>2. ASSUME NEW w \in Workflows, CreateReserve(w) PROVE TypeOK'
  BY <1>2 DEF CreateReserve, Goto, StoreTypeOK, Markers, MarkStages
<1>3. ASSUME NEW w \in Workflows, CreateRead(w) PROVE TypeOK'
  BY <1>3 DEF CreateRead, Goto, SetFlag, is_clean, StoreTypeOK, Markers,
      MarkStages
<1>4. ASSUME NEW w \in Workflows, NEW reset \in BOOLEAN,
            CreateAccept(w, reset)
     PROVE  TypeOK'
  BY <1>4 DEF CreateAccept, Done, Goto, SetFlag, StoreTypeOK, Markers,
      MarkStages
<1>5. ASSUME NEW w \in Workflows, CreateRefuse(w) PROVE TypeOK'
  BY <1>5 DEF CreateRefuse, Done, Goto, Publish, SetFlag, TerminalAllowed,
      StoreTypeOK, Markers, MarkStages
(* Heartbeat and transfers *)
<1>6. ASSUME NEW w \in Workflows, Heartbeat(w) PROVE TypeOK'
  BY <1>6 DEF Heartbeat, StoreTypeOK, Markers, MarkStages
<1>7. ASSUME NEW w \in Workflows, FallSilent(w) PROVE TypeOK'
  BY <1>7 DEF FallSilent, StoreTypeOK, Markers, MarkStages
<1>8. ASSUME NEW w \in Workflows, expire_active(w) PROVE TypeOK'
  BY <1>8 DEF expire_active, HeartbeatExpired, Raise, StillOwner,
      request_cleanup, StoreTypeOK, Markers, MarkStages
<1>9. ASSUME NEW w \in Workflows, lease(w) PROVE TypeOK'
  BY <1>9 DEF lease, StoreTypeOK, Markers, MarkStages
<1>10. ASSUME NEW w \in Workflows, LeaseDrop(w) PROVE TypeOK'
  BY <1>10 DEF LeaseDrop, LeaseHeld, StoreTypeOK, Markers, MarkStages
(* The upload plan *)
<1>11. ASSUME NEW w \in Workflows, PushBegin(w) PROVE TypeOK'
  BY <1>11 DEF PushBegin, InPhase, Lock, LockFree, PlanKind,
      refresh_open_sync, StoreTypeOK, Markers, MarkStages
<1>12. ASSUME NEW w \in Workflows, PushPlan(w) PROVE TypeOK'
  BY <1>12 DEF PushPlan, Goto, StoreTypeOK, Markers, MarkStages
<1>13. ASSUME NEW w \in Workflows, abort_sync(w) PROVE TypeOK'
  BY <1>13 DEF abort_sync, InPhase, LockFree, StoreTypeOK, Markers, MarkStages
<1>14. CASE PlanExpires
  BY <1>14 DEF PlanExpires, StoreTypeOK, Markers, MarkStages
(* Commit *)
<1>15. ASSUME NEW w \in Workflows, CommitBegin(w) PROVE TypeOK'
  BY <1>15 DEF CommitBegin, InPhase, Lock, LockFree, SetFlag, is_clean,
      mark_dirty, write_marker, StoreTypeOK, Markers, MarkStages
<1>16. ASSUME NEW w \in Workflows, CommitMarked(w) PROVE TypeOK'
  BY <1>16 DEF CommitMarked, Goto, MarkReturns, StoreTypeOK, Markers,
      MarkStages
<1>17. ASSUME NEW w \in Workflows, MarkerError(w) PROVE TypeOK'
  BY <1>17 DEF MarkerError, Done, Goto, MarkReturns, Raise, StillOwner, fail,
      request_cleanup, StoreTypeOK, Markers, MarkStages
<1>18. ASSUME NEW w \in Workflows, CommitApply(w) PROVE TypeOK'
  BY <1>18 DEF CommitApply, Goto, StoreTypeOK, Markers, MarkStages
<1>19. CASE ApplyWrites
  BY <1>19 DEF ApplyWrites, StoreTypeOK, Markers, MarkStages
<1>20. CASE ApplySettles
  BY <1>20 DEF ApplySettles, StoreTypeOK, Markers, MarkStages
<1>21. ASSUME NEW w \in Workflows, CommitOk(w) PROVE TypeOK'
  BY <1>21 DEF CommitOk, Done, Goto, StoreTypeOK, Markers, MarkStages
<1>22. ASSUME NEW w \in Workflows, CommitErr(w) PROVE TypeOK'
  BY <1>22 DEF CommitErr, Goto, StoreTypeOK, Markers, MarkStages
<1>23. ASSUME NEW w \in Workflows, CommitRestore(w) PROVE TypeOK'
  BY <1>23 DEF CommitRestore, CommitRestores, Goto, mark_clean, write_marker,
      StoreTypeOK, Markers, MarkStages
<1>24. ASSUME NEW w \in Workflows, CommitGivesUp(w) PROVE TypeOK'
  BY <1>24 DEF CommitGivesUp, CommitRestores, Done, Goto, Raise, StillOwner,
      fail, request_cleanup, StoreTypeOK, Markers, MarkStages
<1>25. ASSUME NEW w \in Workflows, CommitRestored(w) PROVE TypeOK'
  BY <1>25 DEF CommitRestored, Done, Goto, MarkReturns, Raise, StillOwner,
      fail, request_cleanup, StoreTypeOK, Markers, MarkStages
(* The session *)
<1>26. ASSUME NEW w \in Workflows, StartRefused(w) PROVE TypeOK'
  BY <1>26 DEF StartRefused, InPhase, LockFree, refresh_open_sync,
      StoreTypeOK, Markers, MarkStages
<1>27. ASSUME NEW w \in Workflows, StartBegin(w) PROVE TypeOK'
  BY <1>27 DEF StartBegin, InPhase, Lock, LockFree, mark_dirty,
      refresh_open_sync, write_marker, StoreTypeOK, Markers, MarkStages
<1>28. ASSUME NEW w \in Workflows, StartMarked(w) PROVE TypeOK'
  BY <1>28 DEF StartMarked, Goto, InPhase, MarkReturns, StoreTypeOK, Markers,
      MarkStages
<1>29. ASSUME NEW w \in Workflows, Spawn(w) PROVE TypeOK'
  BY <1>29 DEF Spawn, StoreTypeOK, Markers, MarkStages
<1>30. ASSUME NEW w \in Workflows, SpawnFails(w) PROVE TypeOK'
  BY <1>30 DEF SpawnFails, Goto, Raise, StillOwner, fail, request_cleanup,
      StoreTypeOK, Markers, MarkStages
<1>31. ASSUME NEW w \in Workflows, StartOk(w) PROVE TypeOK'
  BY <1>31 DEF StartOk, Goto, StoreTypeOK, Markers, MarkStages
<1>32. ASSUME NEW w \in Workflows, SessionEnds(w) PROVE TypeOK'
  BY <1>32 DEF SessionEnds, StoreTypeOK, Markers, MarkStages
<1>33. ASSUME NEW w \in Workflows, ObserverPolls(w) PROVE TypeOK'
  BY <1>33 DEF ObserverPolls, ExitedWell, StoreTypeOK, Markers, MarkStages
<1>34. ASSUME NEW w \in Workflows, ObserverLocks(w) PROVE TypeOK'
  <2>1. StoreTypeOK'
    BY <1>34, WriteMarkerTyped, StoreFrame DEF ObserverLocks, mark_clean, Markers
  <2> QED
    BY <1>34, <2>1 DEF ObserverLocks, Lock, LockFree, fail, request_cleanup, Raise,
        StillOwner
<1>35. ASSUME NEW w \in Workflows, ObserverPublishes(w) PROVE TypeOK'
  BY <1>35 DEF ObserverPublishes, Goto, MarkReturns, StoreTypeOK, Markers,
      MarkStages
<1>36. ASSUME NEW w \in Workflows, StopReads(w) PROVE TypeOK'
  BY <1>36 DEF StopReads, StoreTypeOK, Markers, MarkStages
<1>37. ASSUME NEW w \in Workflows, ReportFailure(w) PROVE TypeOK'
  BY <1>37 DEF ReportFailure, Raise, StillOwner, request_cleanup, StoreTypeOK,
      Markers, MarkStages
(* Finish, cancel and cleanup *)
<1>38. ASSUME NEW w \in Workflows, FinishBegin(w) PROVE TypeOK'
  BY <1>38 DEF FinishBegin, InPhase, Lock, LockFree, abort_open, StoreTypeOK,
      Markers, MarkStages
<1>39. ASSUME NEW w \in Workflows, FinishFails(w) PROVE TypeOK'
  BY <1>39 DEF FinishFails, Goto, StoreTypeOK, Markers, MarkStages
<1>40. ASSUME NEW w \in Workflows, FinishPublishes(w) PROVE TypeOK'
  BY <1>40 DEF FinishPublishes, Goto, Publish, SetFlag, TerminalAllowed,
      StoreTypeOK, Markers, MarkStages
<1>41. ASSUME NEW w \in Workflows, cancel(w) PROVE TypeOK'
  BY <1>41 DEF cancel, Raise, StillOwner, request_cleanup, StoreTypeOK,
      Markers, MarkStages
<1>42. ASSUME NEW w \in Workflows, CleanupLocks(w) PROVE TypeOK'
  BY <1>42 DEF CleanupLocks, Lock, LockFree, StoreTypeOK, Markers, MarkStages
<1>43. ASSUME NEW w \in Workflows, CleanupRound(w) PROVE TypeOK'
  BY <1>43 DEF CleanupRound, Done, Goto, SetFlag, StopSession, StoreTypeOK,
      Markers, MarkStages
<1>44. ASSUME NEW w \in Workflows, CleanupStops(w) PROVE TypeOK'
  BY <1>44 DEF CleanupStops, Goto, SessionStopped, StoreTypeOK, Markers,
      MarkStages
<1>45. ASSUME NEW w \in Workflows, CleanupMarks(w) PROVE TypeOK'
  <2>1. StoreTypeOK'
    BY <1>45, WriteMarkerTyped, StoreFrame DEF CleanupMarks, mark_dirty, Markers
  <2> QED
    BY <1>45, <2>1 DEF CleanupMarks, Goto
<1>46. ASSUME NEW w \in Workflows, CleanupMarked(w) PROVE TypeOK'
  <2>1. StoreTypeOK'
    BY <1>46, MarkReturnsTyped DEF CleanupMarked
  <2> QED
    BY <1>46, <2>1 DEF CleanupMarked, Goto
<1>47. ASSUME NEW w \in Workflows, CleanupAborts(w) PROVE TypeOK'
  BY <1>47 DEF CleanupAborts, Goto, abort_open, StoreTypeOK, Markers,
      MarkStages
<1>48. ASSUME NEW w \in Workflows, CleanupAbortFails(w) PROVE TypeOK'
  BY <1>48 DEF CleanupAbortFails, Goto, abort_open, StoreTypeOK, Markers,
      MarkStages
<1>49. ASSUME NEW w \in Workflows, CleanupChecks(w) PROVE TypeOK'
  BY <1>49 DEF CleanupChecks, Goto, SetFlag, is_clean, StoreTypeOK, Markers,
      MarkStages
<1>50. ASSUME NEW w \in Workflows, CleanupDecides(w) PROVE TypeOK'
  BY <1>50 DEF CleanupDecides, Goto, StoreTypeOK, Markers, MarkStages
<1>51. ASSUME NEW w \in Workflows, NEW st \in {"failed", "cancelled"},
            CleanupPublishes(w, st)
     PROVE  TypeOK'
  BY <1>51 DEF CleanupPublishes, Done, Goto, Publish, SetFlag,
      TerminalAllowed, StoreTypeOK, Markers, MarkStages
<1>52. ASSUME NEW w \in Workflows, TaskPanics(w) PROVE TypeOK'
  BY <1>52 DEF TaskPanics, Done, Goto, StoreTypeOK, Markers, MarkStages
<1>53. ASSUME NEW w \in Workflows, ObserverPanics(w) PROVE TypeOK'
  BY <1>53 DEF ObserverPanics, StoreTypeOK, Markers, MarkStages
<1>54. ASSUME NEW w \in Workflows, CleanupPanics(w) PROVE TypeOK'
  BY <1>54 DEF CleanupPanics, Done, Goto, StoreTypeOK, Markers, MarkStages
(* Service *)
<1>55. CASE MarkerStep
  <2>1. StoreTypeOK'
    BY <1>55, StoreStepTyped DEF MarkerStep
  <2>2. tree_before' \in Trees
    BY <1>55 DEF MarkerStep
  <2> QED
    BY <1>55, <2>1, <2>2 DEF MarkerStep
<1>56. ASSUME NEW w \in Workflows, prune(w) PROVE TypeOK'
  BY <1>56 DEF prune, StoreTypeOK, Markers, MarkStages
<1>57. CASE shutdown
  BY <1>57 DEF shutdown, Raise, ShutdownCancels, StillOwner, request_cleanup,
      StoreTypeOK, Markers, MarkStages
<1>58. CASE ShutdownEnds
  BY <1>58 DEF ShutdownEnds, TasksDone, StoreTypeOK, Markers, MarkStages
<1>59. CASE Restart
  BY <1>59 DEF Restart, Forget, StoreTypeOK, Markers, MarkStages
<1>60. CASE Crash
  <2>1. StoreTypeOK'
    BY <1>60, StoreCrashTyped DEF Crash
  <2> QED
    BY <1>60, <2>1 DEF Crash, Forget
<1> QED
  BY <1>1, <1>2, <1>3, <1>4, <1>5, <1>6, <1>7, <1>8, <1>9, <1>10, <1>11,
      <1>12, <1>13, <1>14, <1>15, <1>16, <1>17, <1>18, <1>19, <1>20, <1>21,
      <1>22, <1>23, <1>24, <1>25, <1>26, <1>27, <1>28, <1>29, <1>30, <1>31,
      <1>32, <1>33, <1>34, <1>35, <1>36, <1>37, <1>38, <1>39, <1>40, <1>41,
      <1>42, <1>43, <1>44, <1>45, <1>46, <1>47, <1>48, <1>49, <1>50, <1>51,
      <1>52, <1>53, <1>54, <1>55, <1>56, <1>57, <1>58, <1>59, <1>60
  DEF Next, HolderStep, RequestStep, TaskStep

(***************************************************************************)
(* Type correctness: no sequence of requests, task steps, faults and       *)
(* restarts takes a variable of the workflow manager, of the marker store  *)
(* or of what they know about the plan and the session out of its type.    *)
(* In particular the lease count of TransferLease never underflows.        *)
(***************************************************************************)
THEOREM TypeCorrect == Spec => []TypeOK
<1>1. Init => TypeOK
  BY TypeInit
<1>2. TypeOK /\ [Next]_vars => TypeOK'
  BY TypeStep
<1> QED
  BY <1>1, <1>2, PTL DEF Spec

-----------------------------------------------------------------------------
(* The first layer: slot, statuses, locks and sessions agree.              *)

LEMMA SlotInit == Init => SlotInv
BY NoneAssumption
   DEF Init, Fresh, SlotInv, SlotAgrees, HolderOwns, AbsentIsFresh, StatusFits,
       SessionFits, Owning, Terminal, CleanupOps, CreateOps, CommitOps, BeforeVivado,
       SettledOps, StoppedOps, Vivado

LEMMA SlotStep ==
  ASSUME TypeOK, SlotInv, [Next]_vars
  PROVE  SlotInv'
<1> USE NoneAssumption DEF vars, storeVars, markerVars, registryVars,
    requestVars, cleanupVars, planVars, sessionVars, localVars, clientVars,
    flagVars, dataVars, outsideVars, workflowVars, PublishedVars, Owning,
    Terminal, CreateOps, CommitOps, StartOps, CleanupOps, CleanMarkOps,
    DirtyMarkOps, MarkOps, SettledOps, StoppedOps, BeforeVivado, WithoutPlan,
    Vivado
<1> USE DEF SlotInv, SlotAgrees, HolderOwns, AbsentIsFresh, StatusFits,
    SessionFits
<1>1. CASE UNCHANGED vars
  BY <1>1
(* Steps that change nothing this invariant speaks of. *)
<1>2. ASSUME NEW w \in Workflows,
             \/ Heartbeat(w) \/ FallSilent(w) \/ lease(w) \/ abort_sync(w)
             \/ StartRefused(w) \/ StopReads(w) \/ LeaseDrop(w)
     PROVE  SlotInv'
  BY <1>2 DEF Heartbeat, FallSilent, lease, abort_sync, StartRefused,
      StopReads, LeaseDrop
<1>3. CASE \/ MarkerStep \/ PlanExpires \/ ApplyWrites \/ ApplySettles
           \/ ShutdownEnds
  BY <1>3 DEF MarkerStep, PlanExpires, ApplyWrites, ApplySettles, ShutdownEnds
(* Creation *)
<1>4. ASSUME NEW w \in Workflows, CreateReserve(w) PROVE SlotInv'
  BY <1>4 DEF CreateReserve, Goto, TypeOK
<1>5. ASSUME NEW w \in Workflows, CreateRead(w) PROVE SlotInv'
  BY <1>5 DEF CreateRead, Goto, TypeOK
<1>6. ASSUME NEW w \in Workflows, NEW reset \in BOOLEAN,
            CreateAccept(w, reset)
     PROVE  SlotInv'
  BY <1>6 DEF CreateAccept, Done, Goto, SetFlag
<1>7. ASSUME NEW w \in Workflows, CreateRefuse(w) PROVE SlotInv'
  BY <1>7 DEF CreateRefuse, Done, Goto, Publish, SetFlag, TerminalAllowed,
      TypeOK
(* Heartbeat and transfers *)
<1>8. ASSUME NEW w \in Workflows, expire_active(w) PROVE SlotInv'
  BY <1>8 DEF expire_active, StillOwner, request_cleanup, TypeOK, Raise
(* The upload plan *)
<1>9. ASSUME NEW w \in Workflows, PushBegin(w) PROVE SlotInv'
  BY <1>9 DEF PushBegin, InPhase, Lock, LockFree
<1>10. ASSUME NEW w \in Workflows, PushPlan(w) PROVE SlotInv'
  BY <1>10 DEF PushPlan, Goto
(* Commit *)
<1>11. ASSUME NEW w \in Workflows, CommitBegin(w) PROVE SlotInv'
  BY <1>11 DEF CommitBegin, InPhase, Lock, LockFree
<1>12. ASSUME NEW w \in Workflows, CommitMarked(w) PROVE SlotInv'
  BY <1>12 DEF CommitMarked, Goto
<1>13. ASSUME NEW w \in Workflows, MarkerError(w) PROVE SlotInv'
  BY <1>13 DEF MarkerError, Done, Goto, StillOwner, fail, request_cleanup,
      TypeOK, Raise
<1>14. ASSUME NEW w \in Workflows, CommitApply(w) PROVE SlotInv'
  BY <1>14 DEF CommitApply, Goto, TypeOK
<1>15. ASSUME NEW w \in Workflows, CommitOk(w) PROVE SlotInv'
  BY <1>15 DEF CommitOk, Done, Goto
<1>16. ASSUME NEW w \in Workflows, CommitErr(w) PROVE SlotInv'
  BY <1>16 DEF CommitErr, Goto
<1>17. ASSUME NEW w \in Workflows, CommitRestore(w) PROVE SlotInv'
  BY <1>17 DEF CommitRestore, Goto
<1>18. ASSUME NEW w \in Workflows, CommitGivesUp(w) PROVE SlotInv'
  BY <1>18 DEF CommitGivesUp, Done, Goto, StillOwner, fail, request_cleanup,
      TypeOK, Raise
<1>19. ASSUME NEW w \in Workflows, CommitRestored(w) PROVE SlotInv'
  BY <1>19 DEF CommitRestored, Done, Goto, StillOwner, fail, request_cleanup,
      TypeOK, Raise
(* The session *)
<1>20. ASSUME NEW w \in Workflows, StartBegin(w) PROVE SlotInv'
  BY <1>20 DEF StartBegin, InPhase, Lock, LockFree
<1>21. ASSUME NEW w \in Workflows, StartMarked(w) PROVE SlotInv'
  BY <1>21 DEF StartMarked, Goto, InPhase
<1>22. ASSUME NEW w \in Workflows, Spawn(w) PROVE SlotInv'
  BY <1>22 DEF Spawn
<1>23. ASSUME NEW w \in Workflows, SpawnFails(w) PROVE SlotInv'
  BY <1>23 DEF SpawnFails, Goto, StillOwner, fail, request_cleanup, TypeOK,
      Raise
<1>24. ASSUME NEW w \in Workflows, StartOk(w) PROVE SlotInv'
  BY <1>24 DEF StartOk, Goto, TypeOK
<1>25. ASSUME NEW w \in Workflows, SessionEnds(w) PROVE SlotInv'
  BY <1>25 DEF SessionEnds, TypeOK
<1>26. ASSUME NEW w \in Workflows, ObserverPolls(w) PROVE SlotInv'
  BY <1>26 DEF ObserverPolls, ExitedWell, TypeOK
<1>27. ASSUME NEW w \in Workflows, ObserverLocks(w) PROVE SlotInv'
  BY <1>27 DEF ObserverLocks, Lock, LockFree, StillOwner, fail,
      request_cleanup, TypeOK, Raise
<1>28. ASSUME NEW w \in Workflows, ObserverPublishes(w) PROVE SlotInv'
  BY <1>28 DEF ObserverPublishes, Goto, TypeOK
<1>29. ASSUME NEW w \in Workflows, ReportFailure(w) PROVE SlotInv'
  BY <1>29 DEF ReportFailure, StillOwner, request_cleanup, TypeOK, Raise
(* Finish, cancel and cleanup *)
<1>30. ASSUME NEW w \in Workflows, FinishBegin(w) PROVE SlotInv'
  BY <1>30 DEF FinishBegin, InPhase, Lock, LockFree
<1>31. ASSUME NEW w \in Workflows, FinishFails(w) PROVE SlotInv'
  BY <1>31 DEF FinishFails, Goto
<1>32. ASSUME NEW w \in Workflows, FinishPublishes(w) PROVE SlotInv'
  BY <1>32 DEF FinishPublishes, Goto, Publish, SetFlag, TerminalAllowed,
      TypeOK
<1>33. ASSUME NEW w \in Workflows, cancel(w) PROVE SlotInv'
  BY <1>33 DEF cancel, StillOwner, request_cleanup, TypeOK, Raise
<1>34. ASSUME NEW w \in Workflows, CleanupLocks(w) PROVE SlotInv'
  BY <1>34 DEF CleanupLocks, Lock, LockFree
<1>35. ASSUME NEW w \in Workflows, CleanupRound(w) PROVE SlotInv'
  BY <1>35 DEF CleanupRound, Done, Goto, StopSession, TypeOK
<1>36. ASSUME NEW w \in Workflows, CleanupStops(w) PROVE SlotInv'
  BY <1>36 DEF CleanupStops, Goto, SessionStopped
<1>37. ASSUME NEW w \in Workflows, CleanupMarks(w) PROVE SlotInv'
  BY <1>37 DEF CleanupMarks, Goto, TypeOK
<1>38. ASSUME NEW w \in Workflows, CleanupMarked(w) PROVE SlotInv'
  BY <1>38 DEF CleanupMarked, Goto, TypeOK
<1>39. ASSUME NEW w \in Workflows, CleanupAborts(w) PROVE SlotInv'
  BY <1>39 DEF CleanupAborts, Goto
<1>40. ASSUME NEW w \in Workflows, CleanupAbortFails(w) PROVE SlotInv'
  BY <1>40 DEF CleanupAbortFails, Goto
<1>41. ASSUME NEW w \in Workflows, CleanupChecks(w) PROVE SlotInv'
  BY <1>41 DEF CleanupChecks, Goto
<1>42. ASSUME NEW w \in Workflows, CleanupDecides(w) PROVE SlotInv'
  BY <1>42 DEF CleanupDecides, Goto
<1>43. ASSUME NEW w \in Workflows, NEW st \in {"failed", "cancelled"},
            CleanupPublishes(w, st)
     PROVE  SlotInv'
  BY <1>43 DEF CleanupPublishes, Done, Goto, Publish, TerminalAllowed, TypeOK
<1>44. ASSUME NEW w \in Workflows, TaskPanics(w) PROVE SlotInv'
  BY <1>44 DEF TaskPanics, Done, Goto, TypeOK
<1>45. ASSUME NEW w \in Workflows, ObserverPanics(w) PROVE SlotInv'
  BY <1>45 DEF ObserverPanics, TypeOK
<1>46. ASSUME NEW w \in Workflows, CleanupPanics(w) PROVE SlotInv'
  BY <1>46 DEF CleanupPanics, Done, Goto
(* Service *)
<1>47. ASSUME NEW w \in Workflows, prune(w) PROVE SlotInv'
  BY <1>47 DEF prune, TypeOK
<1>48. CASE shutdown
  BY <1>48 DEF shutdown, ShutdownCancels, StillOwner, request_cleanup, TypeOK,
      Raise
<1>49. CASE Restart
  BY <1>49 DEF Restart, Forget
<1>50. CASE Crash
  BY <1>50 DEF Crash, Forget
<1> QED
  BY <1>1, <1>2, <1>3, <1>4, <1>5, <1>6, <1>7, <1>8, <1>9, <1>10, <1>11,
      <1>12, <1>13, <1>14, <1>15, <1>16, <1>17, <1>18, <1>19, <1>20, <1>21,
      <1>22, <1>23, <1>24, <1>25, <1>26, <1>27, <1>28, <1>29, <1>30, <1>31,
      <1>32, <1>33, <1>34, <1>35, <1>36, <1>37, <1>38, <1>39, <1>40, <1>41,
      <1>42, <1>43, <1>44, <1>45, <1>46, <1>47, <1>48, <1>49, <1>50
  DEF Next, HolderStep, RequestStep, TaskStep

(***************************************************************************)
(* Who owns the slot, who may hold an activity lock, and which session each *)
(* status and each point of an operation allows: the ownership that every  *)
(* other argument about the marker, the plan and the tree starts from.     *)
(***************************************************************************)
THEOREM SlotInvariant == Spec => []SlotInv
<1>1. Init => SlotInv
  BY SlotInit
<1>2. TypeOK /\ SlotInv /\ [Next]_vars => SlotInv'
  BY SlotStep
<1> QED
  BY <1>1, <1>2, TypeCorrect, PTL DEF Spec

(***************************************************************************)
(* registry.active names exactly the workflow whose status is unfinished:  *)
(* the two locks of the manager never let capacity leak or be given twice. *)
(***************************************************************************)
THEOREM SlotAgreesAlways == Spec => []SlotAgrees
<1>1. SlotInv => SlotAgrees
  BY DEF SlotInv
<1> QED
  BY <1>1, SlotInvariant, PTL

-----------------------------------------------------------------------------
(* The second layer: the marker write has its waiter, the plan its owner.  *)

LEMMA PlanInit == Init => PlanInv
BY NoneAssumption
   DEF Init, Fresh, StoreInit, PlanInv, MarkerFits, PlanFits, PlanHasOwner,
       CleanMarkOps, DirtyMarkOps, MarkOps, CreateOps, StartOps, SettledOps,
       WithoutPlan

LEMMA PlanStep ==
  ASSUME TypeOK, SlotInv, PlanInv, [Next]_vars
  PROVE  PlanInv'
<1> USE NoneAssumption DEF vars, storeVars, markerVars, registryVars,
    requestVars, cleanupVars, planVars, sessionVars, localVars, clientVars,
    flagVars, dataVars, outsideVars, workflowVars, PublishedVars, Owning,
    Terminal, CreateOps, CommitOps, StartOps, CleanupOps, CleanMarkOps,
    DirtyMarkOps, MarkOps, SettledOps, StoppedOps, BeforeVivado, WithoutPlan,
    Vivado
<1> USE DEF PlanInv, MarkerFits, PlanFits, PlanHasOwner
<1>1. CASE UNCHANGED vars
  BY <1>1
(* Steps that change nothing this invariant speaks of. *)
<1>2. ASSUME NEW w \in Workflows,
             \/ Heartbeat(w) \/ FallSilent(w) \/ lease(w) \/ StopReads(w)
             \/ cancel(w) \/ ObserverPanics(w) \/ expire_active(w)
             \/ LeaseDrop(w) \/ ObserverPolls(w) \/ ReportFailure(w)
     PROVE  PlanInv'
  <2>1. UNCHANGED <<active, commit_result, disk, marker, mw, mw_value, op,
                    open_sync, plan, sess>>
    BY <1>2 DEF Heartbeat, FallSilent, lease, StopReads, cancel,
        ObserverPanics, expire_active, LeaseDrop, ObserverPolls, ReportFailure
  <2> QED
    BY <2>1
<1>3. CASE \/ ApplyWrites \/ shutdown
  <2>1. UNCHANGED <<active, commit_result, disk, marker, mw, mw_value, op,
                    open_sync, plan, sess>>
    BY <1>3 DEF ApplyWrites, shutdown
  <2> QED
    BY <2>1
(* Creation *)
<1>4. ASSUME NEW w \in Workflows, CreateReserve(w) PROVE PlanInv'
  BY <1>4 DEF CreateReserve, Goto, TypeOK
<1>5. ASSUME NEW w \in Workflows, CreateRead(w) PROVE PlanInv'
  BY <1>5 DEF CreateRead, Goto, TypeOK
<1>6. ASSUME NEW w \in Workflows, NEW reset \in BOOLEAN,
            CreateAccept(w, reset)
     PROVE  PlanInv'
  BY <1>6 DEF CreateAccept, Done, Goto
<1>7. ASSUME NEW w \in Workflows, CreateRefuse(w) PROVE PlanInv'
  BY <1>7 DEF CreateRefuse, Done, Goto, Publish, SetFlag, TerminalAllowed,
      TypeOK, SlotInv, HolderOwns
(* The upload plan *)
<1>8. ASSUME NEW w \in Workflows, PushBegin(w) PROVE PlanInv'
  BY <1>8 DEF PushBegin, InPhase, Lock, LockFree, refresh_open_sync, SlotInv,
      SlotAgrees
<1>9. ASSUME NEW w \in Workflows, PushPlan(w) PROVE PlanInv'
  BY <1>9 DEF PushPlan, Goto, TypeOK, SlotInv, HolderOwns, SessionFits
<1>10. ASSUME NEW w \in Workflows, abort_sync(w) PROVE PlanInv'
  BY <1>10 DEF abort_sync, InPhase, LockFree
<1>11. CASE PlanExpires
  BY <1>11 DEF PlanExpires
(* Commit *)
<1>12. ASSUME NEW w \in Workflows, CommitBegin(w) PROVE PlanInv'
  BY <1>12 DEF CommitBegin, InPhase, Lock, LockFree, mark_dirty, write_marker,
      TypeOK, SlotInv, SlotAgrees, HolderOwns
<1>13. ASSUME NEW w \in Workflows, CommitMarked(w) PROVE PlanInv'
  BY <1>13 DEF CommitMarked, Goto, MarkReturns
<1>14. ASSUME NEW w \in Workflows, MarkerError(w) PROVE PlanInv'
  BY <1>14 DEF MarkerError, Done, Goto, MarkReturns
<1>15. ASSUME NEW w \in Workflows, CommitApply(w) PROVE PlanInv'
  BY <1>15 DEF CommitApply, Goto, TypeOK, SlotInv, HolderOwns
<1>16. CASE ApplySettles
  BY <1>16 DEF ApplySettles, TypeOK
<1>17. ASSUME NEW w \in Workflows, CommitOk(w) PROVE PlanInv'
  BY <1>17 DEF CommitOk, Done, Goto
<1>18. ASSUME NEW w \in Workflows, CommitErr(w) PROVE PlanInv'
  BY <1>18 DEF CommitErr, Goto
<1>19. ASSUME NEW w \in Workflows, CommitRestore(w) PROVE PlanInv'
  BY <1>19 DEF CommitRestore, Goto, mark_clean, write_marker, TypeOK, SlotInv,
      HolderOwns
<1>20. ASSUME NEW w \in Workflows, CommitGivesUp(w) PROVE PlanInv'
  BY <1>20 DEF CommitGivesUp, Done, Goto
<1>21. ASSUME NEW w \in Workflows, CommitRestored(w) PROVE PlanInv'
  BY <1>21 DEF CommitRestored, Done, Goto, MarkReturns, StillOwner, fail,
      request_cleanup, TypeOK, Raise
(* The session *)
<1>22. ASSUME NEW w \in Workflows, StartRefused(w) PROVE PlanInv'
  BY <1>22 DEF StartRefused, InPhase, LockFree, refresh_open_sync
<1>23. ASSUME NEW w \in Workflows, StartBegin(w) PROVE PlanInv'
  BY <1>23 DEF StartBegin, InPhase, Lock, LockFree, mark_dirty,
      refresh_open_sync, write_marker, TypeOK, SlotInv, SlotAgrees, HolderOwns
<1>24. ASSUME NEW w \in Workflows, StartMarked(w) PROVE PlanInv'
  BY <1>24 DEF StartMarked, Goto, InPhase, MarkReturns
<1>25. ASSUME NEW w \in Workflows, Spawn(w) PROVE PlanInv'
  BY <1>25 DEF Spawn
<1>26. ASSUME NEW w \in Workflows, SpawnFails(w) PROVE PlanInv'
  BY <1>26 DEF SpawnFails, Goto
<1>27. ASSUME NEW w \in Workflows, StartOk(w) PROVE PlanInv'
  BY <1>27 DEF StartOk, Goto
<1>28. ASSUME NEW w \in Workflows, SessionEnds(w) PROVE PlanInv'
  BY <1>28 DEF SessionEnds, TypeOK
<1>29. ASSUME NEW w \in Workflows, ObserverLocks(w) PROVE PlanInv'
  BY <1>29 DEF ObserverLocks, Lock, LockFree, StillOwner, fail, mark_clean,
      request_cleanup, write_marker, TypeOK, SlotInv, SlotAgrees, HolderOwns,
      Raise
<1>30. ASSUME NEW w \in Workflows, ObserverPublishes(w) PROVE PlanInv'
  BY <1>30 DEF ObserverPublishes, Goto, MarkReturns
(* Finish, cancel and cleanup *)
<1>31. ASSUME NEW w \in Workflows, FinishBegin(w) PROVE PlanInv'
  BY <1>31 DEF FinishBegin, InPhase, Lock, LockFree, abort_open
<1>32. ASSUME NEW w \in Workflows, FinishFails(w) PROVE PlanInv'
  BY <1>32 DEF FinishFails, Goto
<1>33. ASSUME NEW w \in Workflows, FinishPublishes(w) PROVE PlanInv'
  BY <1>33 DEF FinishPublishes, Goto, Publish, SetFlag, TerminalAllowed,
      SlotInv, HolderOwns
<1>34. ASSUME NEW w \in Workflows, CleanupLocks(w) PROVE PlanInv'
  BY <1>34 DEF CleanupLocks, Lock, LockFree
<1>35. ASSUME NEW w \in Workflows, CleanupRound(w) PROVE PlanInv'
  BY <1>35 DEF CleanupRound, Done, Goto, SetFlag, StopSession, TypeOK
<1>36. ASSUME NEW w \in Workflows, CleanupStops(w) PROVE PlanInv'
  BY <1>36 DEF CleanupStops, Goto
<1>37. ASSUME NEW w \in Workflows, CleanupMarks(w) PROVE PlanInv'
  BY <1>37 DEF CleanupMarks, Goto, mark_dirty, write_marker, TypeOK, SlotInv,
      HolderOwns
<1>38. ASSUME NEW w \in Workflows, CleanupMarked(w) PROVE PlanInv'
  BY <1>38 DEF CleanupMarked, Goto, MarkReturns, TypeOK
<1>39. ASSUME NEW w \in Workflows, CleanupAborts(w) PROVE PlanInv'
  BY <1>39 DEF CleanupAborts, Goto, abort_open
<1>40. ASSUME NEW w \in Workflows, CleanupAbortFails(w) PROVE PlanInv'
  BY <1>40 DEF CleanupAbortFails, Goto, abort_open
<1>41. ASSUME NEW w \in Workflows, CleanupChecks(w) PROVE PlanInv'
  BY <1>41 DEF CleanupChecks, Goto
<1>42. ASSUME NEW w \in Workflows, CleanupDecides(w) PROVE PlanInv'
  BY <1>42 DEF CleanupDecides, Goto
<1>43. ASSUME NEW w \in Workflows, NEW st \in {"failed", "cancelled"},
            CleanupPublishes(w, st)
     PROVE  PlanInv'
  BY <1>43 DEF CleanupPublishes, Done, Goto, Publish, TerminalAllowed, TypeOK,
      SlotInv, HolderOwns
<1>44. ASSUME NEW w \in Workflows, TaskPanics(w) PROVE PlanInv'
  BY <1>44 DEF TaskPanics, Done, Goto
<1>45. ASSUME NEW w \in Workflows, CleanupPanics(w) PROVE PlanInv'
  BY <1>45 DEF CleanupPanics, Done, Goto
(* Service *)
<1>46. CASE MarkerStep
  BY <1>46 DEF MarkerStep, DirSync, MarkFails, Rename, StoreStep, Syncfs
<1>47. ASSUME NEW w \in Workflows, prune(w) PROVE PlanInv'
  BY <1>47 DEF prune
<1>48. CASE ShutdownEnds
  BY <1>48 DEF ShutdownEnds, TasksDone
<1>49. CASE Restart
  BY <1>49 DEF Restart, Forget
<1>50. CASE Crash
  BY <1>50 DEF Crash, Forget, StoreCrash
<1> QED
  BY <1>1, <1>2, <1>3, <1>4, <1>5, <1>6, <1>7, <1>8, <1>9, <1>10, <1>11,
      <1>12, <1>13, <1>14, <1>15, <1>16, <1>17, <1>18, <1>19, <1>20, <1>21,
      <1>22, <1>23, <1>24, <1>25, <1>26, <1>27, <1>28, <1>29, <1>30, <1>31,
      <1>32, <1>33, <1>34, <1>35, <1>36, <1>37, <1>38, <1>39, <1>40, <1>41,
      <1>42, <1>43, <1>44, <1>45, <1>46, <1>47, <1>48, <1>49, <1>50
  DEF Next, HolderStep, RequestStep, TaskStep

(***************************************************************************)
(* At every point of every operation: what a pending marker write will     *)
(* publish, and in which states the upload plan and its commit can be.     *)
(***************************************************************************)
THEOREM PlanInvariant == Spec => []PlanInv
<1>1. Init => PlanInv
  BY PlanInit
<1>2. TypeOK /\ SlotInv /\ PlanInv /\ [Next]_vars => PlanInv'
  BY PlanStep
<1> QED
  BY <1>1, <1>2, TypeCorrect, SlotInvariant, PTL DEF Spec

(***************************************************************************)
(* An open or committing plan is always known to the workflow that owns the *)
(* slot, so no cleanup, panic or creation strands the only sync permit.    *)
(***************************************************************************)
THEOREM PlanHasOwnerAlways == Spec => []PlanHasOwner
<1>1. PlanInv => PlanHasOwner
  BY DEF PlanInv
<1> QED
  BY <1>1, PlanInvariant, PTL

-----------------------------------------------------------------------------
(* The third layer, and the results.                                       *)

LEMMA TreeInit == Init => TreeInv
BY NoneAssumption
   DEF Init, Fresh, StoreInit, TreeInv, DirtyBeforeWriting, TreeFits, Baseline,
       ReusableIsTrusted, VivadoHoldsSlot, PatchesTrustedTree, PullingIsPublished,
       Writing, Uploading, Vivado, CleanMarkOps

LEMMA TreeStep ==
  ASSUME TypeOK, SlotInv, PlanInv, TreeInv, [Next]_vars
  PROVE  TreeInv'
<1> USE NoneAssumption DEF vars, storeVars, markerVars, registryVars,
    requestVars, cleanupVars, planVars, sessionVars, localVars, clientVars,
    flagVars, dataVars, outsideVars, workflowVars, PublishedVars, Owning,
    Terminal, CreateOps, CommitOps, StartOps, CleanupOps, CleanMarkOps,
    DirtyMarkOps, MarkOps, SettledOps, StoppedOps, BeforeVivado, WithoutPlan,
    Vivado
<1> USE DEF TreeInv, DirtyBeforeWriting, TreeFits, Baseline,
    ReusableIsTrusted, VivadoHoldsSlot, PatchesTrustedTree,
    PullingIsPublished, Writing, Uploading
<1>1. CASE UNCHANGED vars
  BY <1>1
(* Steps that change nothing this invariant speaks of. *)
<1>2. ASSUME NEW w \in Workflows,
             \/ Heartbeat(w) \/ FallSilent(w) \/ lease(w) \/ StopReads(w)
             \/ LeaseDrop(w) \/ ObserverPolls(w)
     PROVE  TreeInv'
  <2>1. UNCHANGED <<active, baseline_clean, commit_result, disk, initializing,
                    mw, op, plan, plan_kind, requires_full_upload, seen_clean,
                    sess, status, tree, tree_before, tree_on>>
    BY <1>2 DEF Heartbeat, FallSilent, lease, StopReads, LeaseDrop,
        ObserverPolls
  <2> QED
    BY <2>1
(* Creation *)
<1>3. ASSUME NEW w \in Workflows, CreateReserve(w) PROVE TreeInv'
  BY <1>3 DEF CreateReserve, Goto, TypeOK, SlotInv, AbsentIsFresh, PlanInv,
      PlanHasOwner
<1>4. ASSUME NEW w \in Workflows, CreateRead(w) PROVE TreeInv'
  BY <1>4 DEF CreateRead, Goto, SetFlag, is_clean, TypeOK, PlanInv, MarkerFits
<1>5. ASSUME NEW w \in Workflows, NEW reset \in BOOLEAN,
            CreateAccept(w, reset)
     PROVE  TreeInv'
  BY <1>5 DEF CreateAccept, Done, Goto, SetFlag, PlanInv, PlanFits
<1>6. ASSUME NEW w \in Workflows, CreateRefuse(w) PROVE TreeInv'
  BY <1>6 DEF CreateRefuse, Done, Goto, Publish, SetFlag, TerminalAllowed,
      TypeOK, SlotInv, SessionFits
(* Heartbeat and transfers *)
<1>7. ASSUME NEW w \in Workflows, expire_active(w) PROVE TreeInv'
  BY <1>7 DEF expire_active, StillOwner, request_cleanup, TypeOK, Raise
(* The upload plan *)
<1>8. ASSUME NEW w \in Workflows, PushBegin(w) PROVE TreeInv'
  BY <1>8 DEF PushBegin, InPhase, Lock, LockFree, PlanKind, refresh_open_sync,
      SlotInv, SlotAgrees, PlanInv, PlanHasOwner
<1>9. ASSUME NEW w \in Workflows, PushPlan(w) PROVE TreeInv'
  BY <1>9 DEF PushPlan, Goto, SlotInv, HolderOwns, SessionFits, PlanInv,
      PlanFits
<1>10. ASSUME NEW w \in Workflows, abort_sync(w) PROVE TreeInv'
  BY <1>10 DEF abort_sync, InPhase, LockFree
<1>11. CASE PlanExpires
  BY <1>11 DEF PlanExpires
(* Commit *)
<1>12. ASSUME NEW w \in Workflows, CommitBegin(w) PROVE TreeInv'
  BY <1>12 DEF CommitBegin, InPhase, Lock, LockFree, SetFlag, is_clean,
      mark_dirty, write_marker, SlotInv, SlotAgrees, HolderOwns, PlanInv,
      MarkerFits
<1>13. ASSUME NEW w \in Workflows, CommitMarked(w) PROVE TreeInv'
  BY <1>13 DEF CommitMarked, Goto, MarkReturns, PlanInv, MarkerFits
<1>14. ASSUME NEW w \in Workflows, MarkerError(w) PROVE TreeInv'
  BY <1>14 DEF MarkerError, Done, Goto, MarkReturns, StillOwner, fail,
      request_cleanup, TypeOK, Raise
<1>15. ASSUME NEW w \in Workflows, CommitApply(w) PROVE TreeInv'
  BY <1>15 DEF CommitApply, Goto, TypeOK, SlotInv, HolderOwns, PlanInv,
      PlanFits
<1>16. CASE ApplyWrites
  BY <1>16 DEF ApplyWrites, SlotInv, HolderOwns, PlanInv, PlanFits
<1>17. CASE ApplySettles
  BY <1>17 DEF ApplySettles, TypeOK, SlotInv, SlotAgrees, HolderOwns, PlanInv,
      PlanFits, PlanHasOwner
<1>18. ASSUME NEW w \in Workflows, CommitOk(w) PROVE TreeInv'
  BY <1>18 DEF CommitOk, Done, Goto, PlanInv, PlanFits
<1>19. ASSUME NEW w \in Workflows, CommitErr(w) PROVE TreeInv'
  BY <1>19 DEF CommitErr, Goto, PlanInv, PlanFits
<1>20. ASSUME NEW w \in Workflows, CommitRestore(w) PROVE TreeInv'
  BY <1>20 DEF CommitRestore, CommitRestores, Goto, mark_clean, write_marker,
      SlotInv, HolderOwns, SessionFits, PlanInv, PlanFits
<1>21. ASSUME NEW w \in Workflows, CommitGivesUp(w) PROVE TreeInv'
  BY <1>21 DEF CommitGivesUp, CommitRestores, Done, Goto, StillOwner, fail,
      request_cleanup, TypeOK, SlotInv, SlotAgrees, HolderOwns, Raise
<1>22. ASSUME NEW w \in Workflows, CommitRestored(w) PROVE TreeInv'
  BY <1>22 DEF CommitRestored, Done, Goto, MarkReturns, StillOwner, fail,
      request_cleanup, TypeOK, Raise
(* The session *)
<1>23. ASSUME NEW w \in Workflows, StartRefused(w) PROVE TreeInv'
  BY <1>23 DEF StartRefused, InPhase, LockFree, refresh_open_sync
<1>24. ASSUME NEW w \in Workflows, StartBegin(w) PROVE TreeInv'
  BY <1>24 DEF StartBegin, InPhase, Lock, LockFree, mark_dirty,
      refresh_open_sync, write_marker, SlotInv, SlotAgrees, HolderOwns
<1>25. ASSUME NEW w \in Workflows, StartMarked(w) PROVE TreeInv'
  BY <1>25 DEF StartMarked, Goto, InPhase, MarkReturns, PlanInv, MarkerFits
<1>26. ASSUME NEW w \in Workflows, Spawn(w) PROVE TreeInv'
  BY <1>26 DEF Spawn, TypeOK, SlotInv, SlotAgrees, HolderOwns, PlanInv,
      PlanFits
<1>27. ASSUME NEW w \in Workflows, SpawnFails(w) PROVE TreeInv'
  BY <1>27 DEF SpawnFails, Goto, StillOwner, fail, request_cleanup, TypeOK,
      SlotInv, SlotAgrees, HolderOwns, PlanInv, PlanFits, Raise
<1>28. ASSUME NEW w \in Workflows, StartOk(w) PROVE TreeInv'
  BY <1>28 DEF StartOk, Goto
<1>29. ASSUME NEW w \in Workflows, SessionEnds(w) PROVE TreeInv'
  BY <1>29 DEF SessionEnds, TypeOK
<1>30. ASSUME NEW w \in Workflows, ObserverLocks(w) PROVE TreeInv'
  BY <1>30 DEF ObserverLocks, Lock, LockFree, StillOwner, fail, mark_clean,
      request_cleanup, write_marker, TypeOK, SlotInv, SlotAgrees, StatusFits,
      Raise
<1>31. ASSUME NEW w \in Workflows, ObserverPublishes(w) PROVE TreeInv'
  BY <1>31 DEF ObserverPublishes, Goto, MarkReturns, TypeOK, SlotInv,
      SessionFits, PlanInv, MarkerFits
<1>32. ASSUME NEW w \in Workflows, ReportFailure(w) PROVE TreeInv'
  BY <1>32 DEF ReportFailure, StillOwner, request_cleanup, TypeOK, SlotInv,
      SlotAgrees, Raise
(* Finish, cancel and cleanup *)
<1>33. ASSUME NEW w \in Workflows, FinishBegin(w) PROVE TreeInv'
  BY <1>33 DEF FinishBegin, InPhase, Lock, LockFree, abort_open
<1>34. ASSUME NEW w \in Workflows, FinishFails(w) PROVE TreeInv'
  BY <1>34 DEF FinishFails, Goto
<1>35. ASSUME NEW w \in Workflows, FinishPublishes(w) PROVE TreeInv'
  BY <1>35 DEF FinishPublishes, Goto, Publish, SetFlag, TerminalAllowed,
      TypeOK
<1>36. ASSUME NEW w \in Workflows, cancel(w) PROVE TreeInv'
  BY <1>36 DEF cancel, StillOwner, request_cleanup, TypeOK, Raise
<1>37. ASSUME NEW w \in Workflows, CleanupLocks(w) PROVE TreeInv'
  BY <1>37 DEF CleanupLocks, Lock, LockFree
<1>38. ASSUME NEW w \in Workflows, CleanupRound(w) PROVE TreeInv'
  BY <1>38 DEF CleanupRound, Done, Goto, SetFlag, StopSession, TypeOK
<1>39. ASSUME NEW w \in Workflows, CleanupStops(w) PROVE TreeInv'
  BY <1>39 DEF CleanupStops, Goto
<1>40. ASSUME NEW w \in Workflows, CleanupMarks(w) PROVE TreeInv'
  BY <1>40 DEF CleanupMarks, Goto, mark_dirty, write_marker, TypeOK, SlotInv,
      HolderOwns
<1>41. ASSUME NEW w \in Workflows, CleanupMarked(w) PROVE TreeInv'
  BY <1>41 DEF CleanupMarked, Goto, MarkReturns, TypeOK
<1>42. ASSUME NEW w \in Workflows, CleanupAborts(w) PROVE TreeInv'
  BY <1>42 DEF CleanupAborts, Goto, abort_open
<1>43. ASSUME NEW w \in Workflows, CleanupAbortFails(w) PROVE TreeInv'
  BY <1>43 DEF CleanupAbortFails, Goto, abort_open
<1>44. ASSUME NEW w \in Workflows, CleanupChecks(w) PROVE TreeInv'
  BY <1>44 DEF CleanupChecks, Goto, SetFlag, is_clean
<1>45. ASSUME NEW w \in Workflows, CleanupDecides(w) PROVE TreeInv'
  BY <1>45 DEF CleanupDecides, Goto
<1>46. ASSUME NEW w \in Workflows, NEW st \in {"failed", "cancelled"},
            CleanupPublishes(w, st)
     PROVE  TreeInv'
  BY <1>46 DEF CleanupPublishes, Done, Goto, Publish, SetFlag,
      TerminalAllowed, TypeOK, SlotInv, SessionFits
<1>47. ASSUME NEW w \in Workflows, TaskPanics(w) PROVE TreeInv'
  BY <1>47 DEF TaskPanics, Done, Goto, TypeOK
<1>48. ASSUME NEW w \in Workflows, ObserverPanics(w) PROVE TreeInv'
  BY <1>48 DEF ObserverPanics, TypeOK
<1>49. ASSUME NEW w \in Workflows, CleanupPanics(w) PROVE TreeInv'
  BY <1>49 DEF CleanupPanics, Done, Goto
(* Service *)
<1>50. CASE MarkerStep
  BY <1>50 DEF MarkerStep, DirSync, MarkFails, Rename, StoreStep, Syncfs,
      SlotInv, SlotAgrees, HolderOwns, StatusFits, SessionFits, PlanInv,
      MarkerFits, PlanFits
<1>51. ASSUME NEW w \in Workflows, prune(w) PROVE TreeInv'
  BY <1>51 DEF prune, SlotInv, SlotAgrees
<1>52. CASE shutdown
  BY <1>52 DEF shutdown, ShutdownCancels, StillOwner, request_cleanup, TypeOK,
      Raise
<1>53. CASE ShutdownEnds
  BY <1>53 DEF ShutdownEnds, TasksDone
<1>54. CASE Restart
  BY <1>54 DEF Restart, Forget
<1>55. CASE Crash
  BY <1>55 DEF Crash, Forget, StoreCrash
<1> QED
  BY <1>1, <1>2, <1>3, <1>4, <1>5, <1>6, <1>7, <1>8, <1>9, <1>10, <1>11,
      <1>12, <1>13, <1>14, <1>15, <1>16, <1>17, <1>18, <1>19, <1>20, <1>21,
      <1>22, <1>23, <1>24, <1>25, <1>26, <1>27, <1>28, <1>29, <1>30, <1>31,
      <1>32, <1>33, <1>34, <1>35, <1>36, <1>37, <1>38, <1>39, <1>40, <1>41,
      <1>42, <1>43, <1>44, <1>45, <1>46, <1>47, <1>48, <1>49, <1>50, <1>51,
      <1>52, <1>53, <1>54, <1>55
  DEF Next, HolderStep, RequestStep, TaskStep

(***************************************************************************)
(* Why the tree is complete wherever an operation trusts it: the dirty     *)
(* marker is durable before the first write, a baseline is only remembered *)
(* over a complete tree, and a failed commit restores it or forgets it.    *)
(***************************************************************************)
THEOREM TreeInvariant == Spec => []TreeInv
<1>1. Init => TreeInv
  BY TreeInit
<1>2. TypeOK /\ SlotInv /\ PlanInv /\ TreeInv /\ [Next]_vars => TreeInv'
  BY TreeStep
<1> QED
  BY <1>1, <1>2, TypeCorrect, SlotInvariant, PlanInvariant, PTL DEF Spec

(***************************************************************************)
(* The marker's contract for any number of workflows and any interleaving of *)
(* requests, tasks, faults, crashes and power losses: whenever a restart may *)
(* find "clean", the tree is complete, durable and nobody writes to it.    *)
(***************************************************************************)
THEOREM MarkerIsTrustworthy == Spec => []ReusableIsTrusted
<1>1. TreeInv => ReusableIsTrusted
  BY DEF TreeInv
<1> QED
  BY <1>1, TreeInvariant, PTL

(***************************************************************************)
(* As long as a Vivado process may be alive its workflow owns the slot and *)
(* the project is durably dirty: no timeout or failed stop releases capacity. *)
(***************************************************************************)
THEOREM VivadoHoldsSlotAlways == Spec => []VivadoHoldsSlot
<1>1. TreeInv => VivadoHoldsSlot
  BY DEF TreeInv
<1> QED
  BY <1>1, TreeInvariant, PTL

(***************************************************************************)
(* An incremental upload plan is only ever open over a complete tree.      *)
(***************************************************************************)
THEOREM PatchesTrustedTreeAlways == Spec => []PatchesTrustedTree
<1>1. TreeInv => PatchesTrustedTree
  BY DEF TreeInv
<1> QED
  BY <1>1, TreeInvariant, PTL

(***************************************************************************)
(* Outputs are offered only of a Vivado that exited with code zero and with *)
(* the clean marker durable.                                               *)
(***************************************************************************)
THEOREM PullingIsPublishedAlways == Spec => []PullingIsPublished
<1>1. TreeInv => PullingIsPublished
  BY DEF TreeInv
<1> QED
  BY <1>1, TreeInvariant, PTL
(***************************************************************************)
(* The fourth layer: what a release relies on.                             *)
(***************************************************************************)

LEMMA ReleaseInit == Init => ReleaseInv
BY DEF Init, Fresh, ReleaseInv

(* No lock is taken, no transfer begins and no marker is read or written.  *)
LEMMA ReleaseKept ==
  ASSUME ReleaseInv, UNCHANGED <<op, transfers, seen_clean, marker>>,
         \A w \in Workflows : status'[w] = "absent" => status[w] = "absent"
  PROVE  ReleaseInv'
BY DEF ReleaseInv

(* The holder of a lock, or whoever takes a free one, moves on; the point  *)
(* it reaches trusts a clean marker only if the one it left did.           *)
LEMMA ReleaseMoved ==
  ASSUME ReleaseInv, TypeOK, NEW w \in Workflows, NEW to,
         op' = [op EXCEPT ![w] = to],
         op[w] # "idle" \/ transfers[w] = 0, UNCHANGED <<transfers, marker>>,
         \A v \in Workflows \ {w} : v \in seen_clean' => v \in seen_clean,
         to \in {"cleanup_decide", "cleanup_to_failed", "cleanup_to_cancelled"} =>
           op[w] = "cleanup_decide" /\ seen_clean' = seen_clean,
         status[w] # "absent" \/ transfers[w] = 0,
         \A v \in Workflows : status'[v] = "absent" => status[v] = "absent"
  PROVE  ReleaseInv'
BY DEF ReleaseInv, TypeOK

LEMMA FailedIsNotAbsent ==
  ASSUME TypeOK, NEW w \in Workflows, fail(w, TRUE)
  PROVE  \A v \in Workflows : status'[v] = "absent" => status[v] = "absent"
BY DEF fail, request_cleanup, cleanupVars, TypeOK

(* The lock is released, or the round of a cleanup starts over.            *)
LEMMA ReleaseLeft ==
  ASSUME ReleaseInv, TypeOK, NEW w \in Workflows,
         NEW to \in {"idle", "cleanup", "cleanup_stop", "cleanup_mark"},
         op[w] # "idle", op' = [op EXCEPT ![w] = to],
         UNCHANGED <<transfers, marker>>, seen_clean' \subseteq seen_clean,
         \A v \in Workflows : status'[v] = "absent" => status[v] = "absent"
  PROVE  ReleaseInv'
BY DEF ReleaseInv, TypeOK

LEMMA ReleaseStep ==
  ASSUME TypeOK, SlotInv, PlanInv, TreeInv, ReleaseInv, [Next]_vars
  PROVE  ReleaseInv'
<1> USE NoneAssumption DEF vars, storeVars, markerVars, registryVars, requestVars,
    cleanupVars, planVars, sessionVars, localVars, clientVars, flagVars, dataVars,
    outsideVars, workflowVars, PublishedVars
<1>1. CASE UNCHANGED vars
  BY <1>1, ReleaseKept
<1>2. ASSUME NEW w \in Workflows,
             \/ Heartbeat(w) \/ FallSilent(w) \/ StopReads(w) \/ ObserverPolls(w)
             \/ expire_active(w) \/ cancel(w) \/ prune(w) \/ SessionEnds(w) \/ Spawn(w)
             \/ ObserverPanics(w) \/ abort_sync(w) \/ StartRefused(w) \/ ReportFailure(w)
     PROVE  ReleaseInv'
  BY <1>2, ReleaseKept
  DEF Heartbeat, FallSilent, StopReads, ObserverPolls, expire_active, cancel, prune,
      SessionEnds, Spawn, ObserverPanics, abort_sync, StartRefused, ReportFailure,
      request_cleanup, TypeOK
<1>3. CASE PlanExpires \/ ApplyWrites \/ ApplySettles \/ shutdown \/ ShutdownEnds
  BY <1>3, ReleaseKept
  DEF PlanExpires, ApplyWrites, ApplySettles, shutdown, ShutdownCancels, ShutdownEnds,
      request_cleanup, TypeOK
<1>4. ASSUME NEW w \in Workflows, lease(w) \/ LeaseDrop(w)
     PROVE  ReleaseInv'
  BY <1>4 DEF lease, LeaseDrop, LeaseHeld, ReleaseInv, TypeOK
(* Taking the lock. *)
<1>5. ASSUME NEW w \in Workflows,
             \/ CreateReserve(w) \/ PushBegin(w) \/ CommitBegin(w) \/ StartBegin(w)
             \/ FinishBegin(w) \/ CleanupLocks(w)
     PROVE  ReleaseInv'
  BY <1>5, ReleaseMoved
  DEF CreateReserve, PushBegin, CommitBegin, StartBegin, FinishBegin, CleanupLocks, Lock,
      LockFree, Goto, SetFlag, mark_dirty, write_marker, ReleaseInv, TypeOK
<1>6. ASSUME NEW w \in Workflows, ObserverLocks(w)
     PROVE  ReleaseInv'
  <2>1. CASE UNCHANGED <<storeVars, op>> /\ (fail(w, TRUE) \/ UNCHANGED cleanupVars)
    <3>1. UNCHANGED <<op, transfers, seen_clean, marker>>
      BY <1>6, <2>1 DEF ObserverLocks
    <3>2. \A v \in Workflows : status'[v] = "absent" => status[v] = "absent"
      BY <2>1 DEF fail, request_cleanup, TypeOK
    <3> QED
      BY <3>1, <3>2, ReleaseKept
  <2>2. CASE Lock(w, "observe_mark") /\ mark_clean /\ UNCHANGED cleanupVars
    <3>1. /\ op[w] = "idle" /\ transfers[w] = 0 /\ op' = [op EXCEPT ![w] = "observe_mark"]
          /\ UNCHANGED <<transfers, marker, seen_clean, status>>
      BY <1>6, <2>2 DEF ObserverLocks, Lock, LockFree, mark_clean, write_marker
    <3>2. \A v \in Workflows : status'[v] = "absent" => status[v] = "absent"
      BY <3>1
    <3> QED
      BY <3>1, <3>2, ReleaseMoved
  <2> QED
    BY <1>6, <2>1, <2>2 DEF ObserverLocks
(* Holding it. *)
<1>7. ASSUME NEW w \in Workflows,
             \/ CreateRead(w) \/ PushPlan(w) \/ CommitMarked(w) \/ CommitApply(w)
             \/ CommitOk(w) \/ CommitErr(w) \/ CommitRestore(w) \/ StartMarked(w)
             \/ FinishFails(w) \/ CleanupStops(w) \/ CleanupMarks(w)
             \/ CleanupMarked(w) \/ CleanupAborts(w) \/ CleanupAbortFails(w)
             \/ CleanupDecides(w) \/ (\E reset \in BOOLEAN : CreateAccept(w, reset))
     PROVE  ReleaseInv'
  BY <1>7, ReleaseMoved
  DEF CreateRead, PushPlan, CommitMarked, CommitApply, CommitOk, CommitErr, CommitRestore,
      StartMarked, FinishFails, CleanupStops, CleanupMarks, CleanupMarked,
      CleanupAborts, CleanupAbortFails, CleanupDecides, CreateAccept, Goto, Done, SetFlag,
      mark_dirty, mark_clean, write_marker, MarkReturns, ReleaseInv, TypeOK
<1>8. ASSUME NEW w \in Workflows,
             \/ TaskPanics(w) \/ CleanupPanics(w) \/ MarkerError(w) \/ CleanupRound(w)
             \/ SpawnFails(w) \/ StartOk(w) \/ ObserverPublishes(w)
     PROVE  ReleaseInv'
  <2>1. CASE TaskPanics(w)
    BY <2>1, ReleaseLeft DEF TaskPanics, Done, Goto, CreateOps, TypeOK
  <2>2. CASE CleanupPanics(w)
    BY <2>2, ReleaseLeft DEF CleanupPanics, Done, Goto, CleanupOps, TypeOK
  <2>3. CASE MarkerError(w)
    BY <2>3, ReleaseLeft, FailedIsNotAbsent DEF MarkerError, Done, Goto, MarkReturns
  <2>4. CASE CleanupRound(w)
    BY <2>4, ReleaseLeft DEF CleanupRound, Done, Goto, TypeOK
  <2>5. CASE SpawnFails(w)
    BY <2>5, ReleaseLeft, FailedIsNotAbsent DEF SpawnFails, Goto
  <2>6. CASE StartOk(w)
    BY <2>6, ReleaseLeft DEF StartOk, Goto, TypeOK
  <2>7. CASE ObserverPublishes(w)
    BY <2>7, ReleaseLeft DEF ObserverPublishes, Goto, MarkReturns, TypeOK
  <2> QED
    BY <1>8, <2>1, <2>2, <2>3, <2>4, <2>5, <2>6, <2>7
<1>9. ASSUME NEW w \in Workflows, CommitGivesUp(w) \/ CommitRestored(w)
     PROVE  ReleaseInv'
  <2>1. \A v \in Workflows : status'[v] = "absent" => status[v] = "absent"
    BY <1>9 DEF CommitGivesUp, CommitRestored, fail, request_cleanup, TypeOK
  <2> QED
    BY <1>9, <2>1, ReleaseLeft DEF CommitGivesUp, CommitRestored, Done, Goto, MarkReturns
<1>10. ASSUME NEW w \in Workflows,
             \/ CreateRefuse(w) \/ FinishPublishes(w)
             \/ (\E st \in {"failed", "cancelled"} : CleanupPublishes(w, st))
     PROVE  ReleaseInv'
  <2>1. \A v \in Workflows : status'[v] = "absent" => status[v] = "absent"
    BY <1>10 DEF CreateRefuse, FinishPublishes, CleanupPublishes, Publish, TypeOK
  <2> QED
    BY <1>10, <2>1, ReleaseLeft
    DEF CreateRefuse, FinishPublishes, CleanupPublishes, Done, Goto
<1>11. ASSUME NEW w \in Workflows, CleanupChecks(w)
     PROVE  ReleaseInv'
  BY <1>11 DEF CleanupChecks, is_clean, SetFlag, Goto, ReleaseInv, TypeOK
(* The marker changes only for an operation that waits for it, and then    *)
(* nobody else holds a lock beyond its first check.                        *)
<1>12. CASE MarkerStep
  <2>1. CASE UNCHANGED marker
    BY <1>12, <2>1, ReleaseKept DEF MarkerStep
  <2>2. CASE mw # "idle"
    <3>1. PICK w \in Workflows : op[w] \in MarkOps
      BY <2>2 DEF PlanInv, MarkerFits
    <3>2. \A v \in Workflows : op[v] \notin {"cleanup_decide", "cleanup_to_failed",
                                             "cleanup_to_cancelled"}
      BY <3>1 DEF SlotInv, HolderOwns, MarkOps, CleanMarkOps, DirtyMarkOps
    <3> QED
      BY <1>12, <3>2 DEF MarkerStep, ReleaseInv
  <2> QED
    BY <1>12, <2>1, <2>2 DEF MarkerStep, StoreStep, Syncfs, Rename, DirSync, MarkFails
<1>13. CASE Restart \/ Crash
  BY <1>13 DEF Restart, Crash, Forget, ReleaseInv
<1> QED
  BY <1>1, <1>2, <1>3, <1>4, <1>5, <1>6, <1>7, <1>8, <1>9, <1>10, <1>11,
      <1>12, <1>13
  DEF Next, HolderStep, RequestStep, TaskStep

(***************************************************************************)
(* Whoever holds the write lock has seen the last transfer go, and a       *)
(* marker read as clean by the last round of a cleanup is not written.     *)
(***************************************************************************)
THEOREM ReleaseInvariant == Spec => []ReleaseInv
<1>1. Init => ReleaseInv
  BY ReleaseInit
<1>2. TypeOK /\ SlotInv /\ PlanInv /\ TreeInv /\ ReleaseInv /\ [Next]_vars => ReleaseInv'
  BY ReleaseStep
<1> QED
  BY <1>1, <1>2, TypeCorrect, SlotInvariant, PlanInvariant, TreeInvariant, PTL DEF Spec
=============================================================================
