---------------------------- MODULE SessionProofs ----------------------------
(***************************************************************************)
(* The safety of the session manager and its supervisors, for any set of   *)
(* sessions and of inputs, any faults and any amount of output: the parts  *)
(* of SessionInv are inductive one on the other, and the properties and    *)
(* the contract follow from them.                                          *)
(***************************************************************************)
EXTENDS SessionInductive, TLAPS

(***************************************************************************)
(* Types.                                                                  *)
(***************************************************************************)

(* A fresh service is of its type.                                         *)
LEMMA TypeInit == Init => SessionTypeOK
<1> SUFFICES ASSUME Init PROVE SessionTypeOK
  OBVIOUS
<1> USE DEF Init, ProcessInit
<1>1. ProcessTypeOK
  BY OutputAssumption DEF ProcessTypeOK, Leaders, Codes
<1>2. output \in [Sessions -> 0 .. MaxOutput]
  BY OutputAssumption
<1> QED
  BY <1>1, <1>2 DEF SessionTypeOK, Ended, SupPoints

(* Every step keeps the types; EvRead never counts past what was printed.  *)
LEMMA TypeStep ==
  ASSUME SessionTypeOK, [Next]_vars
  PROVE  SessionTypeOK'
<1> USE OutputAssumption DEF vars, processVars, managerVars, statusVars, stopVars,
    localVars, inputVars, sessionVars, Ended, LoopPoints, Running, SupPoints,
    Reasons, Outstanding, Leaders, Codes
<1> USE DEF SessionTypeOK, ProcessTypeOK
<1>1. CASE UNCHANGED vars
  BY <1>1
<1>2. ASSUME NEW s \in Sessions, PrepareFails(s) PROVE SessionTypeOK'
  BY <1>2 DEF PrepareFails, NeverStarted, finish, Goto, At
<1>3. ASSUME NEW s \in Sessions, SpawnFails(s) PROVE SessionTypeOK'
  BY <1>3 DEF SpawnFails, NeverStarted, finish, Goto, At
<1>4. ASSUME NEW s \in Sessions, PrepareCancelled(s) PROVE SessionTypeOK'
  BY <1>4 DEF PrepareCancelled, NeverStarted, finish, Goto, At
<1>5. ASSUME NEW s \in Sessions, Prepared(s) PROVE SessionTypeOK'
  BY <1>5 DEF Prepared, Goto, At
<1>6. ASSUME NEW s \in Sessions, SpawnPanics(s) PROVE SessionTypeOK'
  BY <1>6 DEF SpawnPanics, stopping, reject_inputs, Interrupted, Goto, At
<1>7. ASSUME NEW s \in Sessions, SpawnOk(s) PROVE SessionTypeOK'
  BY <1>7 DEF SpawnOk, request_stop, Goto, At
<1>8. ASSUME NEW s \in Sessions, SpawnUnwatched(s) PROVE SessionTypeOK'
  BY <1>8 DEF SpawnUnwatched, request_stop, Goto, At
<1>9. ASSUME NEW s \in Sessions, Release(s) PROVE SessionTypeOK'
  <2>1. caller' \in [Sessions -> {"none", "waiting", "gone", "ok", "err"}]
    BY <1>9 DEF Release
  <2>2. degraded' \in BOOLEAN
    BY <1>9 DEF Release
  <2> QED
    BY <1>9, <2>1, <2>2 DEF Release, Goto
<1>10. ASSUME NEW s \in Sessions, Return(s) PROVE SessionTypeOK'
  BY <1>10 DEF Return, reject_inputs, Interrupted, Goto, At
<1>11. ASSUME NEW s \in Sessions, SupervisorPanics(s) PROVE SessionTypeOK'
  BY <1>11 DEF SupervisorPanics, identity_owned, SignalGroup, reject_inputs,
      Interrupted, Goto
<1>12. ASSUME NEW s \in Sessions, EvStop(s) PROVE SessionTypeOK'
  BY <1>12 DEF EvStop, stopping, reject_inputs, Interrupted, At
<1>13. ASSUME NEW s \in Sessions, EvInput(s) PROVE SessionTypeOK'
  BY <1>13 DEF EvInput, Selecting, At
<1>14. ASSUME NEW s \in Sessions, EvWritten(s) PROVE SessionTypeOK'
  BY <1>14 DEF EvWritten, Pending, Selecting, At
<1>15. ASSUME NEW s \in Sessions, EvWriteFails(s) PROVE SessionTypeOK'
  BY <1>15 DEF EvWriteFails, Pending, request_stop, Selecting, At
<1>16. ASSUME NEW s \in Sessions, EvRead(s) PROVE SessionTypeOK'
  BY <1>16 DEF EvRead, Readable, Selecting, At
<1>17. ASSUME NEW s \in Sessions, EvReadEof(s) PROVE SessionTypeOK'
  BY <1>17 DEF EvReadEof, Selecting, At
<1>18. ASSUME NEW s \in Sessions, EvReadFails(s) PROVE SessionTypeOK'
  BY <1>18 DEF EvReadFails, request_stop, Selecting, At
<1>19. ASSUME NEW s \in Sessions, TickDrain(s) PROVE SessionTypeOK'
  BY <1>19 DEF TickDrain, Selecting, At
<1>20. ASSUME NEW s \in Sessions, TickAlive(s) PROVE SessionTypeOK'
  BY <1>20 DEF TickAlive, Tick, Goto, Selecting, At
<1>21. ASSUME NEW s \in Sessions, TickExited(s) PROVE SessionTypeOK'
  BY <1>21 DEF TickExited, NaturalExit, stopping, reject_inputs, Interrupted,
      Tick, Goto, Selecting, At
<1>22. ASSUME NEW s \in Sessions, TickCannotWait(s) PROVE SessionTypeOK'
  BY <1>22 DEF TickCannotWait, LosesChild, request_stop, Report, Tick, Goto,
      Selecting, At
<1>23. ASSUME NEW s \in Sessions, NEW kill \in {"skipped"} \cup Outcomes(s),
             Signal(s, kill)
     PROVE  SessionTypeOK'
  BY <1>23 DEF Signal, SignalGroup, Report, Goto, At
<1>24. ASSUME NEW s \in Sessions, ScanInconclusive(s) PROVE SessionTypeOK'
  BY <1>24 DEF ScanInconclusive, Report, Goto, At
<1>25. ASSUME NEW s \in Sessions, ScanEmpty(s) PROVE SessionTypeOK'
  BY <1>25 DEF ScanEmpty, SignalGroup, Report, Goto, At,
      group_has_live_members
<1>26. ASSUME NEW s \in Sessions, Reap(s) PROVE SessionTypeOK'
  BY <1>26 DEF Reap, group_has_live_members, Goto, At
<1>27. ASSUME NEW s \in Sessions, CannotReap(s) PROVE SessionTypeOK'
  BY <1>27 DEF CannotReap, LosesChild, Report, Goto, At
<1>28. ASSUME NEW s \in Sessions, LoopEnds(s) PROVE SessionTypeOK'
  BY <1>28 DEF LoopEnds, LoopOver, finish, reject_inputs, Interrupted, Goto,
      At
<1>29. ASSUME NEW s \in Sessions, Register(s) PROVE SessionTypeOK'
  BY <1>29 DEF Register, SlotFree, Goto
<1>30. ASSUME NEW s \in Sessions, CallerLeaves(s) PROVE SessionTypeOK'
  BY <1>30 DEF CallerLeaves
<1>31. ASSUME NEW s \in Sessions, stop_session(s) PROVE SessionTypeOK'
  BY <1>31 DEF stop_session, request_stop
<1>32. ASSUME NEW s \in Sessions, release_session(s) PROVE SessionTypeOK'
  BY <1>32 DEF release_session
<1>33. ASSUME NEW s \in Sessions, prune(s) PROVE SessionTypeOK'
  BY <1>33 DEF prune, Known
<1>34. ASSUME NEW s \in Sessions, Environment(s) PROVE SessionTypeOK'
  BY <1>34 DEF Environment, ServiceFrame, LeaderExits, HelperStarts,
      HelperEnds, Prints, HelperEscapes, EscapedEnds, HelperHides,
      TerminalHeld
<1>35. ASSUME NEW i \in Inputs, NEW s \in Sessions, CheckInput(i, s)
     PROVE  SessionTypeOK'
  BY <1>35 DEF CheckInput
<1>36. ASSUME NEW i \in Inputs, InputAbandoned(i) PROVE SessionTypeOK'
  BY <1>36 DEF InputAbandoned
<1>37. ASSUME NEW i \in Inputs, EnqueueInput(i) PROVE SessionTypeOK'
  BY <1>37 DEF EnqueueInput
<1>38. CASE shutdown
  BY <1>38 DEF shutdown, Known
<1>39. CASE ShutdownTimesOut
  BY <1>39 DEF ShutdownTimesOut
<1> QED
  BY <1>1, <1>2, <1>3, <1>4, <1>5, <1>6, <1>7, <1>8, <1>9, <1>10, <1>11,
      <1>12, <1>13, <1>14, <1>15, <1>16, <1>17, <1>18, <1>19, <1>20, <1>21,
      <1>22, <1>23, <1>24, <1>25, <1>26, <1>27, <1>28, <1>29, <1>30, <1>31,
      <1>32, <1>33, <1>34, <1>35, <1>36, <1>37, <1>38, <1>39
  DEF Next, SupervisorStep, Proceeds, Fails, ManagerStep

(***************************************************************************)
(* The slot, the status and the supervisor.                                *)
(***************************************************************************)

(* Nobody holds the slot of a fresh service.                               *)
LEMMA SlotInit == Init => SlotFits
BY NoneAssumption
   DEF Init, SlotFits, HoldingPoints, AfterEnd, LoopPoints, Running, Ended

(* The slot is taken with the registration and given up by finished, which *)
(* only its owner calls: no other supervisor clears what a lost one left.  *)
LEMMA SlotStep ==
  ASSUME SessionTypeOK, SlotFits, [Next]_vars
  PROVE  SlotFits'
<1> USE NoneAssumption DEF vars, processVars, managerVars, statusVars, stopVars,
    localVars, inputVars, sessionVars, Ended, LoopPoints, Running, SupPoints
<1> USE DEF SessionTypeOK, SlotFits, HoldingPoints, AfterEnd
<1>1. CASE UNCHANGED vars
  BY <1>1
(* Steps that change nothing this part speaks of. *)
<1>2. ASSUME NEW s \in Sessions,
             \/ EvInput(s) \/ EvWritten(s) \/ EvWriteFails(s) \/ EvRead(s)
             \/ EvReadEof(s) \/ EvReadFails(s) \/ TickDrain(s)
             \/ CallerLeaves(s) \/ stop_session(s) \/ Environment(s)
     PROVE  SlotFits'
  BY <1>2 DEF EvInput, EvWritten, EvWriteFails, EvRead, EvReadEof,
      EvReadFails, TickDrain, CallerLeaves, stop_session, Environment,
      ServiceFrame, LeaderExits, HelperStarts, HelperEnds, Prints,
      HelperEscapes, EscapedEnds, HelperHides
<1>3. ASSUME NEW i \in Inputs,
             \/ InputAbandoned(i) \/ EnqueueInput(i) \/ \E s \in Sessions : CheckInput(i, s)
     PROVE  SlotFits'
  BY <1>3 DEF CheckInput, InputAbandoned, EnqueueInput
(* The others, one by one. *)
<1>4. ASSUME NEW s \in Sessions, PrepareFails(s) PROVE SlotFits'
  BY <1>4 DEF PrepareFails, NeverStarted, finish, Goto, At
<1>5. ASSUME NEW s \in Sessions, SpawnFails(s) PROVE SlotFits'
  BY <1>5 DEF SpawnFails, NeverStarted, finish, Goto, At
<1>6. ASSUME NEW s \in Sessions, PrepareCancelled(s) PROVE SlotFits'
  BY <1>6 DEF PrepareCancelled, NeverStarted, finish, Goto, At
<1>7. ASSUME NEW s \in Sessions, Prepared(s) PROVE SlotFits'
  BY <1>7 DEF Prepared, Goto, At
<1>8. ASSUME NEW s \in Sessions, SpawnPanics(s) PROVE SlotFits'
  BY <1>8 DEF SpawnPanics, stopping, reject_inputs, Interrupted, Goto, At
<1>9. ASSUME NEW s \in Sessions, SpawnOk(s) PROVE SlotFits'
  BY <1>9 DEF SpawnOk, request_stop, Goto, At
<1>10. ASSUME NEW s \in Sessions, SpawnUnwatched(s) PROVE SlotFits'
  BY <1>10 DEF SpawnUnwatched, request_stop, Goto, At
<1>11. ASSUME NEW s \in Sessions, Release(s) PROVE SlotFits'
  BY <1>11 DEF Release, Goto, At
<1>12. ASSUME NEW s \in Sessions, Return(s) PROVE SlotFits'
  BY <1>12 DEF Return, reject_inputs, Interrupted, Goto, At
<1>13. ASSUME NEW s \in Sessions, SupervisorPanics(s) PROVE SlotFits'
  BY <1>13 DEF SupervisorPanics, identity_owned, SignalGroup, reject_inputs,
      Interrupted, Goto
<1>14. ASSUME NEW s \in Sessions, EvStop(s) PROVE SlotFits'
  BY <1>14 DEF EvStop, stopping, reject_inputs, Interrupted, At
<1>15. ASSUME NEW s \in Sessions, TickAlive(s) PROVE SlotFits'
  BY <1>15 DEF TickAlive, Tick, Goto, Selecting, At
<1>16. ASSUME NEW s \in Sessions, TickExited(s) PROVE SlotFits'
  BY <1>16 DEF TickExited, NaturalExit, stopping, reject_inputs, Interrupted,
      Tick, Goto, Selecting, At
<1>17. ASSUME NEW s \in Sessions, TickCannotWait(s) PROVE SlotFits'
  BY <1>17 DEF TickCannotWait, LosesChild, request_stop, Report, Tick, Goto,
      Selecting, At
<1>18. ASSUME NEW s \in Sessions, NEW kill \in {"skipped"} \cup Outcomes(s),
             Signal(s, kill)
     PROVE  SlotFits'
  BY <1>18 DEF Signal, SignalGroup, Report, Goto, At
<1>19. ASSUME NEW s \in Sessions, ScanInconclusive(s) PROVE SlotFits'
  BY <1>19 DEF ScanInconclusive, Report, Goto, At
<1>20. ASSUME NEW s \in Sessions, ScanEmpty(s) PROVE SlotFits'
  BY <1>20 DEF ScanEmpty, SignalGroup, Report, Goto, At,
      group_has_live_members
<1>21. ASSUME NEW s \in Sessions, Reap(s) PROVE SlotFits'
  BY <1>21 DEF Reap, group_has_live_members, Goto, At
<1>22. ASSUME NEW s \in Sessions, CannotReap(s) PROVE SlotFits'
  BY <1>22 DEF CannotReap, LosesChild, Report, Goto, At
<1>23. ASSUME NEW s \in Sessions, LoopEnds(s) PROVE SlotFits'
  BY <1>23 DEF LoopEnds, LoopOver, finish, reject_inputs, Interrupted, Goto,
      At
<1>24. ASSUME NEW s \in Sessions, Register(s) PROVE SlotFits'
  BY <1>24 DEF Register, SlotFree, Goto
<1>25. ASSUME NEW s \in Sessions, release_session(s) PROVE SlotFits'
  BY <1>25 DEF release_session
<1>26. ASSUME NEW s \in Sessions, prune(s) PROVE SlotFits'
  BY <1>26 DEF prune, Known
<1>27. CASE shutdown
  BY <1>27 DEF shutdown, Known
<1>28. CASE ShutdownTimesOut
  BY <1>28 DEF ShutdownTimesOut
<1> QED
  BY <1>1, <1>2, <1>3, <1>4, <1>5, <1>6, <1>7, <1>8, <1>9, <1>10, <1>11,
      <1>12, <1>13, <1>14, <1>15, <1>16, <1>17, <1>18, <1>19, <1>20, <1>21,
      <1>22, <1>23, <1>24, <1>25, <1>26, <1>27, <1>28
  DEF Next, SupervisorStep, Proceeds, Fails, ManagerStep

(***************************************************************************)
(* The process group.                                                      *)
(***************************************************************************)

(* There is no process before the first session.                           *)
LEMMA GroupInit == Init => GroupFits
BY DEF Init, ProcessInit, GroupFits, Unstarted, AfterEnd, LoopPoints

(* A group is reaped after a scan that was confirmed once it was killed:   *)
(* nothing of it forks or hides after the kill.                            *)
LEMMA GroupStep ==
  ASSUME SessionTypeOK, SlotFits, GroupFits, [Next]_vars
  PROVE  GroupFits'
<1> USE DEF vars, processVars, managerVars, statusVars, stopVars,
    localVars, inputVars, sessionVars, Ended, LoopPoints, Running, SupPoints
<1> USE DEF SessionTypeOK, ProcessTypeOK, GroupFits, Unstarted, AfterEnd
<1>1. CASE UNCHANGED vars
  BY <1>1
(* Steps that change nothing this part speaks of. *)
<1>2. ASSUME NEW s \in Sessions,
             \/ EvInput(s) \/ EvWritten(s) \/ EvWriteFails(s)
             \/ CallerLeaves(s) \/ stop_session(s) \/ release_session(s)
     PROVE  GroupFits'
  BY <1>2 DEF EvInput, EvWritten, EvWriteFails, CallerLeaves, stop_session,
      release_session
<1>3. ASSUME NEW i \in Inputs,
             \/ InputAbandoned(i) \/ EnqueueInput(i) \/ \E s \in Sessions : CheckInput(i, s)
     PROVE  GroupFits'
  BY <1>3 DEF CheckInput, InputAbandoned, EnqueueInput
(* The others, one by one. *)
<1>4. ASSUME NEW s \in Sessions, PrepareFails(s) PROVE GroupFits'
  BY <1>4 DEF PrepareFails, NeverStarted, finish, Goto, At
<1>5. ASSUME NEW s \in Sessions, SpawnFails(s) PROVE GroupFits'
  BY <1>5 DEF SpawnFails, NeverStarted, finish, Goto, At
<1>6. ASSUME NEW s \in Sessions, PrepareCancelled(s) PROVE GroupFits'
  BY <1>6 DEF PrepareCancelled, NeverStarted, finish, Goto, At
<1>7. ASSUME NEW s \in Sessions, Prepared(s) PROVE GroupFits'
  BY <1>7 DEF Prepared, Goto, At
<1>8. ASSUME NEW s \in Sessions, SpawnPanics(s) PROVE GroupFits'
  BY <1>8 DEF SpawnPanics, stopping, reject_inputs, Interrupted, Goto, At
<1>9. ASSUME NEW s \in Sessions, SpawnOk(s) PROVE GroupFits'
  BY <1>9 DEF SpawnOk, request_stop, Goto, At
<1>10. ASSUME NEW s \in Sessions, SpawnUnwatched(s) PROVE GroupFits'
  BY <1>10 DEF SpawnUnwatched, request_stop, Goto, At
<1>11. ASSUME NEW s \in Sessions, Release(s) PROVE GroupFits'
  BY <1>11 DEF Release, Goto, At
<1>12. ASSUME NEW s \in Sessions, Return(s) PROVE GroupFits'
  BY <1>12 DEF Return, reject_inputs, Interrupted, Goto, At
<1>13. ASSUME NEW s \in Sessions, SupervisorPanics(s) PROVE GroupFits'
  BY <1>13 DEF SupervisorPanics, identity_owned, SignalGroup, reject_inputs,
      Interrupted, Goto
<1>14. ASSUME NEW s \in Sessions, EvStop(s) PROVE GroupFits'
  BY <1>14 DEF EvStop, stopping, reject_inputs, Interrupted, At
<1>15. ASSUME NEW s \in Sessions, EvRead(s) PROVE GroupFits'
  BY <1>15 DEF EvRead, Readable, Selecting, At
<1>16. ASSUME NEW s \in Sessions, EvReadEof(s) PROVE GroupFits'
  BY <1>16 DEF EvReadEof, Selecting, At
<1>17. ASSUME NEW s \in Sessions, EvReadFails(s) PROVE GroupFits'
  BY <1>17 DEF EvReadFails, request_stop, Selecting, At
<1>18. ASSUME NEW s \in Sessions, TickDrain(s) PROVE GroupFits'
  BY <1>18 DEF TickDrain, Selecting, At
<1>19. ASSUME NEW s \in Sessions, TickAlive(s) PROVE GroupFits'
  BY <1>19 DEF TickAlive, Tick, Goto, Selecting, At
<1>20. ASSUME NEW s \in Sessions, TickExited(s) PROVE GroupFits'
  BY <1>20 DEF TickExited, NaturalExit, stopping, reject_inputs, Interrupted,
      Tick, Goto, Selecting, At
<1>21. ASSUME NEW s \in Sessions, TickCannotWait(s) PROVE GroupFits'
  BY <1>21 DEF TickCannotWait, LosesChild, request_stop, Report, Tick, Goto,
      Selecting, At
<1>22. ASSUME NEW s \in Sessions, NEW kill \in {"skipped"} \cup Outcomes(s),
             Signal(s, kill)
     PROVE  GroupFits'
  BY <1>22 DEF Signal, SignalGroup, Report, Goto, At
<1>23. ASSUME NEW s \in Sessions, ScanInconclusive(s) PROVE GroupFits'
  BY <1>23 DEF ScanInconclusive, Report, Goto, At
<1>24. ASSUME NEW s \in Sessions, ScanEmpty(s) PROVE GroupFits'
  BY <1>24 DEF ScanEmpty, SignalGroup, Report, Goto, At,
      group_has_live_members
<1>25. ASSUME NEW s \in Sessions, Reap(s) PROVE GroupFits'
  BY <1>25 DEF Reap, group_has_live_members, Goto, At
<1>26. ASSUME NEW s \in Sessions, CannotReap(s) PROVE GroupFits'
  BY <1>26 DEF CannotReap, LosesChild, Report, Goto, At
<1>27. ASSUME NEW s \in Sessions, LoopEnds(s) PROVE GroupFits'
  BY <1>27 DEF LoopEnds, LoopOver, finish, reject_inputs, Interrupted, Goto,
      At
<1>28. ASSUME NEW s \in Sessions, Register(s) PROVE GroupFits'
  BY <1>28 DEF SlotFits, Register, SlotFree, Goto
<1>29. ASSUME NEW s \in Sessions, prune(s) PROVE GroupFits'
  BY <1>29 DEF prune, Known
<1>30. ASSUME NEW s \in Sessions, Environment(s) PROVE GroupFits'
  BY <1>30 DEF Environment, ServiceFrame, LeaderExits, HelperStarts,
      HelperEnds, Prints, HelperEscapes, EscapedEnds, HelperHides,
      TerminalHeld
<1>31. CASE shutdown
  BY <1>31 DEF shutdown, Known
<1>32. CASE ShutdownTimesOut
  BY <1>32 DEF ShutdownTimesOut
<1> QED
  BY <1>1, <1>2, <1>3, <1>4, <1>5, <1>6, <1>7, <1>8, <1>9, <1>10, <1>11,
      <1>12, <1>13, <1>14, <1>15, <1>16, <1>17, <1>18, <1>19, <1>20, <1>21,
      <1>22, <1>23, <1>24, <1>25, <1>26, <1>27, <1>28, <1>29, <1>30, <1>31,
      <1>32
  DEF Next, SupervisorStep, Proceeds, Fails, ManagerStep

(***************************************************************************)
(* The reason to stop.                                                     *)
(***************************************************************************)

(* No session of a fresh service has a reason to stop.                     *)
LEMMA ReasonInit == Init => ReasonFits
BY DEF Init, ProcessInit, ReasonFits, LoopPoints

(* The supervisor signals only with a reason in hand, so that an exit it   *)
(* finds without one was nobody's doing.                                   *)
LEMMA ReasonStep ==
  ASSUME SessionTypeOK, SlotFits, GroupFits, ReasonFits, [Next]_vars
  PROVE  ReasonFits'
<1> USE DEF vars, processVars, managerVars, statusVars, stopVars,
    localVars, inputVars, sessionVars, Ended, LoopPoints, Running, SupPoints
<1> USE DEF SessionTypeOK, ProcessTypeOK, SlotFits, GroupFits, Unstarted,
    AfterEnd, ReasonFits
<1>1. CASE UNCHANGED vars
  BY <1>1
(* Steps that change nothing this part speaks of. *)
<1>2. ASSUME NEW s \in Sessions,
             \/ EvInput(s) \/ EvWritten(s) \/ CallerLeaves(s)
             \/ release_session(s)
     PROVE  ReasonFits'
  BY <1>2 DEF EvInput, EvWritten, CallerLeaves, release_session
<1>3. ASSUME NEW i \in Inputs,
             \/ InputAbandoned(i) \/ EnqueueInput(i) \/ \E s \in Sessions : CheckInput(i, s)
     PROVE  ReasonFits'
  BY <1>3 DEF CheckInput, InputAbandoned, EnqueueInput
(* The others, one by one. *)
<1>4. ASSUME NEW s \in Sessions, PrepareFails(s) PROVE ReasonFits'
  BY <1>4 DEF PrepareFails, NeverStarted, finish, Goto, At
<1>5. ASSUME NEW s \in Sessions, SpawnFails(s) PROVE ReasonFits'
  BY <1>5 DEF SpawnFails, NeverStarted, finish, Goto, At
<1>6. ASSUME NEW s \in Sessions, PrepareCancelled(s) PROVE ReasonFits'
  BY <1>6 DEF PrepareCancelled, NeverStarted, finish, Goto, At
<1>7. ASSUME NEW s \in Sessions, Prepared(s) PROVE ReasonFits'
  BY <1>7 DEF Prepared, Goto, At
<1>8. ASSUME NEW s \in Sessions, SpawnPanics(s) PROVE ReasonFits'
  BY <1>8 DEF SpawnPanics, stopping, reject_inputs, Interrupted, Goto, At
<1>9. ASSUME NEW s \in Sessions, SpawnOk(s) PROVE ReasonFits'
  BY <1>9 DEF SpawnOk, request_stop, Goto, At
<1>10. ASSUME NEW s \in Sessions, SpawnUnwatched(s) PROVE ReasonFits'
  BY <1>10 DEF SpawnUnwatched, request_stop, Goto, At
<1>11. ASSUME NEW s \in Sessions, Release(s) PROVE ReasonFits'
  BY <1>11 DEF Release, Goto, At
<1>12. ASSUME NEW s \in Sessions, Return(s) PROVE ReasonFits'
  BY <1>12 DEF Return, reject_inputs, Interrupted, Goto, At
<1>13. ASSUME NEW s \in Sessions, SupervisorPanics(s) PROVE ReasonFits'
  BY <1>13 DEF SupervisorPanics, identity_owned, SignalGroup, reject_inputs,
      Interrupted, Goto
<1>14. ASSUME NEW s \in Sessions, EvStop(s) PROVE ReasonFits'
  BY <1>14 DEF EvStop, stopping, reject_inputs, Interrupted, At
<1>15. ASSUME NEW s \in Sessions, EvWriteFails(s) PROVE ReasonFits'
  BY <1>15 DEF EvWriteFails, Pending, request_stop, Selecting, At
<1>16. ASSUME NEW s \in Sessions, EvRead(s) PROVE ReasonFits'
  BY <1>16 DEF EvRead, Readable, Selecting, At
<1>17. ASSUME NEW s \in Sessions, EvReadEof(s) PROVE ReasonFits'
  BY <1>17 DEF EvReadEof, Selecting, At
<1>18. ASSUME NEW s \in Sessions, EvReadFails(s) PROVE ReasonFits'
  BY <1>18 DEF EvReadFails, request_stop, Selecting, At
<1>19. ASSUME NEW s \in Sessions, TickDrain(s) PROVE ReasonFits'
  BY <1>19 DEF TickDrain, Selecting, At
<1>20. ASSUME NEW s \in Sessions, TickAlive(s) PROVE ReasonFits'
  BY <1>20 DEF TickAlive, Tick, Goto, Selecting, At
<1>21. ASSUME NEW s \in Sessions, TickExited(s) PROVE ReasonFits'
  BY <1>21 DEF TickExited, NaturalExit, stopping, reject_inputs, Interrupted,
      Tick, Goto, Selecting, At
<1>22. ASSUME NEW s \in Sessions, TickCannotWait(s) PROVE ReasonFits'
  BY <1>22 DEF TickCannotWait, LosesChild, request_stop, Report, Tick, Goto,
      Selecting, At
<1>23. ASSUME NEW s \in Sessions, NEW kill \in {"skipped"} \cup Outcomes(s),
             Signal(s, kill)
     PROVE  ReasonFits'
  BY <1>23 DEF Signal, SignalGroup, Report, Goto, At
<1>24. ASSUME NEW s \in Sessions, ScanInconclusive(s) PROVE ReasonFits'
  BY <1>24 DEF ScanInconclusive, Report, Goto, At
<1>25. ASSUME NEW s \in Sessions, ScanEmpty(s) PROVE ReasonFits'
  BY <1>25 DEF ScanEmpty, SignalGroup, Report, Goto, At,
      group_has_live_members
<1>26. ASSUME NEW s \in Sessions, Reap(s) PROVE ReasonFits'
  BY <1>26 DEF Reap, group_has_live_members, Goto, At
<1>27. ASSUME NEW s \in Sessions, CannotReap(s) PROVE ReasonFits'
  BY <1>27 DEF CannotReap, LosesChild, Report, Goto, At
<1>28. ASSUME NEW s \in Sessions, LoopEnds(s) PROVE ReasonFits'
  BY <1>28 DEF LoopEnds, LoopOver, finish, reject_inputs, Interrupted, Goto,
      At
<1>29. ASSUME NEW s \in Sessions, Register(s) PROVE ReasonFits'
  BY <1>29 DEF Register, SlotFree, Goto
<1>30. ASSUME NEW s \in Sessions, stop_session(s) PROVE ReasonFits'
  BY <1>30 DEF stop_session, request_stop
<1>31. ASSUME NEW s \in Sessions, prune(s) PROVE ReasonFits'
  BY <1>31 DEF prune, Known
<1>32. ASSUME NEW s \in Sessions, Environment(s) PROVE ReasonFits'
  BY <1>32 DEF Environment, ServiceFrame, LeaderExits, HelperStarts,
      HelperEnds, Prints, HelperEscapes, EscapedEnds, HelperHides,
      TerminalHeld
<1>33. CASE shutdown
  BY <1>33 DEF shutdown, Known
<1>34. CASE ShutdownTimesOut
  BY <1>34 DEF ShutdownTimesOut
<1> QED
  BY <1>1, <1>2, <1>3, <1>4, <1>5, <1>6, <1>7, <1>8, <1>9, <1>10, <1>11,
      <1>12, <1>13, <1>14, <1>15, <1>16, <1>17, <1>18, <1>19, <1>20, <1>21,
      <1>22, <1>23, <1>24, <1>25, <1>26, <1>27, <1>28, <1>29, <1>30, <1>31,
      <1>32, <1>33, <1>34
  DEF Next, SupervisorStep, Proceeds, Fails, ManagerStep

(***************************************************************************)
(* The terminal.                                                           *)
(***************************************************************************)

(* Nothing is printed before the first session.                            *)
LEMMA OutputInit == Init => OutputFits
BY DEF Init, OutputFits, LoopPoints

(* EIO comes when nobody holds the terminal, and then nobody ever will.    *)
LEMMA OutputStep ==
  ASSUME SessionTypeOK, SlotFits, GroupFits, ReasonFits, OutputFits, [Next]_vars
  PROVE  OutputFits'
<1> USE DEF vars, processVars, managerVars, statusVars, stopVars,
    localVars, inputVars, sessionVars, Ended, LoopPoints, Running, SupPoints
<1> USE DEF SessionTypeOK, ProcessTypeOK, SlotFits, GroupFits, Unstarted,
    AfterEnd, OutputFits, Drained, TerminalHeld
<1>1. CASE UNCHANGED vars
  BY <1>1
(* Steps that change nothing this part speaks of. *)
<1>2. ASSUME NEW s \in Sessions,
             \/ EvInput(s) \/ EvWritten(s) \/ EvWriteFails(s)
             \/ CallerLeaves(s) \/ stop_session(s) \/ release_session(s)
     PROVE  OutputFits'
  BY <1>2 DEF EvInput, EvWritten, EvWriteFails, CallerLeaves, stop_session,
      release_session
<1>3. ASSUME NEW i \in Inputs,
             \/ InputAbandoned(i) \/ EnqueueInput(i) \/ \E s \in Sessions : CheckInput(i, s)
     PROVE  OutputFits'
  BY <1>3 DEF CheckInput, InputAbandoned, EnqueueInput
(* The others, one by one. *)
<1>4. ASSUME NEW s \in Sessions, PrepareFails(s) PROVE OutputFits'
  BY <1>4 DEF PrepareFails, NeverStarted, finish, Goto, At
<1>5. ASSUME NEW s \in Sessions, SpawnFails(s) PROVE OutputFits'
  BY <1>5 DEF SpawnFails, NeverStarted, finish, Goto, At
<1>6. ASSUME NEW s \in Sessions, PrepareCancelled(s) PROVE OutputFits'
  BY <1>6 DEF PrepareCancelled, NeverStarted, finish, Goto, At
<1>7. ASSUME NEW s \in Sessions, Prepared(s) PROVE OutputFits'
  BY <1>7 DEF Prepared, Goto, At
<1>8. ASSUME NEW s \in Sessions, SpawnPanics(s) PROVE OutputFits'
  BY <1>8 DEF SpawnPanics, stopping, reject_inputs, Interrupted, Goto, At
<1>9. ASSUME NEW s \in Sessions, SpawnOk(s) PROVE OutputFits'
  BY <1>9 DEF SpawnOk, request_stop, Goto, At
<1>10. ASSUME NEW s \in Sessions, SpawnUnwatched(s) PROVE OutputFits'
  BY <1>10 DEF SpawnUnwatched, request_stop, Goto, At
<1>11. ASSUME NEW s \in Sessions, Release(s) PROVE OutputFits'
  BY <1>11 DEF Release, Goto, At
<1>12. ASSUME NEW s \in Sessions, Return(s) PROVE OutputFits'
  BY <1>12 DEF Return, reject_inputs, Interrupted, Goto, At
<1>13. ASSUME NEW s \in Sessions, SupervisorPanics(s) PROVE OutputFits'
  BY <1>13 DEF SupervisorPanics, identity_owned, SignalGroup, reject_inputs,
      Interrupted, Goto
<1>14. ASSUME NEW s \in Sessions, EvStop(s) PROVE OutputFits'
  BY <1>14 DEF EvStop, stopping, reject_inputs, Interrupted, At
<1>15. ASSUME NEW s \in Sessions, EvRead(s) PROVE OutputFits'
  BY <1>15 DEF EvRead, Readable, Selecting, At
<1>16. ASSUME NEW s \in Sessions, EvReadEof(s) PROVE OutputFits'
  BY <1>16 DEF EvReadEof, Selecting, At
<1>17. ASSUME NEW s \in Sessions, EvReadFails(s) PROVE OutputFits'
  BY <1>17 DEF EvReadFails, request_stop, Selecting, At
<1>18. ASSUME NEW s \in Sessions, TickDrain(s) PROVE OutputFits'
  BY <1>18 DEF TickDrain, Selecting, At
<1>19. ASSUME NEW s \in Sessions, TickAlive(s) PROVE OutputFits'
  BY <1>19 DEF TickAlive, Tick, Goto, Selecting, At
<1>20. ASSUME NEW s \in Sessions, TickExited(s) PROVE OutputFits'
  BY <1>20 DEF TickExited, NaturalExit, stopping, reject_inputs, Interrupted,
      Tick, Goto, Selecting, At
<1>21. ASSUME NEW s \in Sessions, TickCannotWait(s) PROVE OutputFits'
  BY <1>21 DEF TickCannotWait, LosesChild, request_stop, Report, Tick, Goto,
      Selecting, At
<1>22. ASSUME NEW s \in Sessions, NEW kill \in {"skipped"} \cup Outcomes(s),
             Signal(s, kill)
     PROVE  OutputFits'
  BY <1>22 DEF Signal, SignalGroup, Report, Goto, At
<1>23. ASSUME NEW s \in Sessions, ScanInconclusive(s) PROVE OutputFits'
  BY <1>23 DEF ScanInconclusive, Report, Goto, At
<1>24. ASSUME NEW s \in Sessions, ScanEmpty(s) PROVE OutputFits'
  BY <1>24 DEF ScanEmpty, SignalGroup, Report, Goto, At,
      group_has_live_members
<1>25. ASSUME NEW s \in Sessions, Reap(s) PROVE OutputFits'
  BY <1>25 DEF Reap, group_has_live_members, Goto, At
<1>26. ASSUME NEW s \in Sessions, CannotReap(s) PROVE OutputFits'
  BY <1>26 DEF CannotReap, LosesChild, Report, Goto, At
<1>27. ASSUME NEW s \in Sessions, LoopEnds(s) PROVE OutputFits'
  BY <1>27 DEF LoopEnds, LoopOver, finish, reject_inputs, Interrupted, Goto,
      At
<1>28. ASSUME NEW s \in Sessions, Register(s) PROVE OutputFits'
  BY <1>28 DEF Register, SlotFree, Goto
<1>29. ASSUME NEW s \in Sessions, prune(s) PROVE OutputFits'
  BY <1>29 DEF prune, Known
<1>30. ASSUME NEW s \in Sessions, Environment(s) PROVE OutputFits'
  BY <1>30 DEF Environment, ServiceFrame, LeaderExits, HelperStarts,
      HelperEnds, Prints, HelperEscapes, EscapedEnds, HelperHides,
      TerminalHeld
<1>31. CASE shutdown
  BY <1>31 DEF shutdown, Known
<1>32. CASE ShutdownTimesOut
  BY <1>32 DEF ShutdownTimesOut
<1> QED
  BY <1>1, <1>2, <1>3, <1>4, <1>5, <1>6, <1>7, <1>8, <1>9, <1>10, <1>11,
      <1>12, <1>13, <1>14, <1>15, <1>16, <1>17, <1>18, <1>19, <1>20, <1>21,
      <1>22, <1>23, <1>24, <1>25, <1>26, <1>27, <1>28, <1>29, <1>30, <1>31,
      <1>32
  DEF Next, SupervisorStep, Proceeds, Fails, ManagerStep

(***************************************************************************)
(* The input.                                                              *)
(***************************************************************************)

(* There is no input before the first session.                             *)
LEMMA InputInit == Init => InputFits
BY DEF Init, InputFits, InputsAnswered, Outstanding

(* Whoever closes a receiver rejects what it holds in the same step, and   *)
(* try_send fails from then on.                                            *)
LEMMA InputStep ==
  ASSUME SessionTypeOK, SlotFits, InputFits, [Next]_vars
  PROVE  InputFits'
<1> USE DEF vars, processVars, managerVars, statusVars, stopVars,
    localVars, inputVars, sessionVars, Ended, LoopPoints, Running, SupPoints,
    Outstanding
<1> USE DEF SessionTypeOK, SlotFits, AfterEnd, InputFits, InputsAnswered
<1>1. CASE UNCHANGED vars
  BY <1>1
(* Steps that change nothing this part speaks of. *)
<1>2. ASSUME NEW s \in Sessions,
             \/ EvRead(s) \/ EvReadEof(s) \/ EvReadFails(s) \/ TickDrain(s)
             \/ CallerLeaves(s) \/ stop_session(s) \/ release_session(s)
             \/ Environment(s)
     PROVE  InputFits'
  BY <1>2 DEF EvRead, EvReadEof, EvReadFails, TickDrain, CallerLeaves,
      stop_session, release_session, Environment, ServiceFrame, LeaderExits,
      HelperStarts, HelperEnds, Prints, HelperEscapes, EscapedEnds,
      HelperHides
<1>3. ASSUME NEW s \in Sessions, PrepareFails(s) PROVE InputFits'
  BY <1>3 DEF PrepareFails, NeverStarted, finish, Goto, At
<1>4. ASSUME NEW s \in Sessions, SpawnFails(s) PROVE InputFits'
  BY <1>4 DEF SpawnFails, NeverStarted, finish, Goto, At
<1>5. ASSUME NEW s \in Sessions, PrepareCancelled(s) PROVE InputFits'
  BY <1>5 DEF PrepareCancelled, NeverStarted, finish, Goto, At
<1>6. ASSUME NEW s \in Sessions, Prepared(s) PROVE InputFits'
  BY <1>6 DEF Prepared, Goto, At
<1>7. ASSUME NEW s \in Sessions, SpawnPanics(s) PROVE InputFits'
  BY <1>7 DEF SpawnPanics, stopping, reject_inputs, Interrupted, Goto, At
<1>8. ASSUME NEW s \in Sessions, SpawnOk(s) PROVE InputFits'
  BY <1>8 DEF SpawnOk, request_stop, Goto, At
<1>9. ASSUME NEW s \in Sessions, SpawnUnwatched(s) PROVE InputFits'
  BY <1>9 DEF SpawnUnwatched, request_stop, Goto, At
<1>10. ASSUME NEW s \in Sessions, Release(s) PROVE InputFits'
  BY <1>10 DEF Release, Goto, At
<1>11. ASSUME NEW s \in Sessions, Return(s) PROVE InputFits'
  BY <1>11 DEF Return, reject_inputs, Interrupted, Goto, At
<1>12. ASSUME NEW s \in Sessions, SupervisorPanics(s) PROVE InputFits'
  BY <1>12 DEF SupervisorPanics, identity_owned, SignalGroup, reject_inputs,
      Interrupted, Goto
<1>13. ASSUME NEW s \in Sessions, EvStop(s) PROVE InputFits'
  BY <1>13 DEF EvStop, stopping, reject_inputs, Interrupted, At
<1>14. ASSUME NEW s \in Sessions, EvInput(s) PROVE InputFits'
  BY <1>14 DEF EvInput, Selecting, At
<1>15. ASSUME NEW s \in Sessions, EvWritten(s) PROVE InputFits'
  BY <1>15 DEF EvWritten, Pending, Selecting, At
<1>16. ASSUME NEW s \in Sessions, EvWriteFails(s) PROVE InputFits'
  BY <1>16 DEF EvWriteFails, Pending, request_stop, Selecting, At
<1>17. ASSUME NEW s \in Sessions, TickAlive(s) PROVE InputFits'
  BY <1>17 DEF TickAlive, Tick, Goto, Selecting, At
<1>18. ASSUME NEW s \in Sessions, TickExited(s) PROVE InputFits'
  BY <1>18 DEF TickExited, NaturalExit, stopping, reject_inputs, Interrupted,
      Tick, Goto, Selecting, At
<1>19. ASSUME NEW s \in Sessions, TickCannotWait(s) PROVE InputFits'
  BY <1>19 DEF TickCannotWait, LosesChild, request_stop, Report, Tick, Goto,
      Selecting, At
<1>20. ASSUME NEW s \in Sessions, NEW kill \in {"skipped"} \cup Outcomes(s),
             Signal(s, kill)
     PROVE  InputFits'
  BY <1>20 DEF Signal, SignalGroup, Report, Goto, At
<1>21. ASSUME NEW s \in Sessions, ScanInconclusive(s) PROVE InputFits'
  BY <1>21 DEF ScanInconclusive, Report, Goto, At
<1>22. ASSUME NEW s \in Sessions, ScanEmpty(s) PROVE InputFits'
  BY <1>22 DEF ScanEmpty, SignalGroup, Report, Goto, At,
      group_has_live_members
<1>23. ASSUME NEW s \in Sessions, Reap(s) PROVE InputFits'
  BY <1>23 DEF Reap, group_has_live_members, Goto, At
<1>24. ASSUME NEW s \in Sessions, CannotReap(s) PROVE InputFits'
  BY <1>24 DEF CannotReap, LosesChild, Report, Goto, At
<1>25. ASSUME NEW s \in Sessions, LoopEnds(s) PROVE InputFits'
  BY <1>25 DEF LoopEnds, LoopOver, finish, reject_inputs, Interrupted, Goto,
      At
<1>26. ASSUME NEW s \in Sessions, Register(s) PROVE InputFits'
  BY <1>26 DEF Register, SlotFree, Goto
<1>27. ASSUME NEW s \in Sessions, prune(s) PROVE InputFits'
  BY <1>27 DEF prune, Known
<1>28. ASSUME NEW i \in Inputs, NEW s \in Sessions, CheckInput(i, s)
     PROVE  InputFits'
  BY <1>28 DEF CheckInput
<1>29. ASSUME NEW i \in Inputs, InputAbandoned(i) PROVE InputFits'
  BY <1>29 DEF InputAbandoned
<1>30. ASSUME NEW i \in Inputs, EnqueueInput(i) PROVE InputFits'
  BY <1>30 DEF EnqueueInput
<1>31. CASE shutdown
  BY <1>31 DEF shutdown, Known
<1>32. CASE ShutdownTimesOut
  BY <1>32 DEF ShutdownTimesOut
<1> QED
  BY <1>1, <1>2, <1>3, <1>4, <1>5, <1>6, <1>7, <1>8, <1>9, <1>10, <1>11,
      <1>12, <1>13, <1>14, <1>15, <1>16, <1>17, <1>18, <1>19, <1>20, <1>21,
      <1>22, <1>23, <1>24, <1>25, <1>26, <1>27, <1>28, <1>29, <1>30, <1>31,
      <1>32
  DEF Next, SupervisorStep, Proceeds, Fails, ManagerStep

(***************************************************************************)
(* Theorems.                                                               *)
(***************************************************************************)

(* Every variable of the manager, of the supervisors and of the process    *)
(* groups keeps its type, whatever the sessions, inputs and faults.        *)
THEOREM SessionTypeCorrect == Spec => []SessionTypeOK
<1>1. Init => SessionTypeOK
  BY TypeInit
<1>2. SessionTypeOK /\ [Next]_vars => SessionTypeOK'
  BY TypeStep
<1> QED
  BY <1>1, <1>2, PTL DEF Spec

(* What the point of each supervisor says about slot, status, process      *)
(* group, reason, terminal and input is true in every reachable state.     *)
THEOREM SessionInvariant == Spec => []SessionInv
<1>1. Init => SessionInv
  BY TypeInit, SlotInit, GroupInit, ReasonInit, OutputInit, InputInit DEF SessionInv
<1>2. SessionInv /\ [Next]_vars => SessionInv'
  BY TypeStep, SlotStep, GroupStep, ReasonStep, OutputStep, InputStep DEF SessionInv
<1> QED
  BY <1>1, <1>2, PTL DEF Spec

(* The slot is held, and the manager degraded where that is owed, as long  *)
(* as anything of a process group may be left.                             *)
THEOREM SlotIsCovered == Spec => []SlotCoversProcess
<1>1. SessionInv => SlotCoversProcess
  BY DEF SessionInv, SessionTypeOK, SlotFits, HoldingPoints, AfterEnd, GroupFits,
      Unstarted, SlotCoversProcess, Dead, SupPoints, Running, LoopPoints
<1> QED
  BY <1>1, SessionInvariant, PTL

(* What the end of a session reports is true: the group is dead, an exit   *)
(* reported as Vivado's own was not forced, and its output, unless marked  *)
(* truncated, is complete.                                                 *)
THEOREM EndsAreTrue == Spec => []EndIsTrue
<1>1. SessionInv => EndedMeansDead
  BY DEF SessionInv, SlotFits, AfterEnd, GroupFits, Unstarted, EndedMeansDead, Dead
<1>2. SessionInv => ExitedIsNatural /\ OutputSealed
  BY DEF SessionInv, ReasonFits, OutputFits, Drained, ExitedIsNatural, OutputSealed
<1> QED
  BY <1>1, <1>2, SessionInvariant, PTL DEF EndIsTrue

(* Every queued or half written input belongs to a supervisor that still   *)
(* answers it, and nothing in hand is out of its type.                     *)
THEOREM InputsAreKept == Spec => []InputsKept
<1>1. SessionInv => InputsKept
  BY DEF SessionInv, InputFits, InputsKept
<1> QED
  BY <1>1, SessionInvariant, PTL

(***************************************************************************)
(* The contract.                                                           *)
(***************************************************************************)

(* What the contract sees of the whole manager.                            *)
View == [s \in Sessions |-> SessionView(s)]

(* One session moves as the contract allows.                               *)
Moves(s) ==
  \/ SessionView(s)' = SessionView(s)
  \/ /\ SessionView(s) = "none"
     /\ \A t \in Sessions : SessionView(t) \notin Contract!Holding
     /\ SessionView(s)' \in Contract!Holding
  \/ SessionView(s) = "live" /\ SessionView(s)' = "stopping"
  \/ SessionView(s) \in {"live", "stopping"} /\ SessionView(s)' \in {"exit0", "dead"}
  \/ SessionView(s) \in {"exit0", "dead"} /\ SessionView(s)' = "none"

(* Nothing is seen of the other sessions.                                  *)
Others(s) == \A t \in Sessions \ {s} : SessionView(t)' = SessionView(t)

(* Such a move of one session, with the others at rest, is a step or a     *)
(* stutter of the contract.                                                *)
LEMMA MoveIsStep ==
  ASSUME NEW s \in Sessions, Moves(s), Others(s)
  PROVE  [Contract!Next]_View
<1>1. \A v : SessionView(s)' = v => View' = [View EXCEPT ![s] = v]
  BY DEF View, Others
<1>2. CASE SessionView(s)' = SessionView(s)
  BY <1>2 DEF View, Others
<1>3. CASE /\ SessionView(s) = "none"
           /\ \A t \in Sessions : SessionView(t) \notin Contract!Holding
           /\ SessionView(s)' \in Contract!Holding
  <2>1. Contract!Start(s)
    BY <1>1, <1>3 DEF View, Contract!Start, Contract!NobodyHolds,
        Contract!Becomes, Contract!Holding
  <2> QED
    BY <2>1 DEF Contract!Next
<1>4. CASE SessionView(s) = "live" /\ SessionView(s)' = "stopping"
  <2>1. Contract!Stop(s)
    BY <1>1, <1>4 DEF View, Contract!Stop, Contract!Becomes
  <2> QED
    BY <2>1 DEF Contract!Next
<1>5. CASE SessionView(s) \in {"live", "stopping"} /\ SessionView(s)' \in {"exit0", "dead"}
  <2>1. Contract!End(s)
    BY <1>1, <1>5 DEF View, Contract!End, Contract!Becomes
  <2> QED
    BY <2>1 DEF Contract!Next
<1>6. CASE SessionView(s) \in {"exit0", "dead"} /\ SessionView(s)' = "none"
  <2>1. Contract!Forget(s)
    BY <1>1, <1>6 DEF View, Contract!Forget, Contract!Becomes
  <2> QED
    BY <2>1 DEF Contract!Next
<1> QED
  BY <1>2, <1>3, <1>4, <1>5, <1>6 DEF Moves

(* Every step of the manager and of a supervisor is one the contract       *)
(* allows: only the owner of the slot has a process to be seen.            *)
LEMMA ContractStep ==
  ASSUME SessionTypeOK, SlotFits, GroupFits, [Next]_vars
  PROVE  [Contract!Next]_View
<1> USE NoneAssumption DEF vars, processVars, managerVars, statusVars, stopVars,
    localVars, inputVars, sessionVars, Ended, LoopPoints, Running, SupPoints
<1> USE DEF SessionTypeOK, ProcessTypeOK, SlotFits, GroupFits, HoldingPoints,
    AfterEnd, SessionView, Known, Moves, Others, Contract!Holding
<1>1. CASE UNCHANGED vars
  BY <1>1 DEF View
<1>2. ASSUME NEW s \in Sessions, PrepareFails(s)
     PROVE  Moves(s) /\ Others(s)
  BY <1>2 DEF PrepareFails, NeverStarted, finish, Goto, At
<1>3. ASSUME NEW s \in Sessions, SpawnFails(s) PROVE Moves(s) /\ Others(s)
  BY <1>3 DEF SpawnFails, NeverStarted, finish, Goto, At
<1>4. ASSUME NEW s \in Sessions, PrepareCancelled(s)
     PROVE  Moves(s) /\ Others(s)
  BY <1>4 DEF PrepareCancelled, NeverStarted, finish, Goto, At
<1>5. ASSUME NEW s \in Sessions, Prepared(s) PROVE Moves(s) /\ Others(s)
  BY <1>5 DEF Prepared, Goto, At
<1>6. ASSUME NEW s \in Sessions, SpawnPanics(s) PROVE Moves(s) /\ Others(s)
  BY <1>6 DEF SpawnPanics, stopping, reject_inputs, Interrupted, Goto, At
<1>7. ASSUME NEW s \in Sessions, SpawnOk(s) PROVE Moves(s) /\ Others(s)
  BY <1>7 DEF SpawnOk, request_stop, Goto, At
<1>8. ASSUME NEW s \in Sessions, SpawnUnwatched(s)
     PROVE  Moves(s) /\ Others(s)
  BY <1>8 DEF SpawnUnwatched, request_stop, Goto, At
<1>9. ASSUME NEW s \in Sessions, Release(s) PROVE Moves(s) /\ Others(s)
  BY <1>9 DEF Release, Goto, At
<1>10. ASSUME NEW s \in Sessions, Return(s) PROVE Moves(s) /\ Others(s)
  BY <1>10 DEF Return, reject_inputs, Interrupted, Goto, At
<1>11. ASSUME NEW s \in Sessions, SupervisorPanics(s)
     PROVE  Moves(s) /\ Others(s)
  BY <1>11 DEF SupervisorPanics, SignalGroup, reject_inputs, Interrupted, Goto
<1>12. ASSUME NEW s \in Sessions, EvStop(s) PROVE Moves(s) /\ Others(s)
  BY <1>12 DEF EvStop, stopping, reject_inputs, Interrupted, At
<1>13. ASSUME NEW s \in Sessions, EvInput(s) PROVE Moves(s) /\ Others(s)
  BY <1>13 DEF EvInput, Selecting, At
<1>14. ASSUME NEW s \in Sessions, EvWritten(s) PROVE Moves(s) /\ Others(s)
  BY <1>14 DEF EvWritten, Pending, Selecting, At
<1>15. ASSUME NEW s \in Sessions, EvWriteFails(s)
     PROVE  Moves(s) /\ Others(s)
  BY <1>15 DEF EvWriteFails, Pending, request_stop, Selecting, At
<1>16. ASSUME NEW s \in Sessions, EvRead(s) PROVE Moves(s) /\ Others(s)
  BY <1>16 DEF EvRead, Readable, Selecting, At
<1>17. ASSUME NEW s \in Sessions, EvReadEof(s) PROVE Moves(s) /\ Others(s)
  BY <1>17 DEF EvReadEof, Selecting, At
<1>18. ASSUME NEW s \in Sessions, EvReadFails(s)
     PROVE  Moves(s) /\ Others(s)
  BY <1>18 DEF EvReadFails, request_stop, Selecting, At
<1>19. ASSUME NEW s \in Sessions, TickDrain(s) PROVE Moves(s) /\ Others(s)
  BY <1>19 DEF TickDrain, Selecting, At
<1>20. ASSUME NEW s \in Sessions, TickAlive(s) PROVE Moves(s) /\ Others(s)
  BY <1>20 DEF TickAlive, Tick, Goto, Selecting, At
<1>21. ASSUME NEW s \in Sessions, TickExited(s) PROVE Moves(s) /\ Others(s)
  BY <1>21 DEF TickExited, NaturalExit, stopping, reject_inputs, Interrupted,
      Tick, Goto, Selecting, At
<1>22. ASSUME NEW s \in Sessions, TickCannotWait(s)
     PROVE  Moves(s) /\ Others(s)
  BY <1>22 DEF TickCannotWait, LosesChild, request_stop, Report, Tick, Goto,
      Selecting, At
<1>23. ASSUME NEW s \in Sessions, NEW kill \in {"skipped"} \cup Outcomes(s),
             Signal(s, kill)
     PROVE  Moves(s) /\ Others(s)
  BY <1>23 DEF Signal, SignalGroup, Report, Goto, At
<1>24. ASSUME NEW s \in Sessions, ScanInconclusive(s)
     PROVE  Moves(s) /\ Others(s)
  BY <1>24 DEF ScanInconclusive, Report, Goto, At
<1>25. ASSUME NEW s \in Sessions, ScanEmpty(s) PROVE Moves(s) /\ Others(s)
  BY <1>25 DEF ScanEmpty, SignalGroup, Report, Goto, At, group_has_live_members
<1>26. ASSUME NEW s \in Sessions, Reap(s) PROVE Moves(s) /\ Others(s)
  BY <1>26 DEF Reap, group_has_live_members, Goto, At
<1>27. ASSUME NEW s \in Sessions, CannotReap(s) PROVE Moves(s) /\ Others(s)
  BY <1>27 DEF CannotReap, LosesChild, Report, Goto, At
<1>28. ASSUME NEW s \in Sessions, LoopEnds(s) PROVE Moves(s) /\ Others(s)
  BY <1>28 DEF LoopEnds, LoopOver, finish, reject_inputs, Interrupted, Goto, At
<1>29. ASSUME NEW s \in Sessions, Register(s) PROVE Moves(s) /\ Others(s)
  BY <1>29 DEF Register, SlotFree, Goto
<1>30. ASSUME NEW s \in Sessions, CallerLeaves(s)
     PROVE  Moves(s) /\ Others(s)
  BY <1>30 DEF CallerLeaves
<1>31. ASSUME NEW s \in Sessions, stop_session(s)
     PROVE  Moves(s) /\ Others(s)
  BY <1>31 DEF stop_session, request_stop
<1>32. ASSUME NEW s \in Sessions, release_session(s)
     PROVE  Moves(s) /\ Others(s)
  BY <1>32 DEF release_session
<1>33. ASSUME NEW s \in Sessions, prune(s) PROVE Moves(s) /\ Others(s)
  BY <1>33 DEF prune, Known
<1>34. ASSUME NEW s \in Sessions, Environment(s)
     PROVE  Moves(s) /\ Others(s)
  BY <1>34 DEF Environment, ServiceFrame, LeaderExits, HelperStarts, HelperEnds,
      Prints, HelperEscapes, EscapedEnds, HelperHides, TerminalHeld
<1>35. ASSUME NEW i \in Inputs, NEW s \in Sessions, CheckInput(i, s)
     PROVE  UNCHANGED View
  BY <1>35 DEF CheckInput, View
<1>36. ASSUME NEW i \in Inputs, InputAbandoned(i)
     PROVE  UNCHANGED View
  BY <1>36 DEF InputAbandoned, View
<1>37. ASSUME NEW i \in Inputs, EnqueueInput(i)
     PROVE  UNCHANGED View
  BY <1>37 DEF EnqueueInput, View
<1>38. CASE shutdown
  <2>1. CASE active = None
    BY <1>38, <2>1 DEF shutdown, View
  <2>2. ASSUME NEW s \in Sessions, active = s
        PROVE  [Contract!Next]_View
    <3>1. Moves(s)
      BY <1>38, <2>2 DEF shutdown
    <3>2. Others(s)
      BY <1>38, <2>2 DEF shutdown
    <3> QED
      BY <3>1, <3>2, MoveIsStep
  <2> QED
    BY <2>1, <2>2
<1>39. CASE ShutdownTimesOut
  BY <1>39 DEF ShutdownTimesOut, View
<1> HIDE DEF Moves, Others, SessionView, SlotFits, GroupFits, SessionTypeOK, ProcessTypeOK
<1>40. ASSUME NEW s \in Sessions, SupervisorStep(s) \/ ManagerStep(s) \/ Environment(s)
     PROVE  [Contract!Next]_View
  <2>1. Moves(s) /\ Others(s)
    BY <1>40, <1>2, <1>3, <1>4, <1>5, <1>6, <1>7, <1>8, <1>9, <1>10, <1>11,
        <1>12, <1>13, <1>14, <1>15, <1>16, <1>17, <1>18, <1>19, <1>20, <1>21,
        <1>22, <1>23, <1>24, <1>25, <1>26, <1>27, <1>28, <1>29, <1>30, <1>31,
        <1>32, <1>33, <1>34
    DEF SupervisorStep, Proceeds, Fails, ManagerStep
  <2> QED
    BY <2>1, MoveIsStep
<1> QED
  BY <1>1, <1>35, <1>36, <1>37, <1>38, <1>39, <1>40 DEF Next

(* The session manager keeps its contract, whatever the number of sessions *)
(* and whatever fails: no second process before the first is known dead,   *)
(* and no way back from an end.                                            *)
THEOREM SessionImplementsContract == Spec => ImplementsContract
<1>1. Init => Contract!Init
  BY DEF Init, ProcessInit, Contract!Init, SessionView
<1>2. SessionInv /\ [Next]_vars => [Contract!Next]_View
  BY ContractStep DEF SessionInv
<1> QED
  BY <1>1, <1>2, SessionInvariant, PTL DEF Spec, ImplementsContract, Contract!Spec, View
=============================================================================
