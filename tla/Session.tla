------------------------------ MODULE Session -------------------------------
(***************************************************************************)
(* The session manager (src/src/session.rs) around the supervisor: the     *)
(* single slot, stop requests, shutdown, retention and input.  It          *)
(* implements SessionContract.                                             *)
(***************************************************************************)
EXTENDS SessionSupervisor

(* SessionManager                                                          *)

(* create_session_with_workflow: the slot and the supervisor in one step.  *)
Mut_SlotFree == TRUE

SlotFree == active = None /\ ~shutting_down /\ ~degraded

Register(s) ==
  /\ status[s] = "absent"
  /\ SlotFree
  /\ active' = s
  /\ status' = [status EXCEPT ![s] = "running"]
  /\ caller' = [caller EXCEPT ![s] = "waiting"]
  /\ Goto(s, "prepare")
  /\ UNCHANGED <<processVars, shutting_down, degraded, reason, stopVars, retained,
                 localVars, inputVars, output>>

(* The caller's future is dropped while the session starts.                *)
CallerLeaves(s) ==
  /\ caller[s] = "waiting"
  /\ caller' = [caller EXCEPT ![s] = "gone"]
  /\ UNCHANGED <<processVars, managerVars, sup, statusVars, stopVars, retained,
                 localVars, inputVars, output>>

Mut_stop_session(s) ==
  /\ Known(s)
  /\ request_stop(s, "request")
  /\ stopping(s, "request")
  /\ UNCHANGED <<processVars, managerVars, sup, caller, retained, localVars, inputVars,
                 output>>

stop_session(s) ==
  /\ Known(s)
  /\ request_stop(s, "request")
  /\ UNCHANGED <<processVars, managerVars, sup, caller, statusVars, retained,
                 localVars, inputVars, output>>

(* shutdown closes admission and stops every session in one step.          *)
shutdown ==
  LET live == {s \in Sessions : Known(s) /\ status[s] \notin Ended} IN
  /\ ~shutting_down
  /\ shutting_down' = TRUE
  /\ stop' = stop \cup live
  /\ stop_reason' = [s \in Sessions |-> IF s \in live /\ stop_reason[s] = "none"
                                        THEN "request" ELSE stop_reason[s]]
  /\ UNCHANGED <<processVars, active, degraded, sup, caller, statusVars, retained,
                 localVars, inputVars, output>>

(* shutdown_grace_secs pass before the supervisors are done.               *)
ShutdownTimesOut ==
  /\ shutting_down /\ ~degraded
  /\ \E s \in Sessions : sup[s] \in Running
  /\ degraded' = TRUE
  /\ UNCHANGED <<processVars, active, shutting_down, sessionVars, localVars, inputVars,
                 output>>

(* release_session, when the workflow has given its slot back.             *)
release_session(s) ==
  /\ status[s] \in Ended
  /\ retained' = retained \cup {s}
  /\ UNCHANGED <<processVars, managerVars, sup, caller, statusVars, stopVars,
                 localVars, inputVars, output>>

(* prune, a part of every lookup: the retention of a session that began    *)
(* has passed, or newer ones need the room.  What it knew goes with it.    *)
prune(s) ==
  /\ s \in retained /\ Known(s)
  /\ status' = [status EXCEPT ![s] = "gone"]
  /\ reason' = [reason EXCEPT ![s] = "none"]
  /\ stop' = stop \ {s}
  /\ stop_reason' = [stop_reason EXCEPT ![s] = "none"]
  /\ retained' = retained \ {s}
  /\ code' = [code EXCEPT ![s] = "none"]
  /\ truncated' = truncated \ {s}
  /\ UNCHANGED <<leader, group, hidden, escaped, signalled, doomed, forced, printed,
                 managerVars, sup, caller, stop_local, term_sent, leader_exited,
                 reader_done, unclaimed, inputVars, output>>

-----------------------------------------------------------------------------
(* send_input: what is checked first is no longer true when the input is   *)
(* queued, after its record was written.                                   *)

Holding(s) == {i \in Inputs : input_to[i] = s /\ input[i] \in Outstanding}
Queued(s) == {i \in Inputs : input_to[i] = s /\ input[i] = "queued"}

CheckInput(i, s) ==
  /\ input[i] = "new"
  /\ status[s] = "running" /\ s \notin stop
  /\ Cardinality(Holding(s)) < StdinBudget
  /\ input' = [input EXCEPT ![i] = "checked"]
  /\ input_to' = [input_to EXCEPT ![i] = s]
  /\ UNCHANGED <<processVars, managerVars, sessionVars, localVars, closed, output>>

(* The record cannot be written, or the client leaves.                     *)
InputAbandoned(i) ==
  /\ input[i] = "checked"
  /\ input' = [input EXCEPT ![i] = "rejected"]
  /\ UNCHANGED <<processVars, managerVars, sessionVars, localVars, input_to, closed, output>>

(* try_send                                                                *)
EnqueueInput(i) ==
  LET s == input_to[i]
      sent == s \notin closed /\ Cardinality(Queued(s)) < QueueLength IN
  /\ input[i] = "checked"
  /\ input' = [input EXCEPT ![i] = IF sent THEN "queued" ELSE "rejected"]
  /\ UNCHANGED <<processVars, managerVars, sessionVars, localVars, input_to, closed, output>>

-----------------------------------------------------------------------------
ServiceFrame == UNCHANGED <<managerVars, sessionVars, localVars, inputVars, output>>

Environment(s) ==
  /\ \/ LeaderExits(s) \/ HelperStarts(s) \/ HelperEnds(s) \/ Prints(s)
     \/ HelperEscapes(s) \/ EscapedEnds(s)
     \/ sup[s] \in {"scan", "confirm"} /\ HelperHides(s)
  /\ ServiceFrame

ManagerStep(s) ==
  \/ Register(s) \/ CallerLeaves(s) \/ stop_session(s) \/ release_session(s) \/ prune(s)

Next ==
  \/ \E s \in Sessions : SupervisorStep(s) \/ ManagerStep(s) \/ Environment(s)
  \/ \E i \in Inputs :
       InputAbandoned(i) \/ EnqueueInput(i) \/ \E s \in Sessions : CheckInput(i, s)
  \/ shutdown \/ ShutdownTimesOut

Spec == Init /\ [][Next]_vars

-----------------------------------------------------------------------------
(* Properties.                                                             *)

(* A session is only reported ended once nothing of its process group is   *)
(* left: finish comes after a scan, a SIGKILL, a second scan and the       *)
(* reaping, and a member forked behind the first scan is not missed.       *)
EndedMeansDead == \A s \in Sessions : status[s] \in Ended \cup {"gone"} => Dead(s)

(* The slot is held as long as anything of the group may be left, and by   *)
(* a supervisor that ended without confirming it, whose manager stays      *)
(* degraded: SupervisorGuard, and finished as the last thing run does.     *)
SlotCoversProcess ==
  \A s \in Sessions :
    /\ ~Dead(s) => active = s
    /\ sup[s] \in {"lost", "aborted"} => active = s /\ degraded

(* An exit is only reported as Vivado's own if no signal came before it:   *)
(* the workflow pulls the results of such a session only.                  *)
ExitedIsNatural == \A s \in Sessions : status[s] = "exited" => s \notin forced

(* A session that ended by itself and whose output is not marked truncated *)
(* has published everything Vivado printed.                                *)
OutputSealed ==
  \A s \in Sessions :
    status[s] = "exited" /\ s \notin truncated => output[s] = printed[s]

(* No input is left behind: what is queued or half written belongs to a    *)
(* supervisor that still answers it; closing the receiver empties it.      *)
InputsAnswered ==
  \A i \in Inputs : input[i] \in {"queued", "pending"} =>
    input_to[i] \notin closed /\ sup[input_to[i]] \in Running

(* What is in hand is of its type, and every input gets its answer.        *)
InputsKept == SessionTypeOK /\ InputsAnswered

(* What the end of a session reports is true: the group is dead, an exit   *)
(* was Vivado's own, and output that is not truncated is all there is.     *)
EndIsTrue == EndedMeansDead /\ ExitedIsNatural /\ OutputSealed

(* What became of the process of a session, as its contract tells it.      *)
SessionView(s) ==
  IF sup[s] = "lost" THEN "unknown"
  ELSE IF leader[s] = "none" \/ ~Known(s) THEN "none"
  ELSE IF status[s] \in Ended
       THEN IF status[s] = "exited" /\ code[s] = "zero" THEN "exit0" ELSE "dead"
  ELSE IF s \in stop \/ status[s] = "stopping" THEN "stopping" ELSE "live"

Contract == INSTANCE SessionContract WITH view <- [s \in Sessions |-> SessionView(s)]

(* The session manager keeps its contract: no second process before the    *)
(* first is known dead, no way back from an end.                           *)
ImplementsContract == Contract!Spec

-----------------------------------------------------------------------------
(* Liveness.                                                               *)

(* Ticks come every 50 ms and are preferred to input and output, failures  *)
(* of a signal or a scan do not last, TERM_GRACE passes, and a killed      *)
(* process ends.                                                           *)
Fairness ==
  \A s \in Sessions :
    /\ WF_vars(Proceeds(s))
    /\ SF_vars(TickDrain(s) \/ TickAlive(s) \/ TickExited(s))
    /\ SF_vars(Signal(s, "ok") /\ s \in term_sent')
    /\ SF_vars(ScanEmpty(s) /\ sup'[s] = "confirm")
    /\ SF_vars(Reap(s))
    /\ WF_vars(s \in doomed /\ (LeaderExits(s) \/ HelperEnds(s)) /\ ServiceFrame)

LiveSpec == Spec /\ Fairness

(* A session told to stop ends, however its process behaves, whatever      *)
(* fails for a while and whoever keeps its terminal open, or the manager   *)
(* is degraded because its supervisor lost the child or panicked.          *)
StopEnds ==
  \A s \in Sessions :
    s \in stop /\ Known(s) ~>
      status[s] \in Ended \cup {"gone"} \/ sup[s] \in {"lost", "aborted"}
=============================================================================
