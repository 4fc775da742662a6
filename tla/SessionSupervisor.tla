-------------------------- MODULE SessionSupervisor --------------------------
(***************************************************************************)
(* The task that owns one Vivado process (src/src/session/supervisor.rs):  *)
(* run starts it, supervise arbitrates between stop requests, ticks, input *)
(* and output until the group is dead and its output read, and run gives   *)
(* the slot back.  Each tick observes the leader, signals the group, scans *)
(* it and, when it looks empty, kills and scans it again before reaping.   *)
(***************************************************************************)
EXTENDS SessionState

(* run: from the registration to the loop, and from the loop to the end.   *)

(* No process: the end is published, and then retention begins.            *)
NeverStarted(s, r) ==
  /\ finish(s, r)
  /\ unclaimed' = unclaimed \cup {s}
  /\ UNCHANGED <<processVars, managerVars, caller, stopVars, retained, stop_local, term_sent,
                 leader_exited, reader_done, truncated, inputVars, output>>

(* The project directory cannot be prepared, or the process not spawned.   *)
PrepareFails(s) == "io" \in Faults /\ At(s, "prepare") /\ NeverStarted(s, "start")
SpawnFails(s) == "io" \in Faults /\ At(s, "spawning") /\ NeverStarted(s, "start")

(* Nobody waits for the session any more, or it was already told to stop.  *)
StartCancelled(s) == caller[s] = "gone" \/ s \in stop

PrepareCancelled(s) ==
  /\ At(s, "prepare")
  /\ StartCancelled(s)
  /\ NeverStarted(s, IF s \in stop THEN stop_reason[s] ELSE "request")

Prepared(s) ==
  /\ At(s, "prepare")
  /\ ~StartCancelled(s)
  /\ Goto(s, "spawning")
  /\ UNCHANGED <<processVars, managerVars, caller, statusVars, stopVars, retained,
                 localVars, inputVars, output>>

(* The blocking spawn panics: nobody knows whether there is a child.       *)
SpawnPanics(s) ==
  /\ "panic" \in Faults
  /\ At(s, "spawning")
  /\ leader' \in {leader, [leader EXCEPT ![s] = "alive"]}
  /\ stopping(s, "start")
  /\ degraded' = TRUE
  /\ caller' = [caller EXCEPT ![s] = IF @ = "waiting" THEN "err" ELSE @]
  /\ Goto(s, "lost")
  /\ reject_inputs(s)
  /\ UNCHANGED <<group, hidden, escaped, signalled, doomed, forced, code, printed, active,
                 shutting_down, stopVars, retained, localVars, output>>

(* The process runs and its terminal can be watched: the caller gets its   *)
(* answer, or has left and the process is stopped at once.                 *)
SpawnOk(s) ==
  /\ At(s, "spawning")
  /\ leader' = [leader EXCEPT ![s] = "alive"]
  /\ Goto(s, "loop")
  /\ IF caller[s] = "waiting"
     THEN /\ caller' = [caller EXCEPT ![s] = "ok"]
          /\ UNCHANGED <<unclaimed, stopVars>>
     ELSE /\ unclaimed' = unclaimed \cup {s}
          /\ request_stop(s, "request")
          /\ UNCHANGED caller
  /\ UNCHANGED <<group, hidden, escaped, signalled, doomed, forced, code, printed, managerVars,
                 statusVars, retained, stop_local, term_sent, leader_exited,
                 reader_done, truncated, inputVars, output>>

(* The terminal cannot be watched: the process is stopped, and the caller  *)
(* only told once it is reaped.                                            *)
SpawnUnwatched(s) ==
  /\ "io" \in Faults
  /\ At(s, "spawning")
  /\ leader' = [leader EXCEPT ![s] = "alive"]
  /\ Goto(s, "loop")
  /\ request_stop(s, "output")
  /\ unclaimed' = unclaimed \cup {s}
  /\ reader_done' = reader_done \cup {s}
  /\ truncated' = truncated \cup {s}
  /\ UNCHANGED <<group, hidden, escaped, signalled, doomed, forced, code, printed, managerVars,
                 caller, statusVars, retained, stop_local, term_sent, leader_exited,
                 inputVars, output>>

(* Manager::finished, after the end was published.                         *)
Release(s) ==
  /\ At(s, "release")
  /\ Goto(s, "drain")
  /\ active' = IF active = s THEN None ELSE active
  /\ degraded' = FALSE
  /\ retained' = IF s \in unclaimed THEN retained \cup {s} ELSE retained
  /\ caller' = [caller EXCEPT ![s] = IF @ = "waiting" THEN "err" ELSE @]
  /\ UNCHANGED <<processVars, shutting_down, statusVars, stopVars, localVars,
                 inputVars, output>>

(* run returns: its locals are gone, and with the receiver what is queued. *)
Return(s) ==
  /\ At(s, "drain")
  /\ Goto(s, "done")
  /\ reject_inputs(s)
  /\ stop_local' = [stop_local EXCEPT ![s] = "none"]
  /\ term_sent' = term_sent \ {s} /\ leader_exited' = leader_exited \ {s}
  /\ reader_done' = reader_done \ {s} /\ unclaimed' = unclaimed \ {s}
  /\ UNCHANGED <<processVars, managerVars, caller, statusVars, stopVars, retained,
                 truncated, output>>

(* The task panics: SupervisorGuard keeps the slot, PtyProcess::drop kills *)
(* the group, everyone who waits for an answer loses its channel.          *)
SupervisorPanics(s) ==
  /\ "panic" \in Faults
  /\ sup[s] \in LoopPoints \cup {"prepare"}
  /\ Goto(s, "aborted")
  /\ degraded' = TRUE
  /\ \E sent \in BOOLEAN :
       /\ sent => identity_owned(s)
       /\ ~sent => ~identity_owned(s) \/ "io" \in Faults
       /\ SignalGroup(s, FALSE, sent)
  /\ reject_inputs(s)
  /\ caller' = [caller EXCEPT ![s] = IF @ = "waiting" THEN "err" ELSE @]
  /\ UNCHANGED <<leader, group, hidden, escaped, forced, code, printed, active, shutting_down,
                 statusVars, stopVars, retained, localVars, output>>

-----------------------------------------------------------------------------
(* supervise: the events of the select, which prefers a stop request.  One *)
(* that arrives while the others are polled commutes with their step.      *)

StopReady(s) == s \in stop /\ stop_local[s] = "none"

(* The group is dead and reaped, and the terminal read to its end.         *)
LoopOver(s) == leader[s] = "reaped" /\ s \in reader_done

Selecting(s) == At(s, "loop") /\ ~LoopOver(s) /\ ~StopReady(s)

EvStop(s) ==
  /\ At(s, "loop") /\ ~LoopOver(s) /\ StopReady(s)
  /\ stop_local' = [stop_local EXCEPT ![s] = IF stop_reason[s] = "none" THEN "request"
                                             ELSE stop_reason[s]]
  /\ stopping(s, stop_local'[s])
  /\ reject_inputs(s)
  /\ UNCHANGED <<processVars, managerVars, sup, caller, stopVars, retained, term_sent,
                 leader_exited, reader_done, truncated, unclaimed, output>>

Pending(s) == {i \in Inputs : input_to[i] = s /\ input[i] = "pending"}

EvInput(s) ==
  /\ Selecting(s)
  /\ stop_local[s] = "none" /\ s \notin leader_exited /\ Pending(s) = {}
  /\ \E i \in Inputs :
       /\ input_to[i] = s /\ input[i] = "queued"
       /\ input' = [input EXCEPT ![i] = "pending"]
  /\ UNCHANGED <<processVars, managerVars, sessionVars, localVars, input_to, closed, output>>

EvWritten(s) ==
  /\ Selecting(s)
  /\ \E i \in Pending(s) : input' = [input EXCEPT ![i] = "written"]
  /\ UNCHANGED <<processVars, managerVars, sessionVars, localVars, input_to, closed, output>>

EvWriteFails(s) ==
  /\ "io" \in Faults
  /\ Selecting(s)
  /\ \E i \in Pending(s) : input' = [input EXCEPT ![i] = "rejected"]
  /\ request_stop(s, "input")
  /\ UNCHANGED <<processVars, managerVars, sup, caller, statusVars, retained, localVars,
                 input_to, closed, output>>

(* The terminal has a chunk to read.                                       *)
Readable(s) == s \notin reader_done /\ output[s] < printed[s]

EvRead(s) ==
  /\ Selecting(s)
  /\ Readable(s)
  /\ output' = [output EXCEPT ![s] = @ + 1]
  /\ UNCHANGED <<processVars, managerVars, sup, caller, statusVars, stopVars, retained,
                 localVars, inputVars>>

(* EIO: nobody holds the other end of the terminal any more.               *)
EvReadEof(s) ==
  /\ Selecting(s)
  /\ s \notin reader_done /\ output[s] = printed[s]
  /\ ~TerminalHeld(s)
  /\ reader_done' = reader_done \cup {s}
  /\ UNCHANGED <<processVars, managerVars, sessionVars, stop_local, term_sent, leader_exited,
                 truncated, unclaimed, inputVars, output>>

EvReadFails(s) ==
  /\ "io" \in Faults
  /\ Selecting(s)
  /\ s \notin reader_done
  /\ reader_done' = reader_done \cup {s}
  /\ truncated' = truncated \cup {s}
  /\ request_stop(s, "output")
  /\ stop_local' = [stop_local EXCEPT ![s] = IF @ = "exited" THEN "output" ELSE @]
  /\ UNCHANGED <<processVars, managerVars, sup, caller, statusVars, retained, term_sent,
                 leader_exited, unclaimed, inputVars, output>>

-----------------------------------------------------------------------------
(* supervise: a tick.                                                      *)

(* The output did not end within DRAIN_GRACE of the reaping.               *)
Mut_DrainExpired(s) == leader[s] = "reaped" /\ stop_local[s] = "exited"

DrainExpired(s) == leader[s] = "reaped"

TickDrain(s) ==
  /\ Selecting(s)
  /\ DrainExpired(s)
  /\ reader_done' = reader_done \cup {s}
  /\ truncated' = truncated \cup {s}
  /\ UNCHANGED <<processVars, managerVars, sessionVars, stop_local, term_sent, leader_exited,
                 unclaimed, inputVars, output>>

(* With a reason to stop the tick goes on to signal the group.             *)
Tick(s) == Goto(s, IF stop_local'[s] = "none" THEN "loop" ELSE "signal")

TickAlive(s) ==
  /\ Selecting(s)
  /\ leader[s] = "alive" \/ s \in leader_exited
  /\ leader[s] # "reaped"
  /\ stop_local[s] # "none"
  /\ UNCHANGED stop_local
  /\ Tick(s)
  /\ UNCHANGED <<processVars, managerVars, caller, statusVars, stopVars, retained,
                 term_sent, leader_exited, reader_done, truncated, unclaimed, inputVars,
                 output>>

(* observe_exit finds the leader gone; without a stop request that is a    *)
(* natural exit.                                                           *)
NaturalExit(s) == stop_local[s] = "none"

TickExited(s) ==
  /\ Selecting(s)
  /\ s \notin leader_exited /\ leader[s] = "zombie"
  /\ leader_exited' = leader_exited \cup {s}
  /\ IF NaturalExit(s)
     THEN /\ stop_local' = [stop_local EXCEPT ![s] = "exited"]
          /\ stopping(s, "exited")
          /\ reject_inputs(s)
     ELSE UNCHANGED <<stop_local, statusVars, inputVars>>
  /\ Tick(s)
  /\ UNCHANGED <<processVars, managerVars, caller, stopVars, retained, term_sent, reader_done,
                 truncated, unclaimed, output>>

(* waitid fails; ECHILD says the process is not ours to signal.            *)
TickCannotWait(s) ==
  /\ "wait" \in Faults
  /\ Selecting(s)
  /\ s \notin leader_exited /\ leader[s] \in {"alive", "zombie", "foreign"}
  /\ \/ LosesChild(s)
     \/ leader[s] # "foreign" /\ UNCHANGED <<leader, signalled>>
  /\ request_stop(s, "wait")
  /\ Report(TRUE)
  /\ UNCHANGED stop_local
  /\ Tick(s)
  /\ UNCHANGED <<group, hidden, escaped, doomed, forced, code, printed, active,
                 shutting_down, caller, statusVars, retained, term_sent, leader_exited,
                 reader_done, truncated, unclaimed, inputVars, output>>

(* What a call of signal_group may come to.                                *)
Outcomes(s) == (IF identity_owned(s) THEN {"ok"} ELSE {"failed"})
               \cup (IF "io" \in Faults THEN {"failed"} ELSE {})

(* SIGTERM until it was sent once, SIGKILL when TERM_GRACE has passed, a   *)
(* report when CLEANUP_DEADLINE has.  Time may have passed or not.         *)
Signal(s, kill) ==
  /\ At(s, "signal")
  /\ \E term \in IF s \in term_sent THEN {"skipped"} ELSE Outcomes(s), late \in BOOLEAN :
       /\ term_sent' = IF term = "ok" THEN term_sent \cup {s} ELSE term_sent
       /\ SignalGroup(s, term = "ok", kill = "ok")
       /\ Report(late \/ "failed" \in {term, kill})
  /\ IF s \in leader_exited \cap term_sent'
     THEN Goto(s, "scan") /\ hidden' = hidden \ {s}
     ELSE Goto(s, "loop") /\ UNCHANGED hidden
  /\ UNCHANGED <<leader, group, escaped, forced, code, printed, active, shutting_down, caller,
                 statusVars, stopVars, retained, stop_local, leader_exited, reader_done,
                 truncated, unclaimed, inputVars, output>>

(* The scan, or its confirmation, finds someone alive or fails.            *)
ScanInconclusive(s) ==
  /\ At(s, "scan") \/ At(s, "confirm")
  /\ \/ TRUE \in group_has_live_members(s) /\ Report(FALSE)
     \/ "io" \in Faults /\ Report(TRUE)
  /\ Goto(s, "loop")
  /\ UNCHANGED <<processVars, active, shutting_down, caller, statusVars, stopVars, retained,
                 localVars, inputVars, output>>

(* The group looks empty: kill what the scan may have missed, scan again.  *)
Mut_ScanEmpty(s) ==
  /\ At(s, "scan")
  /\ FALSE \in group_has_live_members(s)
  /\ leader' = [leader EXCEPT ![s] = "reaped"]
  /\ Goto(s, "loop")
  /\ UNCHANGED <<group, hidden, escaped, signalled, doomed, forced, code, printed, managerVars,
                 caller, statusVars, stopVars, retained, localVars, inputVars, output>>

ScanEmpty(s) ==
  /\ At(s, "scan")
  /\ FALSE \in group_has_live_members(s)
  /\ \E kill \in Outcomes(s) :
       /\ SignalGroup(s, FALSE, kill = "ok")
       /\ Report(kill = "failed")
       /\ Goto(s, IF kill = "ok" THEN "confirm" ELSE "loop")
       /\ hidden' = IF kill = "ok" THEN hidden \ {s} ELSE hidden
  /\ UNCHANGED <<leader, group, escaped, forced, code, printed, active, shutting_down, caller,
                 statusVars, stopVars, retained, localVars, inputVars, output>>

(* The confirmation is empty too: reap the leader and give up its number.  *)
Reap(s) ==
  /\ At(s, "confirm")
  /\ FALSE \in group_has_live_members(s)
  /\ leader' = [leader EXCEPT ![s] = "reaped"]
  /\ signalled' = signalled \ {s} /\ doomed' = doomed \ {s}
  /\ Goto(s, "loop")
  /\ UNCHANGED <<group, hidden, escaped, forced, code, printed, managerVars,
                 caller, statusVars, stopVars, retained, localVars, inputVars, output>>

CannotReap(s) ==
  /\ "wait" \in Faults
  /\ At(s, "confirm")
  /\ FALSE \in group_has_live_members(s)
  /\ LosesChild(s) \/ UNCHANGED <<leader, signalled>>
  /\ Report(TRUE)
  /\ Goto(s, "loop")
  /\ UNCHANGED <<group, hidden, escaped, doomed, forced, code, printed, active,
                 shutting_down, caller, statusVars, stopVars, retained, localVars, inputVars,
                 output>>

(* The end of supervise.                                                   *)
LoopEnds(s) ==
  /\ At(s, "loop") /\ LoopOver(s)
  /\ reject_inputs(s)
  /\ finish(s, IF stop_local[s] = "none" THEN "exited" ELSE stop_local[s])
  /\ UNCHANGED <<processVars, managerVars, caller, stopVars, retained, localVars, output>>

(* What the task does when nothing goes wrong, and what may go wrong.      *)
Proceeds(s) ==
  \/ PrepareCancelled(s) \/ Prepared(s) \/ SpawnOk(s)
  \/ EvStop(s) \/ EvInput(s) \/ EvWritten(s) \/ EvRead(s) \/ EvReadEof(s)
  \/ TickDrain(s) \/ TickAlive(s) \/ TickExited(s)
  \/ \E kill \in {"skipped"} \cup Outcomes(s) : Signal(s, kill)
  \/ ScanInconclusive(s) \/ ScanEmpty(s) \/ Reap(s)
  \/ LoopEnds(s) \/ Release(s) \/ Return(s)

Fails(s) ==
  \/ PrepareFails(s) \/ SpawnFails(s) \/ SpawnPanics(s) \/ SpawnUnwatched(s)
  \/ EvWriteFails(s) \/ EvReadFails(s) \/ TickCannotWait(s) \/ CannotReap(s)
  \/ SupervisorPanics(s)

SupervisorStep(s) == Proceeds(s) \/ Fails(s)
=============================================================================
