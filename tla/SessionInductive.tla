-------------------------- MODULE SessionInductive --------------------------
(***************************************************************************)
(* The inductive invariant behind the safety invariants of Session: what   *)
(* the point of the supervisor says about the slot, the status, the        *)
(* process group, the reason to stop, the terminal and the input.          *)
(***************************************************************************)
EXTENDS Session

(* The points at which the slot is held: until finished gave it back, and  *)
(* for good by a supervisor that ended without its confirmation.           *)
HoldingPoints == (Running \ {"drain"}) \cup {"lost", "aborted"}

(* Points after the end was published.                                     *)
AfterEnd == {"release", "drain", "done"}

(* The slot, the status and the supervisor agree.                          *)
SlotFits ==
  \A s \in Sessions :
    /\ active = s <=> sup[s] \in HoldingPoints
    /\ sup[s] \in {"lost", "aborted"} => degraded
    /\ sup[s] = "none" <=> status[s] = "absent"
    /\ sup[s] \in AfterEnd <=> status[s] \in Ended \cup {"gone"}
    /\ s \in retained => sup[s] \in AfterEnd

(* What is left of a process the supervisor has not started.               *)
Unstarted(s) ==
  /\ s \notin group \cup hidden \cup escaped \cup signalled \cup doomed \cup forced
  /\ printed[s] = 0 /\ output[s] = 0
  /\ stop_local[s] = "none"
  /\ s \notin leader_exited \cup reader_done

(* What each point knows of the process group.  Only the confirmation of a *)
(* scan, of a group that was killed, lets the leader be reaped.            *)
GroupFits ==
  \A s \in Sessions :
    /\ leader[s] = "none" => Unstarted(s)
    /\ sup[s] \in {"none", "prepare", "spawning"} => leader[s] = "none"
    /\ sup[s] \in LoopPoints => leader[s] # "none"
    /\ sup[s] \in AfterEnd => leader[s] \in {"none", "reaped"}
    /\ leader[s] = "reaped" => s \notin group
    /\ sup[s] = "confirm" => s \in doomed /\ s \notin hidden

(* The reason to stop: nothing is signalled, scanned or reaped without     *)
(* one, and a natural exit is one of a leader nobody signalled.            *)
ReasonFits ==
  \A s \in Sessions :
    /\ stop_reason[s] # "exited"
    /\ sup[s] \in LoopPoints \ {"loop"} => stop_local[s] # "none"
    /\ sup[s] \in LoopPoints =>
         /\ leader[s] = "reaped" \/ s \in leader_exited => stop_local[s] # "none"
         /\ stop_local[s] = "none" => s \notin signalled \cup forced
    /\ sup[s] \in {"scan", "confirm"} => s \in leader_exited
    /\ stop_local[s] = "exited" \/ status[s] = "exited" =>
         leader[s] # "alive" /\ s \notin forced

(* A terminal read to its end has been published, and nobody writes to it  *)
(* any more.                                                               *)
Drained(s) == output[s] = printed[s] /\ ~TerminalHeld(s)

OutputFits ==
  \A s \in Sessions :
    /\ sup[s] \in LoopPoints /\ s \in reader_done \ truncated => Drained(s)
    /\ status[s] = "exited" /\ s \notin truncated => Drained(s)

(* An input is queued with the receiver of a supervisor that answers it.   *)
InputFits ==
  /\ \A s \in Sessions : sup[s] \in {"done", "lost", "aborted"} => s \in closed
  /\ \A i \in Inputs : input[i] \in Outstanding =>
       input_to[i] \in Sessions /\ sup[input_to[i]] # "none"
  /\ InputsAnswered

SessionInv ==
  SessionTypeOK /\ SlotFits /\ GroupFits /\ ReasonFits /\ OutputFits /\ InputFits
=============================================================================
