-------------------------- MODULE SessionContract ---------------------------
(***************************************************************************)
(* What the session manager promises whoever starts Vivado: at most one    *)
(* process group at a time, an end that is only reported once the group is *)
(* dead, and no way back from an end.  The workflow manager relies on it;  *)
(* Session implements it.                                                  *)
(***************************************************************************)
CONSTANT Sessions

VARIABLE view     \* What became of the Vivado process of each session.

Holding == {"live", "stopping", "unknown"}

Init == view = [s \in Sessions |-> "none"]

Becomes(s, to) == view' = [view EXCEPT ![s] = to]

NobodyHolds == \A s \in Sessions : view[s] \notin Holding

(* A process is started, maybe already told to stop, or a failed start     *)
(* leaves nobody who could tell.                                           *)
Start(s) ==
  /\ view[s] = "none"
  /\ NobodyHolds
  /\ \E to \in Holding : Becomes(s, to)

Stop(s) == view[s] = "live" /\ Becomes(s, "stopping")

(* The group is dead and reaped; exit0 is an exit with code zero that      *)
(* nobody forced.                                                          *)
End(s) ==
  /\ view[s] \in {"live", "stopping"}
  /\ \E to \in {"exit0", "dead"} : Becomes(s, to)

Forget(s) == view[s] \in {"exit0", "dead"} /\ Becomes(s, "none")

(* A new process of the service; the control group took the old Vivado.    *)
Restarted == view' = [s \in Sessions |-> "none"]

Next ==
  \/ \E s \in Sessions : Start(s) \/ Stop(s) \/ End(s) \/ Forget(s)
  \/ Restarted

Spec == Init /\ [][Next]_view
=============================================================================
