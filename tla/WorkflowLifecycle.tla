------------------------- MODULE WorkflowLifecycle -------------------------
(***************************************************************************)
(* What the service promises its clients about a workflow, without locks,  *)
(* tasks, plans or sessions: one owner at a time, the phases of            *)
(* WorkflowStatus (src/src/workflow.rs) in their order, and when the       *)
(* project on the server may be reused without a full upload.              *)
(***************************************************************************)
CONSTANTS Workflows, None

VARIABLES
  owner,      \* The workflow that has the slot, or None.
  phase,      \* The status a client reads.
  reusable    \* The project is marked clean.

lifecycleVars == <<owner, phase, reusable>>

Ended == {"completed", "cancelled", "failed"}

Init ==
  /\ owner = None
  /\ phase = [w \in Workflows |-> "absent"]
  /\ reusable \in BOOLEAN

Enter(w, to) == phase' = [phase EXCEPT ![w] = to]

(* A new workflow takes the free slot.                                     *)
Reserve(w) ==
  /\ owner = None /\ owner' = w
  /\ phase[w] = "absent" /\ Enter(w, "preparing")
  /\ UNCHANGED reusable

(* Vivado runs only on a project marked dirty.                             *)
Run(w) ==
  /\ owner = w /\ ~reusable
  /\ phase[w] = "preparing" /\ Enter(w, "running")
  /\ UNCHANGED <<owner, reusable>>

(* Outputs are offered once the project is marked clean.                   *)
Pull(w) ==
  /\ owner = w /\ reusable
  /\ phase[w] = "running" /\ Enter(w, "pulling")
  /\ UNCHANGED <<owner, reusable>>

(* A request, an expiry or a failure stops the owner; it never comes back. *)
Stop(w) ==
  /\ owner = w
  /\ phase[w] \in {"preparing", "running", "pulling"} /\ Enter(w, "stopping")
  /\ UNCHANGED <<owner, reusable>>

(* The owner changes the marker; a running one only to clean, and nobody   *)
(* while outputs are read.                                                 *)
Mark(w) ==
  /\ owner = w
  /\ phase[w] \in {"preparing", "stopping"} \/ (phase[w] = "running" /\ ~reusable)
  /\ reusable' = ~reusable
  /\ UNCHANGED <<owner, phase>>

(* The slot is given back: with the outputs read, after a cleanup, or by a *)
(* creation that was refused.                                              *)
Release(w, to) ==
  /\ owner = w /\ owner' = None
  /\ \/ to = "completed" /\ phase[w] = "pulling" /\ reusable
     \/ to \in {"cancelled", "failed"} /\ phase[w] = "stopping"
     \/ to = "failed" /\ phase[w] = "preparing"
  /\ Enter(w, to)
  /\ UNCHANGED reusable

Prune(w) ==
  /\ phase[w] \in Ended /\ Enter(w, "gone")
  /\ UNCHANGED <<owner, reusable>>

(* A new process forgets the workflows of the last one.                    *)
Restarted ==
  /\ owner' = None
  /\ phase' = [w \in Workflows |-> IF phase[w] = "absent" THEN "absent" ELSE "gone"]
  /\ reusable' \in BOOLEAN

Next ==
  \/ \E w \in Workflows :
       \/ Reserve(w) \/ Run(w) \/ Pull(w) \/ Stop(w) \/ Mark(w) \/ Prune(w)
       \/ \E to \in Ended : Release(w, to)
  \/ Restarted

Spec == Init /\ [][Next]_lifecycleVars
=============================================================================
