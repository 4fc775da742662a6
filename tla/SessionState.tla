---------------------------- MODULE SessionState ----------------------------
(***************************************************************************)
(* The state of the session manager (src/src/session.rs) and of the task   *)
(* that supervises one Vivado process (src/src/session/supervisor.rs), and *)
(* the steps both share.                                                   *)
(*                                                                         *)
(* sup[s] is the point the supervisor task of s has reached.  The text of  *)
(* the output and those who wait for it are in SessionOutput.              *)
(***************************************************************************)
EXTENDS SessionProcess

CONSTANTS
  None,           \* No session.
  Inputs,         \* Identifiers of the inputs clients send.
  QueueLength,    \* INPUT_QUEUE_LENGTH.
  StdinBudget     \* Inputs that stdin_max_bytes has room for.

ASSUME NoneAssumption == None \notin Sessions
ASSUME LimitsAssumption == QueueLength \in Nat \ {0} /\ StdinBudget \in Nat \ {0}

VARIABLES
  (* Manager *)
  active, shutting_down, degraded,
  (* Session *)
  sup, caller, status, reason, stop, stop_reason, retained,
  (* Locals of run and supervise: stop, term_sent, ... *)
  stop_local, term_sent, leader_exited, reader_done, truncated, unclaimed,
  (* Input, and how many chunks of output there are *)
  input, input_to, closed, output

managerVars == <<active, shutting_down, degraded>>
statusVars == <<status, reason>>
stopVars == <<stop, stop_reason>>
localVars == <<stop_local, term_sent, leader_exited, reader_done, truncated, unclaimed>>
inputVars == <<input, input_to, closed>>
sessionVars == <<sup, caller, statusVars, stopVars, retained>>
vars == <<processVars, managerVars, sessionVars, localVars, inputVars, output>>

Ended == {"exited", "terminated", "failed"}
Reasons == {"exited", "request", "start", "wait", "input", "output"}
LoopPoints == {"loop", "signal", "scan", "confirm"}
Running == LoopPoints \cup {"prepare", "spawning", "release", "drain"}
SupPoints == Running \cup {"none", "done", "lost", "aborted"}
Outstanding == {"checked", "queued", "pending"}

SessionTypeOK ==
  /\ ProcessTypeOK
  /\ active \in Sessions \cup {None}
  /\ shutting_down \in BOOLEAN /\ degraded \in BOOLEAN
  /\ sup \in [Sessions -> SupPoints]
  /\ caller \in [Sessions -> {"none", "waiting", "gone", "ok", "err"}]
  /\ status \in [Sessions -> Ended \cup {"absent", "running", "stopping", "gone"}]
  /\ reason \in [Sessions -> Reasons \cup {"none"}]
  /\ stop_reason \in [Sessions -> Reasons \cup {"none"}]
  /\ stop_local \in [Sessions -> Reasons \cup {"none"}]
  /\ input \in [Inputs -> Outstanding \cup {"new", "written", "rejected"}]
  /\ input_to \in [Inputs -> Sessions \cup {None}]
  /\ output \in [Sessions -> 0 .. MaxOutput]
  /\ \A S \in {stop, retained, term_sent, leader_exited, reader_done, truncated,
               unclaimed, closed} : S \subseteq Sessions

Init ==
  /\ ProcessInit
  /\ active = None /\ shutting_down = FALSE /\ degraded = FALSE
  /\ sup = [s \in Sessions |-> "none"]
  /\ caller = [s \in Sessions |-> "none"]
  /\ status = [s \in Sessions |-> "absent"]
  /\ reason = [s \in Sessions |-> "none"]
  /\ stop_reason = [s \in Sessions |-> "none"]
  /\ stop_local = [s \in Sessions |-> "none"]
  /\ input = [i \in Inputs |-> "new"]
  /\ input_to = [i \in Inputs |-> None]
  /\ output = [s \in Sessions |-> 0]
  /\ stop = {} /\ retained = {} /\ term_sent = {} /\ leader_exited = {}
  /\ reader_done = {} /\ truncated = {} /\ unclaimed = {} /\ closed = {}

-----------------------------------------------------------------------------
(* Shared steps.                                                           *)

(* SessionManager::session finds s.                                        *)
Known(s) == status[s] \notin {"absent", "gone"}

(* The supervisor of s is at a point and owes nobody a notification.       *)
At(s, point) == sup[s] = point

Goto(s, point) == sup' = [sup EXCEPT ![s] = point]

(* Session::request_stop: the first reason counts.                         *)
request_stop(s, r) ==
  /\ stop' = stop \cup {s}
  /\ stop_reason' = IF stop_reason[s] = "none" /\ status[s] \notin Ended
                    THEN [stop_reason EXCEPT ![s] = r] ELSE stop_reason

(* reject_inputs: the receiver closes, what it holds is interrupted.       *)
Mut_Interrupted(s) == {i \in Inputs : input_to[i] = s /\ input[i] = "pending"}

Interrupted(s) == {i \in Inputs : input_to[i] = s /\ input[i] \in {"queued", "pending"}}

reject_inputs(s) ==
  /\ closed' = closed \cup {s}
  /\ input' = [i \in Inputs |-> IF i \in Interrupted(s) THEN "rejected" ELSE input[i]]
  /\ UNCHANGED input_to

(* Session::stopping                                                       *)
stopping(s, r) ==
  /\ status' = [status EXCEPT ![s] = "stopping"]
  /\ reason' = [reason EXCEPT ![s] = IF @ = "none" THEN r ELSE @]

(* Session::finish                                                         *)
finish(s, r) ==
  /\ status' = [status EXCEPT ![s] = CASE r = "exited" -> "exited"
                                       [] r = "request" -> "terminated"
                                       [] OTHER -> "failed"]
  /\ reason' = [reason EXCEPT ![s] = r]
  /\ Goto(s, "release")

(* report_cleanup_error, if there is one to report.                        *)
Report(failed) == degraded' = (degraded \/ failed)
=============================================================================
