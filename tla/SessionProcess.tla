--------------------------- MODULE SessionProcess ---------------------------
(***************************************************************************)
(* The Vivado process group behind a session and the primitives that       *)
(* observe, signal and reap it (src/src/session/process.rs).  The kernel   *)
(* and Vivado are the environment: a group is its leader and, lumped       *)
(* together, the leader's descendants.                                     *)
(***************************************************************************)
EXTENDS Integers, FiniteSets

CONSTANTS
  Sessions,     \* Session identifiers, each used once.
  Faults,       \* The faults the environment may inject.
  MaxOutput     \* Bound on the chunks one process prints.

(* "io": spawning, signalling, scanning or the terminal fails; "wait": the *)
(* child cannot be waited for; "panic": the supervisor or a spawn panics;  *)
(* "escape": a helper leaves the group and keeps the terminal open.        *)
SessionFaults == {"io", "wait", "panic", "escape"}

ASSUME FaultsAssumption == Faults \subseteq SessionFaults
ASSUME OutputAssumption == MaxOutput \in Nat

VARIABLES
  leader,           \* "foreign": waitid says it is no child of ours.
  group,            \* Sessions with a live descendant of the leader.
  hidden,           \* That descendant was forked behind the running scan.
  escaped,          \* A descendant left the group and holds the terminal.
  signalled,        \* A signal was sent to the group under its present owner.
  doomed,           \* SIGKILL was.
  forced,           \* The leader ended after a signal.
  code,             \* Exit code of the leader.
  printed           \* Chunks written to the terminal.

processVars == <<leader, group, hidden, escaped, signalled, doomed, forced, code, printed>>

Leaders == {"none", "alive", "zombie", "reaped", "foreign"}
Codes == {"none", "zero", "nonzero"}

ProcessTypeOK ==
  /\ leader \in [Sessions -> Leaders]
  /\ code \in [Sessions -> Codes]
  /\ printed \in [Sessions -> 0 .. MaxOutput]
  /\ group \subseteq Sessions /\ hidden \subseteq Sessions /\ escaped \subseteq Sessions
  /\ signalled \subseteq Sessions /\ doomed \subseteq Sessions
  /\ forced \subseteq Sessions

ProcessInit ==
  /\ leader = [s \in Sessions |-> "none"]
  /\ code = [s \in Sessions |-> "none"]
  /\ printed = [s \in Sessions |-> 0]
  /\ group = {} /\ hidden = {} /\ escaped = {} /\ signalled = {} /\ doomed = {} /\ forced = {}

(* Nothing of the group is left.                                           *)
Dead(s) == leader[s] \in {"none", "reaped"} /\ s \notin group

-----------------------------------------------------------------------------
(* The environment.                                                        *)

LeaderExits(s) ==
  /\ leader[s] = "alive"
  /\ leader' = [leader EXCEPT ![s] = "zombie"]
  /\ \E c \in {"zero", "nonzero"} :
       /\ s \in doomed => c = "nonzero"
       /\ code' = [code EXCEPT ![s] = c]
  /\ forced' = IF s \in signalled THEN forced \cup {s} ELSE forced
  /\ UNCHANGED <<group, hidden, escaped, signalled, doomed, printed>>

(* A process with a pending SIGKILL does not fork.                         *)
HelperStarts(s) ==
  /\ leader[s] = "alive" /\ s \notin doomed /\ s \notin group
  /\ group' = group \cup {s}
  /\ UNCHANGED <<leader, hidden, escaped, signalled, doomed, forced, code, printed>>

HelperEnds(s) ==
  /\ s \in group
  /\ group' = group \ {s} /\ hidden' = hidden \ {s}
  /\ UNCHANGED <<leader, escaped, signalled, doomed, forced, code, printed>>

(* /proc is no snapshot: a member may fork, where the scan has already     *)
(* been, and die before the scan reaches it.                               *)
HelperHides(s) ==
  /\ s \in group \ (doomed \cup hidden)
  /\ hidden' = hidden \cup {s}
  /\ UNCHANGED <<leader, group, escaped, signalled, doomed, forced, code, printed>>

(* A helper in a session of its own is out of reach of the group's signals.*)
HelperEscapes(s) ==
  /\ "escape" \in Faults
  /\ s \in group \ doomed
  /\ group' = group \ {s} /\ hidden' = hidden \ {s}
  /\ escaped' = escaped \cup {s}
  /\ UNCHANGED <<leader, signalled, doomed, forced, code, printed>>

EscapedEnds(s) ==
  /\ s \in escaped
  /\ escaped' = escaped \ {s}
  /\ UNCHANGED <<leader, group, hidden, signalled, doomed, forced, code, printed>>

(* Somebody holds the other end of the terminal.                           *)
TerminalHeld(s) == leader[s] = "alive" \/ s \in group \cup escaped

Prints(s) ==
  /\ TerminalHeld(s)
  /\ printed[s] < MaxOutput
  /\ printed' = [printed EXCEPT ![s] = @ + 1]
  /\ UNCHANGED <<leader, group, hidden, escaped, signalled, doomed, forced, code>>

-----------------------------------------------------------------------------
(* Primitives.                                                             *)

(* signal_group refuses once the child is known to be no longer ours, so   *)
(* that a reused process group number is never hit.                        *)
identity_owned(s) == leader[s] \in {"alive", "zombie"}

(* The sessions whose group gets the signals of one step.                  *)
SignalGroup(s, term, kill) ==
  /\ signalled' = IF term \/ kill THEN signalled \cup {s} ELSE signalled
  /\ doomed' = IF kill THEN doomed \cup {s} ELSE doomed

(* ECHILD: the child is no longer ours, and no signal is ours to send.     *)
LosesChild(s) ==
  /\ leader' = [leader EXCEPT ![s] = "foreign"]
  /\ signalled' = signalled \ {s}

(* What group_has_live_members may answer.                                 *)
group_has_live_members(s) ==
  {live \in BOOLEAN : \/ live /\ s \in group
                      \/ ~live /\ (s \notin group \/ s \in hidden)}
=============================================================================
