-------------------------- MODULE ArchiveInductive --------------------------
(***************************************************************************)
(* The inductive invariant of Archive, from which OutputProofs derives     *)
(* that a file holds the beginning of the output and its footer the truth. *)
(***************************************************************************)
EXTENDS Archive

Commands ==
  {NoJob} \cup [cmd : {"start"}, session : ArchiveSessions]
          \cup [cmd : {"output"}, session : ArchiveSessions, chunk : Nat, size : Sizes]

ClientStates == [pc : {"new", "running", "send", "sealed", "gone"}, rest : Nat]
ArchiveStates ==
  [issues : SUBSET {"fatal", "queue"}, observed : Nat, dropped : Nat, pending : Nat,
   final : BOOLEAN, completed : BOOLEAN]
FileStates ==
  [exists : BOOLEAN, open : BOOLEAN, out : Seq(Nat), bytes : Nat,
   footer : {"none", "complete", "truncated"}]
Writers ==
  [pc : {"recv", "look", "finish", "start", "output", "stopped"},
   job : Commands \cup {[cmd |-> "stop"]}, sealed : SUBSET ArchiveSessions]

ArchiveShape ==
  /\ client \in [ArchiveSessions -> ClientStates]
  /\ archive \in [ArchiveSessions -> ArchiveStates]
  /\ file \in [ArchiveSessions -> FileStates]
  /\ queue \in Seq(Commands)
  /\ writer \in Writers
  /\ stopping \in BOOLEAN

IsOutput(m, s) == m.cmd = "output" /\ m.session = s
IsStart(m, s) == m.cmd = "start" /\ m.session = s

(* Chunks of s among the first i commands.                                 *)
Chunks(q, s, i) == {j \in DOMAIN q : j <= i /\ IsOutput(q[j], s)}
Queued(s) == Cardinality(Chunks(queue, s, Len(queue)))
InHand(s) == IF writer.pc = "output" /\ writer.job.session = s THEN 1 ELSE 0

Starting(s) == writer.pc \in {"look", "finish", "start"} /\ IsStart(writer.job, s)
StartQueued(s) == \E i \in DOMAIN queue : IsStart(queue[i], s)

(* The writer has one thing in hand, and footers only for ended sessions.  *)
WriterFits ==
  /\ writer.pc = "output" => writer.job.cmd = "output"
  /\ writer.pc = "start" => writer.job.cmd = "start"
  /\ writer.pc # "finish" => writer.sealed = {}
  /\ \A s \in writer.sealed : file[s].open /\ archive[s].final

ClientFits(s) ==
  /\ client[s].rest <= archive[s].observed
  /\ client[s].pc \notin {"running", "send"} => client[s].rest = 0
  /\ client[s].pc = "send" => client[s].rest > 0 /\ archive[s].pending > 0
  /\ archive[s].final => client[s].pc \in {"sealed", "gone"}

(* What is closed was sealed and awaits nothing, so its footer stays true. *)
FileFits(s) ==
  /\ ~file[s].exists => file[s] = NoFile
  /\ file[s].exists /\ ~file[s].open =>
       archive[s].final /\ archive[s].completed /\ archive[s].pending = 0
  /\ file[s].footer # "none" => ~file[s].open
  /\ file[s].out = [i \in 1 .. Len(file[s].out) |-> i]
  /\ file[s].footer = "complete" => Len(file[s].out) = archive[s].observed
  /\ file[s].footer # "none" =>
       Len(file[s].out) + archive[s].dropped = archive[s].observed

(* A session is started once, and nothing is known of it before.           *)
StartFits(s) ==
  /\ \A i, j \in DOMAIN queue : IsStart(queue[i], s) /\ IsStart(queue[j], s) => i = j
  /\ Starting(s) => ~StartQueued(s)
  /\ Starting(s) \/ StartQueued(s) => ~file[s].exists /\ ~archive[s].completed
  /\ client[s].pc = "new" =>
       /\ ~Starting(s) /\ ~StartQueued(s)
       /\ archive[s] = NewArchive /\ ~file[s].exists

(* pending counts what is queued, in the writer's hand or about to be sent. *)
PendingFits(s) ==
  archive[s].pending = Queued(s) + (IF client[s].pc = "send" THEN 1 ELSE 0) + InHand(s)

IssuesFit(s) ==
  /\ client[s].pc = "send" => "queue" \notin archive[s].issues
  /\ file[s].open => ~archive[s].completed
  /\ archive[s].completed =>
       "fatal" \in archive[s].issues \/ (archive[s].final /\ archive[s].pending = 0)
  /\ archive[s].issues = {} => archive[s].dropped = 0

(* Whatever was printed is in the file, was counted as lost or is to come. *)
Balance(written, lost, queued, inhand, rest, observed) ==
  written + lost + queued + inhand + rest = observed

AccountFits(s) ==
  ~archive[s].completed =>
    Balance(Len(file[s].out), archive[s].dropped, Queued(s), InHand(s), client[s].rest,
            archive[s].observed)

(* Until something fatal happens the writer gets the chunks one by one,    *)
(* behind the command that starts their file.                              *)
ChunksFit(s) ==
  "fatal" \notin archive[s].issues /\ ~archive[s].completed =>
    /\ InHand(s) = 1 => file[s].open /\ writer.job.chunk = Len(file[s].out) + 1
    /\ \A i \in DOMAIN queue : IsOutput(queue[i], s) =>
         /\ queue[i].chunk = Len(file[s].out) + InHand(s) + Cardinality(Chunks(queue, s, i))
         /\ file[s].open \/ Starting(s) \/ \E j \in 1 .. i - 1 : IsStart(queue[j], s)
    /\ client[s].pc \in {"running", "send"} => file[s].open \/ Starting(s) \/ StartQueued(s)

(* A writer that is gone owes nothing more, and what it wrote stays.       *)
Connected(s) ==
  StartFits(s) /\ PendingFits(s) /\ IssuesFit(s) /\ AccountFits(s) /\ ChunksFit(s)

ArchiveInv ==
  /\ ArchiveShape /\ WriterFits
  /\ \A s \in ArchiveSessions :
       ClientFits(s) /\ FileFits(s) /\ (~Disconnected => Connected(s))

(* WithinLimits, with what the steps rely on: whatever is open may still   *)
(* get its footer.                                                         *)
LimitsInv ==
  /\ IsFiniteSet(Files) /\ WithinLimits
  /\ \A s \in Open : file[s].bytes + 1 <= MaxPerSession
=============================================================================
