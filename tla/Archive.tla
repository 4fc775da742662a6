------------------------------ MODULE Archive -------------------------------
(***************************************************************************)
(* The diagnostics archive (src/src/diagnostics.rs): sessions hand chunks  *)
(* of output to a bounded queue and never wait; one writer thread keeps a  *)
(* file for each session, within limits, and ends it with a footer that    *)
(* says whether it is complete.                                            *)
(*                                                                         *)
(* A header and the space reserved for a footer have size one, the records *)
(* of chunks any of Sizes; the n-th chunk of a session is known by n.      *)
(* Files of an earlier process are like finished ones.                     *)
(***************************************************************************)
EXTENDS Integers, Sequences, FiniteSets

CONSTANTS
  ArchiveSessions,  \* Sessions.
  Sizes,            \* Sizes of the record of a chunk.
  QueueLength,      \* QUEUE_LENGTH.
  MaxPerSession,    \* archive_max_bytes_per_session.
  MaxTotal,         \* archive_max_total_bytes.
  MaxFiles,         \* archive_max_sessions.
  Slots,            \* Sessions that run at once: one, but for the archive
                    \* there may be any number.
  ArchiveFaults,    \* The faults the environment may inject.
  MaxTexts          \* Bound: chunks a session prints.

(* "disk": an operation on a file or directory fails; "panic": the writer  *)
(* panics.                                                                 *)
ASSUME ArchiveAssumption ==
  /\ Sizes \subseteq Nat \ {0}
  /\ {QueueLength, MaxFiles, Slots} \subseteq Nat \ {0}
  /\ {MaxPerSession, MaxTotal, MaxTexts} \subseteq Nat
  /\ 2 <= MaxPerSession /\ MaxPerSession <= MaxTotal
  /\ ArchiveFaults \subseteq {"disk", "panic"}

VARIABLES
  client,       \* The point each session has reached.
  archive,      \* ArchiveState of each session.
  file,         \* The file of each session.
  queue,        \* Commands for the writer.
  writer,       \* The point the writer has reached.
  stopping      \* DiagnosticsInner::stopping.

archiveVars == <<client, archive, file, queue, writer, stopping>>

Fatal == {"session_limit", "total_limit", "disk_error"}

NewArchive == [issues |-> {}, observed |-> 0, dropped |-> 0, pending |-> 0,
               final |-> FALSE, completed |-> FALSE]
NoFile == [exists |-> FALSE, open |-> FALSE, out |-> <<>>, bytes |-> 0, footer |-> "none"]
NoJob == [cmd |-> "none"]

ArchiveInit ==
  /\ client = [s \in ArchiveSessions |-> [pc |-> "new", rest |-> 0]]
  /\ archive = [s \in ArchiveSessions |-> NewArchive]
  /\ file = [s \in ArchiveSessions |-> NoFile]
  /\ queue = <<>>
  /\ writer = [pc |-> "recv", job |-> NoJob, sealed |-> {}]
  /\ stopping = FALSE

(* Of the flags only those are told apart that end the writing from those  *)
(* that end the queueing; any of them disables the archive.                *)
issue(a, flag) ==
  [a EXCEPT !.issues = @ \cup {IF flag \in Fatal THEN "fatal" ELSE "queue"}]
Loses(a, n) == [a EXCEPT !.dropped = @ + n]

Open == {s \in ArchiveSessions : file[s].open}
Files == {s \in ArchiveSessions : file[s].exists}

(* The bytes of these files, counted one by one.                           *)
BytesOf(sessions) == Cardinality(UNION {{s} \X (1 .. file[s].bytes) : s \in sessions})

(* try_send: the receiver goes with the writer.                            *)
Disconnected == writer.pc = "stopped"
Full == Len(queue) = QueueLength
Sends(command) == ~Disconnected /\ ~Full /\ queue' = Append(queue, command)

(* A Wake only fills a place: the writer looks every 100 ms anyway.        *)
Wakes == Sends(NoJob) \/ ((Disconnected \/ Full) /\ UNCHANGED queue)

-----------------------------------------------------------------------------
(* Sessions.                                                               *)

ClientFrame == UNCHANGED <<file, writer, stopping>>

Steps(s, pc, rest) == client' = [client EXCEPT ![s] = [pc |-> pc, rest |-> rest]]

(* Diagnostics::start, when a slot for a session is free.                  *)
StartSession(s) ==
  /\ client[s].pc = "new"
  /\ Cardinality({u \in ArchiveSessions : client[u].pc \in {"running", "send"}}) < Slots
  /\ \/ ~stopping /\ Sends([cmd |-> "start", session |-> s]) /\ Steps(s, "running", 0)
     \/ (stopping \/ Disconnected \/ Full) /\ Steps(s, "gone", 0) /\ UNCHANGED queue
  /\ ClientFrame /\ UNCHANGED archive

(* OutputArchive::push: the next chunk, of a new text or of the one being  *)
(* pushed, is announced, or the rest of the text is lost.                  *)
PushNext(s) ==
  /\ client[s].pc = "running"
  /\ \E rest \in 1 .. MaxTexts :
       LET fresh == client[s].rest = 0
           a == [archive[s] EXCEPT !.observed = IF fresh THEN @ + rest ELSE @]
       IN /\ IF fresh THEN a.observed <= MaxTexts ELSE rest = client[s].rest
          /\ \/ /\ a.issues # {}
                /\ archive' = [archive EXCEPT ![s] = Loses(a, rest)]
                /\ Steps(s, "running", 0)
             \/ /\ a.issues = {}
                /\ archive' = [archive EXCEPT ![s] = [a EXCEPT !.pending = @ + 1]]
                /\ Steps(s, "send", rest)
  /\ ClientFrame /\ UNCHANGED queue

Refused(s, flag) ==
  LET lost == Loses([archive[s] EXCEPT !.pending = @ - 1], client[s].rest) IN
  archive' = [archive EXCEPT ![s] = issue(lost, flag)]

PushSends(s) ==
  LET chunk == archive[s].observed - client[s].rest + 1 IN
  /\ client[s].pc = "send"
  /\ \/ /\ \E size \in Sizes :
             Sends([cmd |-> "output", session |-> s, chunk |-> chunk, size |-> size])
        /\ Steps(s, "running", client[s].rest - 1)
        /\ UNCHANGED archive
     \/ /\ Disconnected /\ Refused(s, "worker_stopped")
        /\ Steps(s, "running", 0) /\ UNCHANGED queue
     \/ /\ ~Disconnected /\ Full /\ Refused(s, "queue_full")
        /\ Steps(s, "running", 0) /\ UNCHANGED queue
  /\ ClientFrame

(* seal, once the session has ended and prints no more.                    *)
Seal(s) ==
  /\ client[s] = [pc |-> "running", rest |-> 0]
  /\ archive' = [archive EXCEPT ![s].final = TRUE]
  /\ Steps(s, "sealed", 0)
  /\ Wakes
  /\ ClientFrame

(* wait: half a second at most.                                            *)
Wait(s) ==
  /\ client[s].pc = "sealed"
  /\ \/ archive[s].completed /\ UNCHANGED archive
     \/ /\ ~archive[s].completed
        /\ archive' = [archive EXCEPT ![s] = issue(@, "drain_timeout")]
  /\ Steps(s, "gone", 0)
  /\ ClientFrame /\ UNCHANGED queue

ShutdownArchive ==
  /\ ~stopping
  /\ stopping' = TRUE
  /\ Wakes
  /\ UNCHANGED <<client, archive, file, writer>>

-----------------------------------------------------------------------------
(* Writer::run.                                                            *)

WriterFrame == UNCHANGED <<client, stopping>>
Goes(pc, job) == writer' = [pc |-> pc, job |-> job, sealed |-> {}]

(* Before a file is started the finished ones are closed.                  *)
Receive ==
  /\ writer.pc = "recv" /\ queue # <<>>
  /\ Goes(IF Head(queue).cmd = "output" THEN "output" ELSE "look", Head(queue))
  /\ queue' = Tail(queue)
  /\ WriterFrame /\ UNCHANGED <<archive, file>>

(* The queue was empty for 100 ms, which ends a writer that is to stop and *)
(* otherwise matters only to what is open.                                 *)
ReceiveTimesOut ==
  /\ writer.pc = "recv" /\ queue = <<>>
  /\ stopping \/ Open # {}
  /\ Goes("look", [cmd |-> IF stopping THEN "stop" ELSE "none"])
  /\ WriterFrame /\ UNCHANGED <<archive, file, queue>>

-----------------------------------------------------------------------------
(* finish_ready.                                                           *)

Mut_Ready(look, s) == IF look = 1 THEN archive[s].pending = 0 ELSE archive[s].final

(* final_info is read before pending: whoever has sealed sends no more.    *)
Ready(look, s) == IF look = 1 THEN archive[s].final ELSE archive[s].pending = 0

Sealed == {s \in Open : Ready(1, s)}

FinishLooks ==
  /\ writer.pc = "look" /\ Sealed # {}
  /\ writer' = [writer EXCEPT !.pc = "finish", !.sealed = Sealed]
  /\ WriterFrame /\ UNCHANGED <<archive, file, queue>>

Closed(s, footer, bytes) ==
  file' = [file EXCEPT ![s].open = FALSE, ![s].footer = footer, ![s].bytes = @ + bytes]

(* The footer says what is missing; without one the file is interrupted.   *)
FinishArchive(s) ==
  /\ writer.pc = "finish" /\ s \in writer.sealed
  /\ writer' = [writer EXCEPT !.sealed = @ \ {s}]
  /\ \/ ~Ready(2, s) /\ UNCHANGED <<archive, file>>
     \/ /\ Ready(2, s)
        /\ Closed(s, IF archive[s].issues = {} THEN "complete" ELSE "truncated", 1)
        /\ archive' = [archive EXCEPT ![s].completed = TRUE]
     \/ /\ Ready(2, s) /\ "disk" \in ArchiveFaults
        /\ \E bytes \in 0 .. 1 : Closed(s, "none", bytes)
        /\ archive' = [archive EXCEPT ![s] = [issue(@, "disk_error") EXCEPT !.completed = TRUE]]
  /\ WriterFrame /\ UNCHANGED queue

(* Then what was received is done: a file started, the loop ended with     *)
(* whatever is open left without a footer, or nothing.                     *)
FinishDone ==
  /\ \/ writer.pc = "look" /\ Sealed = {}
     \/ writer.pc = "finish" /\ writer.sealed = {}
  /\ \/ /\ writer.job.cmd = "start" /\ Goes("start", writer.job)
        /\ UNCHANGED <<archive, queue>>
     \/ /\ writer.job.cmd = "stop" /\ Goes("stopped", NoJob)
        /\ archive' = [s \in ArchiveSessions |->
             IF s \in Open THEN [issue(archive[s], "worker_stopped") EXCEPT !.completed = TRUE]
             ELSE archive[s]]
        /\ queue' = <<>>
     \/ /\ writer.job.cmd \notin {"start", "stop"} /\ Goes("recv", NoJob)
        /\ UNCHANGED <<archive, queue>>
  /\ WriterFrame /\ UNCHANGED file

-----------------------------------------------------------------------------
(* prune removes files nobody writes to, the oldest first, while there are *)
(* too many, or too many bytes, or while they are too old; which of them   *)
(* are old is left open.                                                   *)

Mut_Reserve(incoming) == 1

(* Every open file may still get its footer.                               *)
Reserve(incoming) == Cardinality(Open) + incoming

Fits(removed, incoming, bytes) ==
  BytesOf(Files \ removed) + Reserve(incoming) + bytes <= MaxTotal

Prunes(incoming, bytes) ==
  {removed \in SUBSET (Files \ Open) :
     \/ removed = Files \ Open
     \/ /\ Fits(removed, incoming, bytes)
        /\ Cardinality(Files \ removed) + incoming <= MaxFiles}

Without(removed) == [s \in ArchiveSessions |-> IF s \in removed THEN NoFile ELSE file[s]]

(* Once a minute; it may fail half way.                                    *)
Maintain ==
  /\ writer.pc = "recv"
  /\ \E removed \in SUBSET (Files \ Open) \ {{}} : file' = Without(removed)
  /\ WriterFrame /\ UNCHANGED <<archive, queue, writer>>

-----------------------------------------------------------------------------
(* Writer::start.                                                          *)

Mut_Rejected(s, flag) == archive' = [archive EXCEPT ![s] = issue(@, flag)]

Rejected(s, flag) ==
  archive' = [archive EXCEPT ![s] = [issue(@, flag) EXCEPT !.completed = TRUE]]

WriterStart ==
  LET s == writer.job.session IN
  /\ writer.pc = "start"
  /\ \/ \E removed \in Prunes(1, 1) :
          \/ /\ ~Fits(removed, 1, 1) \/ Cardinality(Open) >= MaxFiles
             /\ Rejected(s, "total_limit") /\ file' = Without(removed)
          \/ /\ Fits(removed, 1, 1) /\ Cardinality(Open) < MaxFiles
             /\ file' = [Without(removed) EXCEPT ![s] =
                           [NoFile EXCEPT !.exists = TRUE, !.open = TRUE, !.bytes = 1]]
             /\ UNCHANGED archive
     \/ /\ "disk" \in ArchiveFaults
        /\ \E removed \in SUBSET (Files \ Open) : file' = Without(removed)
        /\ Rejected(s, "disk_error")
  /\ Goes("look", NoJob)
  /\ WriterFrame /\ UNCHANGED queue

-----------------------------------------------------------------------------
(* Writer::output.                                                         *)

(* A full queue only ends what is queued, other issues what is written.    *)
Kept(s) == file[s].open /\ "fatal" \notin archive[s].issues

Written(s, removed, size) ==
  [Without(removed) EXCEPT ![s].out = Append(@, writer.job.chunk), ![s].bytes = @ + size]

Drops(s, flag) ==
  LET done == Loses([archive[s] EXCEPT !.pending = @ - 1], 1) IN
  archive' = [archive EXCEPT ![s] = IF flag = "none" THEN done ELSE issue(done, flag)]

(* Room is made if it takes more than the total; a failed write is taken   *)
(* back, if that does not fail as well.                                    *)
WriteChunk(s, size) ==
  \E removed \in IF Fits({}, 0, size) THEN {{}} ELSE Prunes(0, size) :
    \/ /\ ~Fits(removed, 0, size) /\ file' = Without(removed)
       /\ Drops(s, "total_limit")
    \/ /\ Fits(removed, 0, size) /\ file' = Written(s, removed, size)
       /\ archive' = [archive EXCEPT ![s].pending = @ - 1]
    \/ /\ Fits(removed, 0, size) /\ "disk" \in ArchiveFaults
       /\ \E left \in {0, size} : file' = [Without(removed) EXCEPT ![s].bytes = @ + left]
       /\ Drops(s, "disk_error")

(* Making room fails, some of it made.                                     *)
RotateFails(s, size) ==
  /\ ~Fits({}, 0, size) /\ "disk" \in ArchiveFaults
  /\ \E removed \in SUBSET (Files \ Open) : file' = Without(removed)
  /\ Drops(s, "disk_error")

WriterOutput ==
  LET s == writer.job.session
      size == writer.job.size
      large == file[s].bytes + size + 1 > MaxPerSession
  IN
  /\ writer.pc = "output"
  /\ \/ ~Kept(s) /\ Drops(s, "none") /\ UNCHANGED file
     \/ Kept(s) /\ large /\ Drops(s, "session_limit") /\ UNCHANGED file
     \/ Kept(s) /\ ~large /\ (WriteChunk(s, size) \/ RotateFails(s, size))
  /\ Goes("look", NoJob)
  /\ WriterFrame /\ UNCHANGED queue

(* At an expect of start or output the thread ends, its files stay.        *)
WriterPanics ==
  /\ "panic" \in ArchiveFaults /\ writer.pc \in {"start", "output"}
  /\ Goes("stopped", NoJob)
  /\ queue' = <<>>
  /\ WriterFrame /\ UNCHANGED <<archive, file>>

-----------------------------------------------------------------------------
ArchiveSession(s) ==
  StartSession(s) \/ PushNext(s) \/ PushSends(s) \/ Seal(s) \/ Wait(s)

WriterStep ==
  \/ Receive \/ ReceiveTimesOut \/ FinishLooks \/ FinishDone
  \/ \E s \in ArchiveSessions : FinishArchive(s)
  \/ WriterStart \/ WriterOutput

ArchiveNext ==
  \/ \E s \in ArchiveSessions : ArchiveSession(s)
  \/ WriterStep \/ Maintain
  \/ ShutdownArchive \/ WriterPanics

(* The writer is a thread of its own that never waits for a session.       *)
ArchiveFairness == WF_archiveVars(WriterStep)

ArchiveSpec == ArchiveInit /\ [][ArchiveNext]_archiveVars /\ ArchiveFairness

-----------------------------------------------------------------------------
(* Properties.                                                             *)

(* pending: what the writer waits for before a footer is what is queued.   *)
PendingAgrees ==
  \A s \in ArchiveSessions :
    ~Disconnected =>
      archive[s].pending =
        Cardinality({i \in DOMAIN queue : queue[i].cmd = "output" /\ queue[i].session = s})
        + (IF client[s].pc = "send" THEN 1 ELSE 0)
        + (IF writer.pc = "output" /\ writer.job.session = s THEN 1 ELSE 0)

(* output: whatever is lost, a file holds the beginning of the output.     *)
ArchivedIsPrefix ==
  \A s \in ArchiveSessions : file[s].out = [i \in 1 .. Len(file[s].out) |-> i]

(* finish_ready: a footer that reports nothing missing stands behind the   *)
(* whole output of the session, and any footer accounts for all of it.     *)
FooterIsTrue ==
  \A s \in ArchiveSessions :
    /\ file[s].footer = "complete" => Len(file[s].out) = archive[s].observed
    /\ file[s].footer # "none" =>
         Len(file[s].out) + archive[s].dropped = archive[s].observed

(* Writer: what is in a file, and what its footer says, can be trusted,    *)
(* because nothing announced is overlooked.                                *)
ArchiveIsTrue == PendingAgrees /\ ArchivedIsPrefix /\ FooterIsTrue

(* start, output and prune: the files and the footers still to come stay   *)
(* within the limits.                                                      *)
WithinLimits ==
  /\ BytesOf(Files) + Cardinality(Open) <= MaxTotal
  /\ Cardinality(Files) <= MaxFiles
  /\ \A s \in ArchiveSessions : file[s].bytes <= MaxPerSession

(* wait: a sealed archive is completed by the writer, unless that stopped. *)
SealedCompletes ==
  \A s \in ArchiveSessions : archive[s].final ~> (archive[s].completed \/ Disconnected)
=============================================================================
