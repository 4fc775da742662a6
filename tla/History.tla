------------------------------ MODULE History -------------------------------
(***************************************************************************)
(* The durable history of the service (src/src/history.rs): producers take *)
(* sequence numbers under a lock and put events in a bounded queue; one    *)
(* writer appends them to events.jsonl, keeps what collectors may read in  *)
(* memory and describes it in state.json; numbers without an event become  *)
(* gaps.  A crash leaves the two files, from which initialize rebuilds.    *)
(*                                                                         *)
(* Lines of the journal are in the order of their numbers, so the journal  *)
(* is a set of events.  A gap is the set of the numbers it covers; gap()   *)
(* may merge ranges, and then reports more.  Sessions and workflows are    *)
(* recorded alike: a work stands for either.  One byte is one output       *)
(* event, and the byte limits are numbers of events.                       *)
(***************************************************************************)
EXTENDS Integers, FiniteSets, SequencesExt

CONSTANTS
  Works,        \* Sessions and workflows.
  None,         \* No work: an event of the service itself.
  QueueLimit,   \* Messages the queue holds.
  BatchLimit,   \* Messages one append takes.
  MaxEvents,    \* Events that are retained.
  HeadBytes,    \* Output of a work that is never trimmed ...
  TailBytes,    \* ... and how much is retained after it.
  GcLimit,      \* Lines of garbage that cause a compaction.
  MaxPage,      \* Events a page may ask for.
  Faults,       \* The faults the environment may inject.
  MaxSeq,       \* Bound: numbers after which producers fall silent.
  MaxFaults     \* Bound: faults, restarts, and events growing too old.

(* "crash": the process or the machine dies; "io": a write, sync or rename *)
(* of a file fails; "sync": the directory cannot be synced after a rename; *)
(* "damage": nor can a failed append be taken back; "large": an event is   *)
(* above the limit; "stop": the service is shut down and started again.    *)
FaultKinds == {"crash", "io", "sync", "damage", "large", "stop"}

ASSUME HistoryAssumption ==
  /\ None \notin Works
  /\ {QueueLimit, BatchLimit, MaxEvents, TailBytes, GcLimit, MaxPage} \subseteq Nat \ {0}
  /\ {HeadBytes, MaxSeq, MaxFaults} \subseteq Nat
  /\ BatchLimit <= MaxEvents
  /\ Faults \subseteq FaultKinds

VARIABLES
  disk,         \* Both files, and what a power loss may bring back instead.
  inner,        \* Inner: producer counter, pending gaps, queue, flags.
  reader,       \* Reader: retained events and the state of the journal.
  writer,       \* The point the writer has reached, and its batch.
  up,           \* "down", "starting", "running" or "finished".
  works,        \* What the managers record of each work, and its output.
  world,        \* Age of events, faults, instance and shutdown of the service.
  ghost         \* What became of events and numbers, for the properties.

vars == <<disk, inner, reader, writer, up, works, world, ghost>>

Kinds == {"service", "requested", "started", "output", "finished", "interrupted"}
Sealing == {"finished", "interrupted"}

NewEvent(seq, kind, work, offset) ==
  [seq |-> seq, kind |-> kind, work |-> work, offset |-> offset, born |-> world.instance]

Seqs(events) == {e.seq : e \in events}
Latest(numbers) == IF numbers = {} THEN 0 ELSE Max(numbers)

-----------------------------------------------------------------------------
(* State and Reader.                                                       *)

NewState == [next |-> 0, earliest |-> 0, gaps |-> {}, open |-> {},
             windows |-> [w \in Works |-> 0]]

(* apply_lifecycle, for events in the order of their numbers.              *)
Mut_apply_lifecycle(open, events) ==
  {w \in Works :
     LET mine == {e \in events : e.work = w /\ e.kind \in {"started", "finished"}} IN
     IF mine = {} THEN w \in open
     ELSE \E e \in mine : e.seq = Max(Seqs(mine)) /\ e.kind = "started"}

apply_lifecycle(open, events) ==
  {w \in Works :
     LET mine == {e \in events : e.work = w /\ e.kind \in {"started"} \cup Sealing} IN
     IF mine = {} THEN w \in open
     ELSE \E e \in mine : e.seq = Max(Seqs(mine)) /\ e.kind = "started"}

(* The output of w that counts against its tail.                           *)
Tail_(events, w) ==
  {e \in events : e.kind = "output" /\ e.work = w /\ e.offset >= HeadBytes}

(* track_tail drops the oldest output of a tail that has become too long.  *)
Trimmed(events) ==
  {e \in events : \E w \in Works :
     /\ e \in Tail_(events, w)
     /\ Cardinality({f \in Tail_(events, w) : f.seq > e.seq}) >= TailBytes}

track_tail(r) ==
  LET gone == Trimmed(r.events)
      kept == r.events \ gone
  IN [r EXCEPT
        !.events = kept,
        !.state.gaps = @ \cup Seqs(gone),
        !.state.windows = [w \in Works |->
            IF gone \cap Tail_(r.events, w) = {} THEN @[w]
            ELSE Min({e.offset : e \in Tail_(kept, w)})]]

(* prune removes the oldest events while they are too old or too many.     *)
Pruned(events) ==
  {e \in events : \/ e.seq <= world.expired
                  \/ Cardinality({f \in events : f.seq > e.seq}) >= MaxEvents}

prune(r) ==
  LET kept == r.events \ Pruned(r.events)
  IN [events |-> kept,
      state |-> [r.state EXCEPT
        !.gaps = @ \cup Seqs(Pruned(r.events)),
        !.earliest = IF kept = {} THEN r.state.next ELSE Min(Seqs(kept)) - 1,
        !.windows = [w \in Works |->
            IF \E e \in kept : e.work = w THEN @[w] ELSE 0]]]

(* The replay of the journal skips what had been given up.                 *)
Mut_Retired(e, state) == e.seq <= state.next

Retired(e, state) ==
  \/ e.seq <= state.earliest
  \/ e.kind = "output" /\ HeadBytes <= e.offset /\ e.offset < state.windows[e.work]

(* initialize: the journal brings the state up to date, numbers that only  *)
(* a gap knows are not given out again, and a damaged tail costs one.      *)
Mut_Replay(journal, saved) ==
  LET high == Max({saved.next} \cup saved.gaps)
      lost == IF journal.torn THEN {high + 1} ELSE {}
  IN [events |-> {e \in journal.lines : ~Retired(e, saved)},
      state |-> [saved EXCEPT
        !.next = Max({high} \cup lost),
        !.open = apply_lifecycle(@, {e \in journal.lines : e.seq > saved.next}),
        !.gaps = @ \cup lost]]

Replay(journal, saved) ==
  LET head == Max({saved.next} \cup Seqs(journal.lines))
      high == Max({head} \cup saved.gaps)
      lost == IF journal.torn THEN {high + 1} ELSE {}
  IN [events |-> {e \in journal.lines : ~Retired(e, saved)},
      state |-> [saved EXCEPT
        !.next = Max({high} \cup lost),
        !.open = apply_lifecycle(@, {e \in journal.lines : e.seq > saved.next}),
        !.gaps = @ \cup ((head + 1) .. high) \cup lost]]

Init ==
  /\ disk = [journal |-> [lines |-> {}, torn |-> FALSE], saved |-> NewState,
             cut |-> {}, old_journals |-> {}, old_saved |-> {}]
  /\ inner = [producer |-> 0, pending |-> {}, queue |-> <<>>, healthy |-> FALSE,
              stopped |-> FALSE]
  /\ reader = [events |-> {}, state |-> NewState]
  /\ writer = [pc |-> "none", cause |-> "none", batch |-> <<>>]
  /\ up = "down"
  /\ works = [w \in Works |-> [status |-> "new", output |-> 0]]
  /\ world = [expired |-> 0, faults |-> 0, instance |-> 0, stopping |-> FALSE]
  /\ ghost = [acked |-> {}, taken |-> {}, behind |-> {}, committed |-> {}, removed |-> {},
              booted |-> 0, undone |-> FALSE]

Running == up = "running"
Fault(kind) ==
  /\ kind \in Faults /\ world.faults < MaxFaults
  /\ world' = [world EXCEPT !.faults = @ + 1]

At(pc) == writer.pc = pc
Goto(pc) == writer' = [writer EXCEPT !.pc = pc]

-----------------------------------------------------------------------------
(* Producers.                                                              *)

(* enqueue: the number is taken whatever becomes of the event.             *)
Dropped(seq, healthy) ==
  inner' = [inner EXCEPT !.producer = seq, !.pending = @ \cup {seq}, !.healthy = healthy]

EnqueueIn(kind, w, offset, critical) ==
  LET seq == inner.producer + 1 IN
  /\ Running /\ ~inner.stopped
  /\ seq <= MaxSeq
  /\ \/ /\ Len(inner.queue) < QueueLimit
        /\ inner' = [inner EXCEPT
             !.producer = seq,
             !.queue = Append(@, [event |-> NewEvent(seq, kind, w, offset), ack |-> critical])]
     \/ Len(inner.queue) = QueueLimit /\ Dropped(seq, FALSE)

(* ... or an event above the limit is refused.                             *)
enqueue(kind, w, offset, critical) ==
  /\ \/ EnqueueIn(kind, w, offset, critical) /\ UNCHANGED world
     \/ /\ Running /\ ~inner.stopped /\ inner.producer < MaxSeq
        /\ Fault("large") /\ Dropped(inner.producer + 1, inner.healthy)
  /\ UNCHANGED <<disk, reader, writer, up, ghost>>

Queued == Len(inner'.queue) > Len(inner.queue)

(* critical: refused while recording is not healthy.                       *)
Request(w) ==
  /\ works[w].status = "new" /\ inner.healthy
  /\ enqueue("requested", w, 0, TRUE)
  /\ works' = [works EXCEPT ![w].status = IF Queued THEN "asked" ELSE "gone"]

(* Nobody waits for an answer for longer than five seconds.                *)
RequestTimesOut(w) ==
  /\ works[w].status = "asked"
  /\ works' = [works EXCEPT ![w].status = "gone"]
  /\ UNCHANGED <<disk, inner, reader, writer, up, world, ghost>>

(* record: what it cannot queue is a gap and no error of the work's.       *)
RecordStarted(w) ==
  /\ works[w].status = "admitted"
  /\ enqueue("started", w, 0, FALSE)
  /\ works' = [works EXCEPT ![w].status = "open"]

(* History::output; offsets count what the work wrote, recorded or not.    *)
RecordOutput(w) ==
  /\ works[w].status = "open"
  /\ enqueue("output", w, works[w].output, FALSE)
  /\ works' = [works EXCEPT ![w].output = @ + 1]

RecordFinished(w) ==
  /\ works[w].status = "open"
  /\ enqueue("finished", w, 0, FALSE)
  /\ works' = [works EXCEPT ![w].status = "gone"]

(* shutdown records its own critical event if recording is healthy ...     *)
ShutdownBegins ==
  /\ Running /\ ~world.stopping
  /\ "stop" \in Faults /\ world.faults < MaxFaults
  /\ \/ inner.healthy /\ EnqueueIn("service", None, 0, TRUE)
     \/ ~inner.healthy /\ UNCHANGED inner
  /\ world' = [world EXCEPT !.faults = @ + 1, !.stopping = TRUE]
  /\ UNCHANGED <<disk, reader, writer, up, works, ghost>>

(* ... and stops recording when that is answered, refused or too late.     *)
shutdown ==
  /\ Running /\ world.stopping /\ ~inner.stopped
  /\ inner' = [inner EXCEPT !.stopped = TRUE]
  /\ UNCHANGED <<disk, reader, writer, up, works, world, ghost>>

-----------------------------------------------------------------------------
(* The writer appends.                                                     *)

BatchEvents == {writer.batch[i].event : i \in DOMAIN writer.batch}

(* Retention takes events out of the reader.                               *)
Removes(events) == ghost' = [ghost EXCEPT !.removed = @ \cup events]

(* run takes a message and what else is queued.                            *)
Receive ==
  /\ Running /\ At("idle") /\ inner.queue # <<>>
  /\ LET n == Min({Len(inner.queue), BatchLimit}) IN
       /\ writer' = [pc |-> "write", cause |-> "append", batch |-> SubSeq(inner.queue, 1, n)]
       /\ inner' = [inner EXCEPT !.queue = SubSeq(@, n + 1, Len(@))]
  /\ UNCHANGED <<disk, reader, up, works, world, ghost>>

(* append: the lines are written and synced before anybody sees them.  A   *)
(* replay ends at a damaged piece and finds nothing that stands behind it. *)
AppendWrite ==
  /\ At("write")
  /\ disk' = IF disk.journal.torn THEN disk
             ELSE [disk EXCEPT !.journal.lines = @ \cup BatchEvents, !.cut = {}]
  /\ LET filled == [reader EXCEPT
                      !.events = @ \cup BatchEvents,
                      !.state.next = Max({@} \cup Seqs(BatchEvents)),
                      !.state.open = apply_lifecycle(@, BatchEvents)]
     IN /\ reader' = track_tail(filled)
        /\ ghost' = [ghost EXCEPT
             !.removed = @ \cup Trimmed(filled.events),
             !.behind = IF disk.journal.torn THEN @ \cup BatchEvents ELSE @]
  /\ Goto("settle")
  /\ UNCHANGED <<inner, up, works, world>>

(* The gaps that waited are described, and retention is applied.           *)
AppendSettles ==
  /\ At("settle")
  /\ LET filled == [reader EXCEPT !.state.gaps = @ \cup inner.pending]
     IN reader' = prune(filled) /\ Removes(Pruned(filled.events))
  /\ inner' = [inner EXCEPT !.pending = {}]
  /\ Goto(IF Cardinality(disk.journal.lines \ reader'.events) >= GcLimit
          THEN "compact" ELSE "persist")
  /\ UNCHANGED <<disk, up, works, world>>

-----------------------------------------------------------------------------
(* How an operation of the writer ends, for each cause it was begun for.   *)

Idle == [pc |-> "idle", cause |-> "none", batch |-> <<>>]

(* The waiting side of critical gets its answer.                           *)
Mut_Answers(ok) ==
  LET asked == {writer.batch[i].event : i \in {i \in DOMAIN writer.batch : writer.batch[i].ack}} IN
  /\ works' = [w \in Works |->
       IF works[w].status = "asked" /\ \E e \in asked : e.work = w
       THEN [works[w] EXCEPT !.status = "admitted"] ELSE works[w]]
  /\ ghost' = [ghost EXCEPT !.acked = @ \cup asked,
                            !.committed = IF ok THEN @ \cup reader.events ELSE @]

Answers(ok) ==
  LET asked == {writer.batch[i].event : i \in {i \in DOMAIN writer.batch : writer.batch[i].ack}} IN
  /\ works' = [w \in Works |->
       IF works[w].status = "asked" /\ \E e \in asked : e.work = w
       THEN [works[w] EXCEPT !.status = IF ok THEN "admitted" ELSE "gone"] ELSE works[w]]
  /\ ghost' = IF ok THEN [ghost EXCEPT !.acked = @ \cup asked,
                                       !.committed = @ \cup reader.events]
             ELSE [ghost EXCEPT !.taken = IF At("write") THEN @ \cup BatchEvents ELSE @]

(* A state file that is written describes what can be read.                *)
Commits(ok) == ghost' = [ghost EXCEPT !.committed = IF ok THEN @ \cup reader.events ELSE @]

(* run: the flag, the gap and the answers after an append.                 *)
AppendDone(ok, stopped) ==
  /\ writer.cause = "append"
  /\ inner' = [inner EXCEPT !.healthy = ok, !.stopped = stopped,
                            !.pending = IF ok THEN @ ELSE @ \cup Seqs(BatchEvents)]
  /\ Answers(ok)
  /\ writer' = Idle
  /\ UNCHANGED <<reader, up>>

(* The health flag follows what the timeout of the queue made it persist;  *)
(* the result of periodic maintenance is ignored.                          *)
TimeoutDone(ok) ==
  /\ writer.cause \in {"gaps", "retry", "maintain"}
  /\ inner' = IF writer.cause = "maintain" THEN inner ELSE [inner EXCEPT !.healthy = ok]
  /\ Goto(CASE writer.cause = "gaps" -> "retry"
            [] writer.cause = "retry" -> "maintain"
            [] writer.cause = "maintain" -> "exit")
  /\ Commits(ok)
  /\ UNCHANGED <<reader, up, works>>

(* initialize seals what a former instance left open, in any order, before *)
(* the service is published.                                               *)
StartupBatch(open) ==
  LET n == Len(open) IN
  [i \in 1 .. n + 1 |->
     LET seq == inner.producer + i IN
     [event |-> IF i > n THEN NewEvent(seq, "service", None, 0)
                ELSE NewEvent(seq, "interrupted", open[i], 0),
      ack |-> FALSE]]

BootDone(ok) ==
  /\ writer.cause = "boot"
  /\ \/ /\ ok
        /\ \E open \in SetToSeqs(reader.state.open) :
             /\ writer' = [pc |-> "write", cause |-> "startup", batch |-> StartupBatch(open)]
             /\ inner' = [inner EXCEPT !.producer = @ + Len(open) + 1]
        /\ UNCHANGED up
     \/ ~ok /\ up' = "down" /\ writer' = Idle /\ UNCHANGED inner
  /\ Commits(ok)
  /\ UNCHANGED <<reader, works>>

StartupDone(ok) ==
  /\ writer.cause = "startup"
  /\ up' = IF ok THEN "running" ELSE "down"
  /\ writer' = Idle
  /\ Commits(ok)
  /\ UNCHANGED <<inner, reader, works>>

Done(ok) ==
  AppendDone(ok, inner.stopped) \/ TimeoutDone(ok) \/ BootDone(ok) \/ StartupDone(ok)

(* The lines of an append that was under way may be in the file in part.   *)
Torn(torn, max) ==
  {[lines |-> disk.journal.lines \cup {writer.batch[i].event : i \in 1 .. n}, torn |-> torn] :
     n \in 0 .. max}

Partial ==
  IF At("write") /\ ~disk.journal.torn
  THEN Torn(FALSE, Len(writer.batch)) \cup Torn(TRUE, Len(writer.batch) - 1)
  ELSE {}

(* A failed append is taken back from the file, which the next sync of the *)
(* file makes durable.  What is cut off a damaged file repairs it only if  *)
(* nothing was appended behind the damage.                                 *)
AppendFails ==
  /\ At("write")
  /\ Fault("io")
  /\ \/ disk' = [disk EXCEPT !.cut = @ \cup Partial]
     \/ /\ disk.journal.torn /\ reader.events \subseteq disk.journal.lines
        /\ disk' = [disk EXCEPT !.journal.torn = FALSE, !.cut = @ \cup {disk.journal}]
  /\ Done(FALSE)

(* ... or it cannot be taken back: recording stops, what is queued already *)
(* is still appended.                                                      *)
AppendDamages ==
  /\ At("write")
  /\ Fault("damage")
  /\ disk' = [disk EXCEPT !.journal.torn = TRUE, !.cut = @ \cup Partial]
  /\ AppendDone(FALSE, TRUE)

-----------------------------------------------------------------------------
(* compact and persist: a new file takes the place of the old one, and the *)
(* directory is synced.  Until a sync succeeds a power loss may bring back *)
(* each old file, with what had been cut off it.                           *)

CompactRename ==
  /\ At("compact")
  /\ disk' = [disk EXCEPT !.journal = [lines |-> reader.events, torn |-> FALSE],
                          !.cut = {},
                          !.old_journals = @ \cup disk.cut \cup {disk.journal}]
  /\ Goto("compacted")
  /\ UNCHANGED <<inner, reader, up, works, world, ghost>>

DirectorySynced == disk' = [disk EXCEPT !.old_journals = {}, !.old_saved = {}]

CompactSync ==
  /\ At("compacted")
  /\ DirectorySynced
  /\ Goto("persist")
  /\ UNCHANGED <<inner, reader, up, works, world, ghost>>

CompactFails ==
  /\ \/ At("compact") /\ Fault("io")
     \/ At("compacted") /\ Fault("sync")
  /\ \/ /\ writer.cause = "maintain" /\ Goto("persist")
        /\ UNCHANGED <<inner, reader, up, works, ghost>>
     \/ writer.cause # "maintain" /\ Done(FALSE)
  /\ UNCHANGED disk

PersistRename ==
  /\ At("persist")
  /\ disk' = [disk EXCEPT !.saved = reader.state, !.old_saved = @ \cup {disk.saved}]
  /\ Goto("persisted")
  /\ UNCHANGED <<inner, reader, up, works, world, ghost>>

PersistSync ==
  /\ At("persisted")
  /\ DirectorySynced
  /\ Done(TRUE)
  /\ UNCHANGED world

PersistFails ==
  /\ \/ At("persist") /\ Fault("io")
     \/ At("persisted") /\ Fault("sync")
  /\ Done(FALSE)
  /\ UNCHANGED disk

-----------------------------------------------------------------------------
(* The queue has been empty for a while; a message may arrive before the   *)
(* producers are locked out.                                               *)

Timeout ==
  /\ Running /\ At("idle") /\ inner.queue = <<>>
  /\ Goto("timeout")
  /\ UNCHANGED <<disk, inner, reader, up, works, world, ghost>>

(* Only an empty queue permits the head to cross dropped numbers.          *)
Mut_HeadAcross(state) == Max({state.next} \cup state.gaps)

HeadAcross(state) ==
  IF inner.queue = <<>> THEN Max({state.next} \cup state.gaps) ELSE state.next

TimeoutGaps ==
  /\ At("timeout")
  /\ LET filled == [reader.state EXCEPT !.gaps = @ \cup inner.pending]
     IN reader' = [reader EXCEPT !.state = [filled EXCEPT !.next = HeadAcross(filled)]]
  /\ writer' = IF inner.pending # {} \/ reader' # reader
               THEN [writer EXCEPT !.pc = "persist", !.cause = "gaps"]
               ELSE [writer EXCEPT !.pc = "retry"]
  /\ inner' = [inner EXCEPT !.pending = {}]
  /\ UNCHANGED <<disk, up, works, world, ghost>>

(* An unhealthy writer syncs the journal and tries once more.              *)
Tries == ~inner.healthy /\ ~inner.stopped

Retry ==
  /\ At("retry")
  /\ \/ /\ Tries
        /\ disk' = [disk EXCEPT !.cut = {}]
        /\ writer' = [writer EXCEPT !.pc = "persist", !.cause = "retry"]
     \/ ~Tries /\ Goto("maintain") /\ UNCHANGED disk
  /\ UNCHANGED <<inner, reader, up, works, world, ghost>>

RetryFails ==
  /\ At("retry") /\ Tries
  /\ Fault("io")
  /\ Goto("maintain")
  /\ UNCHANGED <<disk, inner, reader, up, works, ghost>>

(* Every minute; without anything to remove it changes nothing.            *)
Maintain ==
  /\ At("maintain")
  /\ Pruned(reader.events) # {}
  /\ reader' = prune(reader) /\ Removes(Pruned(reader.events))
  /\ writer' = [writer EXCEPT !.pc = "compact", !.cause = "maintain"]
  /\ UNCHANGED <<disk, inner, up, works, world>>

(* The loop goes on, or ends once recording was stopped.                   *)
LoopEnds ==
  /\ writer.pc \in {"maintain", "exit"}
  /\ writer' = [pc |-> IF inner.stopped THEN "none" ELSE "idle", cause |-> "none",
                batch |-> <<>>]
  /\ up' = IF inner.stopped THEN "finished" ELSE up
  /\ UNCHANGED <<disk, inner, reader, works, world, ghost>>

-----------------------------------------------------------------------------
(* Restart.                                                                *)

(* The files that may be found after a crash at this moment.               *)
JournalsLeft == {disk.journal} \cup disk.cut \cup disk.old_journals \cup Partial
StatesLeft == {disk.saved} \cup disk.old_saved

(* What a failed append or directory sync has left has not been made good  *)
(* by a later sync: a line may be missing, or be there again.              *)
Unsettled ==
  \/ disk.journal.torn
  \/ \E j \in {disk.journal} \cup disk.cut \cup disk.old_journals :
       ~(reader.events \subseteq j.lines) \/ j.lines \cap ghost.taken # {}

Forgotten ==
  /\ works' = [w \in Works |-> IF works[w].status = "new" THEN works[w]
                               ELSE [works[w] EXCEPT !.status = "gone"]]
  /\ writer' = [pc |-> "none", cause |-> "none", batch |-> <<>>]
  /\ inner' = [producer |-> 0, pending |-> {}, queue |-> <<>>, healthy |-> FALSE,
               stopped |-> FALSE]
  /\ reader' = [events |-> {}, state |-> NewState]
  /\ up' = "down"
  /\ ghost' = [ghost EXCEPT !.undone = @ \/ Unsettled]

Crash ==
  /\ up # "down"
  /\ Fault("crash")
  /\ disk' = [disk EXCEPT !.cut = @ \cup Partial]
  /\ Forgotten

(* The process ends after a shutdown.                                      *)
Exit ==
  /\ up = "finished"
  /\ Forgotten
  /\ UNCHANGED <<disk, world>>

(* initialize up to its compaction.  Power may have failed since the end   *)
(* of the last process, or fails before the next sync: nothing is shown in *)
(* between, so the files that are left then are chosen here.  A damaged    *)
(* tail is cut off.                                                        *)
initialize ==
  /\ up = "down"
  /\ \E journal \in JournalsLeft, saved \in StatesLeft :
       LET found == Replay(journal, saved) IN
       /\ disk' = [journal |-> [journal EXCEPT !.torn = FALSE], saved |-> saved,
                   cut |-> {journal}, old_journals |-> {}, old_saved |-> {}]
       /\ reader' = prune(track_tail(found))
       /\ ghost' = [ghost EXCEPT !.removed = @ \cup (found.events \ reader'.events),
                                 !.booted = found.state.next]
       /\ inner' = [producer |-> found.state.next, pending |-> {}, queue |-> <<>>,
                    healthy |-> TRUE, stopped |-> FALSE]
  /\ world' = [world EXCEPT !.instance = @ + 1, !.stopping = FALSE]
  /\ writer' = [pc |-> "compact", cause |-> "boot", batch |-> <<>>]
  /\ up' = "starting"
  /\ UNCHANGED works

(* An event grows older than the retention, not before it is persisted.    *)
Expire ==
  /\ Running /\ world.faults < MaxFaults
  /\ \E e \in reader.events :
       /\ e.seq > world.expired /\ \A s \in StatesLeft : e.seq <= s.next
       /\ world' = [world EXCEPT !.expired = e.seq, !.faults = @ + 1]
  /\ UNCHANGED <<disk, inner, reader, writer, up, works, ghost>>

Produce ==
  \E w \in Works : \/ Request(w) \/ RequestTimesOut(w) \/ RecordStarted(w)
                   \/ RecordOutput(w) \/ RecordFinished(w)

Write ==
  \/ Receive \/ AppendWrite \/ AppendSettles
  \/ CompactRename \/ CompactSync \/ PersistRename \/ PersistSync
  \/ Timeout \/ TimeoutGaps \/ Retry \/ Maintain \/ LoopEnds \/ initialize

Environment ==
  \/ ShutdownBegins \/ shutdown \/ Expire \/ Crash \/ Exit
  \/ AppendFails \/ AppendDamages \/ CompactFails \/ PersistFails \/ RetryFails

Next == Produce \/ Write \/ Environment

Spec == Init /\ [][Next]_vars

-----------------------------------------------------------------------------
(* page: at most limit events after a cursor, and the cursor to go on from *)
(* which jumps to the head only when no event is left before it.           *)
Mut_page(after, limit) ==
  LET later == {e \in reader.events : e.seq > after}
      shown == {e \in later : Cardinality({f \in later : f.seq < e.seq}) < limit}
      last == Max({after} \cup Seqs(shown))
  IN [events |-> shown, next_cursor |-> Max({last, reader.state.next})]

page(after, limit) ==
  LET later == {e \in reader.events : e.seq > after}
      shown == {e \in later : Cardinality({f \in later : f.seq < e.seq}) < limit}
      last == Max({after} \cup Seqs(shown))
  IN [events |-> shown,
      next_cursor |-> IF Cardinality(shown) < limit /\ \A e \in later : e.seq <= last
                      THEN Max({last, reader.state.next}) ELSE last]

-----------------------------------------------------------------------------
(* Properties.                                                             *)

HistoryTypeOK ==
  /\ up \in {"down", "starting", "running", "finished"}
  /\ writer.pc \in {"none", "idle", "write", "settle", "compact", "compacted", "persist",
                    "persisted", "timeout", "retry", "maintain", "exit"}
  /\ writer.cause \in {"none", "append", "gaps", "retry", "maintain", "boot", "startup"}
  /\ Len(inner.queue) <= QueueLimit
  /\ At("idle") => Cardinality(reader.events) <= MaxEvents
  /\ reader.state.next <= inner.producer \/ up = "down"

(* The events still on their way to the journal.                           *)
InFlight ==
  {inner.queue[i].event : i \in DOMAIN inner.queue}
  \cup (IF At("write") THEN BatchEvents ELSE {})

(* Writer::run: the head that collectors resume from never passes an event *)
(* that is still to be written.                                            *)
HeadBehindQueue == \A e \in InFlight : e.seq > reader.state.next

(* Every number given out since the start belongs to an event that is on   *)
(* its way or readable, or is reported as missing.                         *)
NothingVanishes ==
  Running =>
    \A n \in 1 .. inner.producer :
      n > ghost.booted =>
        \/ n \in Seqs(InFlight \cup reader.events)
        \/ n \in reader.state.gaps \cup inner.pending

(* enqueue and Writer::run: a number leads to an event or to a reported    *)
(* gap, and the head waits for the events before it.                       *)
NumbersKept == HistoryTypeOK /\ HeadBehindQueue /\ NothingVanishes

(* page: whoever goes on from next_cursor is shown every event that can be *)
(* read, and gets on while the head is ahead; what of the numbers given    *)
(* out since the start it passes without an event is a gap that is         *)
(* reported, or that the next append or timeout reports.                   *)
PageSkipsNothing ==
  Running =>
    \A after \in 0 .. inner.producer, limit \in 1 .. MaxPage :
      LET p == page(after, limit) IN
      /\ \A e \in reader.events : after < e.seq /\ e.seq <= p.next_cursor => e \in p.events
      /\ \A e \in InFlight : e.seq > after => e.seq > p.next_cursor
      /\ after < reader.state.next => after < p.next_cursor
      /\ \A n \in after + 1 .. p.next_cursor :
           n > ghost.booted => n \in Seqs(p.events) \cup reader.state.gaps \cup inner.pending

(* critical: a confirmed event survives a crash at any moment, until       *)
(* retention removes it; unless it was appended behind a piece of a failed *)
(* append that could not be taken back.                                    *)
AckedSurvives ==
  \A j \in JournalsLeft, s \in StatesLeft, e \in ghost.acked :
    e \in Replay(j, s).events \cup ghost.removed \cup ghost.behind

(* docs/observability.md: new work fails when its recording cannot be      *)
(* confirmed; so what was confirmed is found again.                        *)
ConfirmedIsRecorded ==
  \A j \in JournalsLeft, s \in StatesLeft, e \in ghost.acked :
    e \in Replay(j, s).events \cup ghost.removed

(* A healthy writer at rest has on disk all that its readers see: events,  *)
(* unsealed works, and a head that does not go back.  Besides, only events *)
(* come back that have expired, or that were reported lost by an append    *)
(* which failed and whose taking back was not durable.                     *)
DiskRebuildsReader ==
  Running /\ At("idle") /\ inner.healthy /\ ~disk.journal.torn
    => \A j \in JournalsLeft, s \in StatesLeft :
         LET found == Replay(j, s)
             back == {e \in found.events \ reader.events : e.seq > world.expired}
             Others(open) == {w \in open : \A e \in back : e.work # w}
         IN /\ reader.events \subseteq found.events
            /\ back \subseteq ghost.taken /\ Seqs(back) \subseteq reader.state.gaps
            /\ Others(found.state.open) = Others(reader.state.open)
            /\ found.state.next >= reader.state.next

(* initialize: a number never names two events, of those a state file has  *)
(* described, those that can be read and those on their way.               *)
NumbersAreUnique ==
  \A e, f \in ghost.committed \cup reader.events \cup InFlight : e.seq = f.seq => e = f

(* initialize: a work that a former instance left open is sealed once, and *)
(* what it sealed itself is not sealed again, as long as no process ended  *)
(* over the unsettled rest of a failed append or directory sync.           *)
SealedOnce ==
  Running /\ ~ghost.undone =>
    \A e \in reader.events :
      e.kind = "started" /\ e.born < world.instance =>
        Cardinality({f \in reader.events : f.work = e.work /\ f.kind \in Sealing}) = 1
=============================================================================
