-------------------------- MODULE HistoryInductive ---------------------------
(***************************************************************************)
(* The inductive invariant of History, from which HistoryProofs derives    *)
(* that numbers are neither lost nor given out twice, that pages skip      *)
(* nothing and that confirmed events survive a crash; and what it takes    *)
(* besides for the files to rebuild what readers see.                      *)
(***************************************************************************)
EXTENDS History

Pcs == {"none", "idle", "write", "settle", "compact", "compacted", "persist", "persisted",
        "timeout", "retry", "maintain", "exit"}
Causes == {"none", "append", "gaps", "retry", "maintain", "boot", "startup"}

Events ==
  {e \in [seq : Nat \ {0}, kind : Kinds, work : Works \cup {None}, offset : Nat, born : Nat] :
     e.kind \in {"output", "started", "finished", "interrupted"} => e.work \in Works}

(* What is confirmed is never output.                                      *)
Messages ==
  {m \in [event : Events, ack : BOOLEAN] :
     m.ack => m.event.kind \in {"requested", "service"}}

FiniteSets_(S) == {T \in SUBSET S : IsFiniteSet(T)}

States ==
  [next : Nat, earliest : Nat, gaps : FiniteSets_(Nat), open : FiniteSets_(Works),
   windows : [Works -> Nat]]
Journals == [lines : FiniteSets_(Events), torn : BOOLEAN]

Disks == [journal : Journals, saved : States, cut : SUBSET Journals,
          old_journals : SUBSET Journals, old_saved : SUBSET States]
Inners == [producer : Nat, pending : FiniteSets_(Nat), queue : Seq(Messages),
           healthy : BOOLEAN, stopped : BOOLEAN]
Readers == [events : FiniteSets_(Events), state : States]
Writers == [pc : Pcs, cause : Causes, batch : Seq(Messages)]
WorkStates == [status : {"new", "asked", "admitted", "open", "gone"}, output : Nat]
Worlds == [expired : Nat, faults : Nat, instance : Nat, stopping : BOOLEAN]
Ghosts == [acked : SUBSET Events, taken : SUBSET Events, behind : SUBSET Events,
           committed : SUBSET Events, removed : SUBSET Events, booted : Nat, undone : BOOLEAN]

Shape ==
  /\ disk \in Disks /\ inner \in Inners /\ reader \in Readers /\ writer \in Writers
  /\ up \in {"down", "starting", "running", "finished"}
  /\ works \in [Works -> WorkStates]
  /\ world \in Worlds /\ ghost \in Ghosts

(* What the writer can be at, and for which cause.                         *)
Phase ==
  /\ up = "down" => writer.pc \in {"none", "idle"}
  /\ up = "finished" => At("none")
  /\ writer.pc \in {"none", "idle"} => writer.cause = "none"
  /\ up = "starting" <=> writer.cause \in {"boot", "startup"}
  /\ up \in {"down", "starting"} => inner.queue = <<>>
  /\ writer.pc \in {"write", "settle"} => writer.cause \in {"append", "startup"}
  /\ writer.pc \in {"timeout", "retry", "maintain", "exit"} =>
       up = "running" /\ writer.cause # "append"
  /\ writer.cause \in {"append", "gaps", "retry", "maintain"} => up = "running"
  /\ writer.cause \notin {"append", "startup"} => writer.batch = <<>>
  /\ At("persisted") => disk.saved = reader.state

(* The files a crash can leave, without the lines of an unfinished append. *)
Complete == {disk.journal} \cup disk.cut \cup disk.old_journals

(* Every event that somebody may still see, or has seen.                   *)
Known ==
  ghost.committed \cup reader.events \cup InFlight \cup UNION {j.lines : j \in Complete}

(* Events and states in the order of their numbers.                        *)
Ordered(messages) ==
  \A i, j \in DOMAIN messages : i < j => messages[i].event.seq < messages[j].event.seq

(* A number has one event; nothing is above the producer, nothing that was *)
(* written above the head, and nothing that waits below it.                *)
Numbers ==
  /\ \A e, f \in Known : e.seq = f.seq => e = f
  /\ Ordered(inner.queue) /\ Ordered(writer.batch)
  /\ At("write") =>
       \A i \in DOMAIN writer.batch, k \in DOMAIN inner.queue :
         writer.batch[i].event.seq < inner.queue[k].event.seq
  /\ HeadBehindQueue
  /\ up # "down" =>
       /\ \A e \in Known \cup BatchEvents : e.seq <= inner.producer
       /\ \A n \in reader.state.gaps \cup inner.pending : n <= inner.producer
       /\ reader.state.next <= inner.producer
       /\ \A e \in ghost.committed \cup reader.events : e.seq <= reader.state.next
       /\ \A j \in Complete : \A e \in j.lines, f \in InFlight : e.seq < f.seq
       /\ \A s \in StatesLeft : s.next <= reader.state.next
  /\ \A s \in StatesLeft \cup {reader.state} : s.earliest <= s.next

(* Retention: too much only until it is applied, never what is ahead of a  *)
(* state file, and nothing that is still readable is missing in the file,  *)
(* unless it stands behind a damage.                                       *)
Retention ==
  /\ ~At("settle") => Cardinality(reader.events) <= MaxEvents
  /\ \A e \in reader.events : reader.state.earliest < e.seq
  /\ up # "down" /\ ~disk.journal.torn => reader.events \subseteq disk.journal.lines
  /\ \A j \in disk.cut : disk.journal.lines \subseteq j.lines
  /\ \A s \in StatesLeft : world.expired <= s.next

(* Output is numbered in the order of its offsets, and a state's windows   *)
(* do not retire what the state has not seen.                              *)
Windows ==
  /\ \A e, f \in Known :
       e.kind = "output" /\ f.kind = "output" /\ e.work = f.work /\ e.seq < f.seq
         => e.offset < f.offset
  /\ \A e \in Known : e.kind = "output" => e.offset < works[e.work].output
  /\ \A s \in StatesLeft \cup {reader.state} :
       /\ \A w \in Works : s.windows[w] <= works[w].output
       /\ \A e \in Known : e.kind = "output" /\ s.next < e.seq => s.windows[e.work] <= e.offset

(* What a state file has described is below the head of each that may be   *)
(* left: initialize does not give its number out again.                    *)
Cover == \A e \in ghost.committed, s \in StatesLeft : e.seq <= s.next

(* A confirmed event is readable and in every journal that may be left, and*)
(* no state file retires it; one that is about to be confirmed is in the   *)
(* current one.                                                            *)
Recorded(e, journals) ==
  /\ e.kind # "output"
  /\ up # "down" => e \in reader.events
  /\ \A j \in journals : e \in j.lines
  /\ \A s \in StatesLeft : s.earliest < e.seq

Asked ==
  IF ~At("write") /\ writer.cause = "append"
  THEN {writer.batch[i].event : i \in {i \in DOMAIN writer.batch : writer.batch[i].ack}}
  ELSE {}

Excused == ghost.removed \cup ghost.behind

Acknowledged ==
  /\ \A e \in ghost.acked \ Excused : Recorded(e, Complete)
  /\ \A e \in Asked \ Excused : Recorded(e, {disk.journal} \cup disk.cut)

(* NothingVanishes, from the start of the service on.                      *)
Accounted ==
  up \in {"starting", "running"} =>
    \A n \in 1 .. inner.producer :
      n > ghost.booted =>
        \/ n \in Seqs(InFlight \cup reader.events)
        \/ n \in reader.state.gaps \cup inner.pending

HistoryInv ==
  /\ Shape /\ Len(inner.queue) <= QueueLimit
  /\ Phase /\ Numbers /\ Retention /\ Windows /\ Cover /\ Acknowledged /\ Accounted

-----------------------------------------------------------------------------
(* Behind DiskRebuildsReader: reader and files agree on what is given up.  *)
Unretired(lines, state) == {e \in lines : ~Retired(e, state)}

(* What a window retires stands before something that is still readable,   *)
(* so a window that is forgotten with the last of a work is not missed.    *)
Latched(lines, r) ==
  \A e \in lines :
    Retired(e, r.state) /\ r.state.earliest < e.seq =>
      \E f \in r.events : f.work = e.work /\ e.seq < f.seq

Agree(lines, r) == Unretired(lines, r.state) \subseteq r.events /\ Latched(lines, r)

(* From the compaction of the start on the journal holds no line that has  *)
(* neither been retired nor can be read; the lines that were taken back    *)
(* but may return are reported.                                            *)
PastBoot == up # "down" /\ ~(writer.cause = "boot" /\ At("compact"))

Exact ==
  PastBoot =>
    /\ Agree(disk.journal.lines, reader)
    /\ \A s \in StatesLeft \cup {reader.state}, e \in reader.events : ~Retired(e, s)
    /\ \A j \in disk.cut : \A e \in j.lines :
         e \notin disk.journal.lines =>
           e \in ghost.taken /\ e.seq \in reader.state.gaps \cup inner.pending

(* Files that lag behind the reader only by what has expired, and by what  *)
(* was taken back.                                                         *)
InSync(lines, state) ==
  LET rebuilt == Unretired(lines, state) IN
  /\ state.next = reader.state.next /\ state.open = reader.state.open
  /\ reader.events \subseteq rebuilt
  /\ \A e \in rebuilt \ reader.events :
       \/ e.seq <= world.expired
       \/ e \in ghost.taken /\ e.seq \in reader.state.gaps

(* A running, healthy writer that has nothing to append: it is at rest, or *)
(* maintains, which is all that leaves the files behind unnoticed.         *)
Rests ==
  /\ up = "running" /\ inner.healthy /\ ~disk.journal.torn
  /\ \/ writer.pc \in {"idle", "timeout", "retry"}
     \/ (writer.pc \in {"maintain", "exit"} \/ writer.cause = "maintain") /\ ~inner.stopped

Mirrored == Rests => \A j \in Complete, s \in StatesLeft : InSync(j.lines, s)

Stopped == up # "down" /\ disk.journal.torn => inner.stopped

MirrorInv == Exact /\ Mirrored /\ Stopped
=============================================================================
