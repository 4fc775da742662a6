# A verification project for VivadoServer

VivadoServer lets one client at a time drive Vivado on a shared machine: the
client creates a *workflow*, uploads its project, runs Vivado behind a pseudo
terminal, downloads the results and finishes. The server must never let two
clients at the same project, never report an end while a process is still
writing, and never offer a half written project for reuse, whatever is
cancelled, times out, fails, panics or loses power. This directory holds TLA+
models of the parts that carry these promises, the TLC runs that check them on
small instances, and TLAPS proofs for any number of workflows, sessions,
upload plans, paths, events and chunks of output: of every safety property the
runs check of the WorkflowManager, the SessionManager, the SyncManager and the
commit transaction and the archive, of all but two of History's, and of the two
refinements and the contract that tie the managers together.

All source paths below are relative to `src/`. `PROJECT.json` maps every
definition to the lines it models.

## 1. The system

| Part | Source | State | Operations | What makes it hard | What makes it correct |
|---|---|---|---|---|---|
| WorkflowManager | `workflow.rs` | registry (slot, shutting down); per workflow: status, flags, transfer count, an `RwLock` for activities | create, heartbeat, leases, push plan, commit, start, stop, finish, cancel; observer, cleanup worker and expiry in the background | everything is awaited between two looks at the state; a cleanup request may come at any of these points; tasks panic; shutdown | slot and statuses agree; a release leaves nothing behind; every cleanup ends |
| ProjectStore | `project.rs` | a clean/dirty marker on disk beside the project tree | mark_dirty, mark_clean, is_clean | rename is visible before it is durable; syncfs orders data and marker | clean on disk means a complete, durable tree |
| SessionManager | `session.rs`, `session/model.rs` | slot, degraded flag, sessions with status, output, input queue | create, stop, send input, read output, release, prune, shutdown | callers leave; inputs checked then queued; readers wait for notifications | slot covers the process; inputs are answered; readers wake |
| Session supervisor | `session/supervisor.rs` | locals of one task: stop reason, signals sent, leader exited, reader done | select over stop, tick, input, output; double scan; reap; drain | races of exit and stop; forks behind a scan; lost children; panics | ended means dead; a natural exit is told from a forced one |
| Process primitives | `session/process.rs` | the kernel's view of a process group | spawn, observe, signal, scan, reap | `/proc` is no snapshot; group numbers are reused | only our own group is signalled |
| Output buffer, UTF-8 decoder | `session/output.rs` | ring of chunks with a cursor, partial character | append, since, decode | limits and cursors at the boundary | bounded, contiguous, no lost character |
| SyncManager | `sync.rs`, `sync/model.rs` | the one permit, plans with their phase, staging, uploads and results, a count of failed cleanups | create, upload, commit, abort, abort_open, reap, shutdown, orphan removal | uploads race aborts, commits and expiry; removal fails; waiters sleep on a notification | one plan at a time; staging is kept as long as it is needed and then removed; results stay; waiters wake |
| Commit transaction | `sync/transaction.rs` | rollback log | apply, roll back | errors half way, twice | applied, rolled back, or reported as neither |
| Manifest, plan, files | `sync/files.rs` | none | validate, diff, hash | file/directory conflicts | the plan turns one tree into the other |
| AppRuntime | `runtime.rs`, `main.rs` | health, reaper tasks | initialize, supervise, shut down | order of shutdown, dying reapers | nothing accepted after shutdown began |
| History | `history.rs` | a journal and a state file; a bounded queue; what readers see | reserve, enqueue, append, compact, persist, page, recover | torn appends; rename before fsync; errors between append and state file; a full queue | no number lost or used twice, gaps reported, confirmed events survive, an interrupted work sealed once |
| Diagnostics archive | `diagnostics.rs` | bounded queue; per session counters, loss flags and a file | start, push, seal, wait; write, finish, rotate | sessions never wait for the writer; the writer reads their counters without a lock; limits; failing disks | a file is a prefix within the limits, its footer is true, a sealed archive is completed |
| HTTP, bodies, auth | `api.rs`, `body.rs`, `openapi.rs`, `error.rs`, `auth.rs` | response permits | routing | dropped futures | every permit returns |
| Workspace | `workspace.rs`, `workspace_read.rs` | none | path checks, streaming reads | links | stays inside the project |
| Configuration, logging, metrics | `config.rs`, `logging.rs`, `observability.rs` | none that is read back | – | – | – |

How they interact. The API calls the WorkflowManager, which owns the other
three managers of a request: it writes the marker through ProjectStore before
anything modifies a project, opens, commits and aborts plans of the
SyncManager, starts and stops sessions of the SessionManager, and polls them
from a task of its own, the observer. Everyone who needs exclusive access to a
workflow takes its activity lock (`activity`, a write lock for operations, a
try-lock for `finish`); leases of transfers count beside it. The managers do
not call back. Sessions and plans have lives of their own: Vivado exits, plans
expire, the supervisor ends.

## 2. Modules

```
ProjectStore                        SessionProcess
   |                                   |
WorkflowState                       SessionState
   |-- WorkflowPush                    |
   |-- WorkflowRun                  SessionSupervisor
   |-- WorkflowCleanup                 |
Workflow -- KeepsSessionContract -> SessionContract <- ImplementsContract -- Session
   |                                                                           |
   |--> WorkflowLifecycle (abstract)                             SessionInductive
   |                                                                |-- MCSession
WorkflowInductive                                                   |-- SessionProofs
   |-- MCWorkflow
   |-- WorkflowProofs - WorkflowRefinement

SyncManager                         SyncCommit
   |                                   |
SyncManagerInductive                SyncCommitInductive
   |-- MCSyncManager                   |-- MCSyncCommit
   |-- SyncManagerProofs               |-- SyncCommitProofs -- InductionLemmas

History                             Archive        SessionOutput
   |                                   |                |
HistoryInductive                    ArchiveInductive   SessionOutputInductive
   |-- MCHistory                       |                |
   |-- HistoryProofs                   +--------+-------+
         |-- InductionLemmas                    |-- MCSessionOutput
                                                |-- OutputProofs -- InductionLemmas
```

* **ProjectStore**: the marker as the service sees it (`marker`), the set of
  markers a power loss may leave (`disk`), whether the tree is complete
  (`tree`) and durable (`tree_on`), and the stage of the one marker write that
  runs (`mw`): syncfs, rename, directory fsync, ok or err. `StoreCrash` is a
  kill (page cache survives) or a power loss. A kill between rename and fsync
  lets the next process read a marker that is not durable yet; that is safe,
  since what it vouches for was synced before the rename.
* **WorkflowState**: registry, workflows, locks (`op[w]` is the point the
  holder of the write lock of `w` has reached, `idle` when nobody holds it) and
  the operations every handler shares: `request_cleanup`, `fail`, `terminal`
  (`TerminalAllowed`, `Publish`), `refresh_open_sync`.
* **WorkflowPush**: leases, plans, and the commit: dirty marker, apply, result,
  and the attempt to restore the clean marker when nothing was changed. The
  SyncManager appears as its workflow sees it (`plan`, `commit_result`).
* **WorkflowRun**: start, Vivado, observer, stop.
* **WorkflowCleanup**: finish, cancel, the cleanup worker round by round,
  panics and their recovery.
* **Workflow**: creation, heartbeats, expiry, retention, shutdown, restart, the
  next-state relation, fairness and the properties.
* **WorkflowLifecycle**: what a client is promised: one owner, the phases in
  order, stopping left only for an end, the marker untouched while results are
  read. `ImplementsLifecycle` is the refinement.
* **SessionContract**: what the WorkflowManager may assume of a session. It is
  the seam of the composition: `Session` implements it
  (`ImplementsContract`), and the workflow model moves its view of Vivado
  (`sess`) only along it (`KeepsSessionContract`).
* **SessionProcess**, **SessionState**, **SessionSupervisor**, **Session**: the
  process group with its leader, helpers and escaped helpers; the manager's and
  the supervisor's state; the supervisor's select, tick and end; the manager
  around it with its inputs.
* **SyncCommit**: one push in detail. A tree says of every path what is there;
  `manifest` is what filters select of it with its synthesized parents,
  `PlanFor` the plan between two manifests, and the commit performs the plan's
  operations one by one (`todo`), each with its entry in the rollback log
  (`log`). An operation may fail before or after it moved its target away;
  `RollbackStep` undoes the log from its end and may fail as well. What
  WorkflowPush calls `CommitRestores` (a commit that failed left the tree as it
  was) is here the property `RollbackRestores`.
* **SyncManager**: everything that changes the registry of plans. `plan[p]` is
  the phase of a plan, its permit, its staging directory with the files in it
  (`staging`, `staged`), what the client was told (`uploaded`) and what cleanup
  still owes; `task[t]` is the point a request, the reaper or shutdown has
  reached; `manager` has the permits, the `creating` lock's effects and the
  count of failed cleanups. A stretch of code under the data lock is one step;
  the activity lock is `HoldsActivity`.
* **SessionOutput**: bytes of the terminal through the streaming decoder into
  the ring, and a client that reads from it with a cursor: it begins to listen,
  looks, waits, is woken or times out. `decode` reads on from what waits;
  `Starts` and `Whole` say without any reading where the characters of the whole
  stream are, and that is what the cuts into reads are compared with.
* **Archive**: sessions on one side (`client`, `archive`), the writer on the
  other (`writer`, `file`), a bounded queue between. The writer's look at
  `final_info` and at `pending` are two steps; so are the counter and the send
  of a chunk.
* **History**: the journal and the state file with what a crash may leave of
  each (`JournalsLeft`, `StatesLeft`), the queue, the writer step by step, what
  readers see, and the restart from the files (`Replay`). `ghost` remembers
  what was confirmed, seen and removed, for the properties only.
* **WorkflowInductive**, **SessionInductive**, **SyncManagerInductive**,
  **SyncCommitInductive**, **HistoryInductive**, **ArchiveInductive**,
  **SessionOutputInductive**: the inductive invariants, as conjunctions of
  named parts. The MC modules extend them, so `INVARIANT IndInv` (`SessionInv`,
  `SyncManagerInv`, `SyncCommitInv`, `HistoryInv`, `ArchiveInv`, `OutputInv`)
  in a configuration has TLC check them before anybody tries to prove them.
* **WorkflowProofs**, **WorkflowRefinement**: the proofs about the workflow
  manager, one layer of the invariant after the other; then the life cycle, the
  releases and the contract of the sessions.
* **SessionProofs**: one layer per part of the invariant, what follows from it,
  and the refinement of the contract.
* **SyncManagerProofs**: for every action first a lemma that says what it
  leaves to its task and its plan, then one layer per part of the invariant
  that uses these and not the actions.
* **SyncCommitProofs**: what an entry of the rollback log restores, what the
  undo of the whole log restores, and how a plan's operations follow from each
  other; one lemma per step of the transaction.
* **HistoryProofs**: what an append, a compaction, a state file and a crash do
  to what can be read back, then the steps of the writer, of its users and of a
  restart.
* **OutputProofs**: what becomes of a session's output. Of Archive: how the
  chunks of a session are counted in a queue, a frame lemma for sessions a step
  is not about (`Around`), one lemma per step; then how the bytes of files add
  up, and what each step does to them. Of SessionOutput: what a push leaves in
  the ring (`RingKept`), what an answer says (`AnswersAreExact`), that a stream
  may be cut anywhere (`CutDecoding`) and that its text is the right one
  (`DecodedIsLossy`).
* **InductionLemmas**: the least element of a set of numbers and induction, both
  stated about sets, so that they can be cited without an operator parameter.

SyncCommit refines the inside of one action of WorkflowPush; SyncManager is the
registry around it, whose commit has SyncCommit's outcomes. SessionOutput and
Archive get the same text and share nothing else, so MCSessionOutput explores
one while the other rests.

Abstractions to know of when reading the models next to the code:

* One project. Workflows of different projects share only the slot, and a
  workflow keeps its project for life; the marker of another project is
  untouched by it.
* A request that waits for the activity lock has no state: it has read nothing
  it will use later. `stop_session` has (`failing`), because it reads first.
* One step per stretch of code between two awaits or unlocks. The `biased`
  select prefers a stop; a stop that arrives while the others are polled
  commutes with their step, so it is not modelled.
* `ClientRequested`, `WorkflowClosed`, `HeartbeatTimeout` and `ServiceShutdown`
  are one reason, `request`: the code treats them alike.
* `FallSilent` stands for the passing of the heartbeat timeout; timers
  elsewhere (TERM_GRACE, DRAIN_GRACE, CLEANUP_DEADLINE, ten seconds for a stop)
  are choices, so every order of timer and event is covered.
* Retention by time or by number is one action that may happen any time after
  retention began.
* The branch of `observe_session` for a session that is not found, and an input
  channel whose senders are gone, cannot happen: a session is retained until
  its workflow is released, and the session holds a sender.
* In SyncCommit the size, digest, time and executable bit of a file are one
  value, and filters are the set of paths they select. Operations of one kind
  are done in any order that keeps parents before children (or after them, for
  deletions); the code's alphabetical order is one of these. The checks of a
  commit are one step: the workflow owns the project while it commits, so an
  outside writer between a check and an operation is left out, as it is in the
  code's own promise.
* A poisoned registry mutex (`background_fault`) keeps ownership for good and
  ends all progress by design; it is left out.
* SyncManager: one project. The permit and the scan happen under the `creating`
  lock and are one step; a lookup is merged with the first lock taken after it.
  Streaming a body and renaming its temporary file are one step, since nobody
  sees the part before; a file that a cancelled upload still creates while its
  staging is removed is the removal that fails. Ticks of the reaper that find
  nothing are left out. A plan whose creation is refused and whose staging
  cannot be removed keeps it until the next start, as in the code
  (`abandoned`). Panics of accepted tasks only report degraded health and are
  left out. A `Notified` of Tokio hears `notify_waiters` from its creation on,
  which is why a waiter creates it before it looks.
* SessionOutput: a byte is ASCII, the first of two or three, or a continuation;
  a character is its width. Overlong forms and surrogates are replaced like any
  other wrong byte.
* Archive: a header and the reserve for a footer have size one; which finished
  files are expired is a choice, as is their age; the loss flags are two: those
  that end the queueing and those that end the writing. The server runs one
  session at a time, the archive does not rely on it, so `Slots` is a constant.
  A header that exceeds the limit of a session is excluded by the
  configuration (at least 4096 bytes).
* History: sessions and workflows are one kind of work, as they are recorded
  alike; `requested` is confirmed before `started` is recorded, as both
  managers do (`session.rs:149`, `workflow.rs:206`). A message carries one
  event; the journal is a set, gaps are sets of numbers, and the merging of gap
  ranges is left out. No event expires before it is persisted, and a batch is no
  longer than retention (`BatchLimit <= MaxEvents`).
* What a power loss does to History's files: a rename may be undone until a
  directory sync succeeds (`old_journals`, `old_saved`; one that failed changes
  nothing), and the truncation by which a failed append is taken back until the
  next sync of the journal (`cut`). If the truncation or the seek fails
  (`AppendDamages`) a piece of the append stays in the file; it is taken to end
  within a line, so a replay ends there, and what is appended later stands
  behind it (`ghost.behind`). A power loss may come any time after the last
  process died, so `initialize` chooses among the files that may be left; it
  shows nothing before its own compaction and state file are synced, and a crash
  in between starts from any of them again.

## 3. Runs

| Run | Instance | Checks | Distinct states |
|---|---|---|---|
| `workflow` | 2 workflows, 1 transfer; io, unreadable, panic, crash | `TypeOK`, `ReusableIsTrusted`, `SlotAgrees`, `VivadoHoldsSlot`, `PlanHasOwner`, `PatchesTrustedTree`, `PullingIsPublished`, `ReleaseSettles`, `ImplementsLifecycle`, `KeepsSessionContract` | 0.9 M |
| `liveness` | 1 workflow, 1 transfer; io, unreadable, crash, silence; `FairSpec` | `StoppingEnds`, `SilenceReleasesSlot`, `ShutdownCompletes` | 21 k |
| `lost_invalidation` | 1 workflow; unreadable | `InvalidationIsHonoured` is violated | – |
| `stale_stop` | 1 workflow, no fault | `PullingNeverFails` is violated | – |
| `session` | 2 sessions; wait, panic | `SlotCoversProcess`, `EndIsTrue` (`EndedMeansDead`, `ExitedIsNatural`, `OutputSealed`), `ImplementsContract` | 0.7 M |
| `terminal` | 1 session, 1 input, 1 chunk; io, panic, escape; `LiveSpec` | `InputsKept` (`SessionTypeOK`, `InputsAnswered`), `EndIsTrue`, `StopEnds` | 0.15 M |
| `push` | paths `a`, `a/b`, `a/c`, 2 contents, 3 filters; io, outside, panic | `TreeKept` (`SyncTypeOK`, `RollbackRestores`), `CommitIsRight` (`CommitMatches`, `NoLostEdit`), `PlanApplies` | 1.1 M |
| `push_filtered` | as `push`, no fault | `RefusedMeansChanged` is violated | – |
| `sync` | 2 plans, 1 file, 2 clients, 3 requests; io, crash | `PermitKept` (`SyncManagerTypeOK`, `PermitAgrees`), `StagingSafe` (`StagingKept`, `UploadsIntoOpenPlan`), `CleanupAgrees` (`NothingLeaks`, `DegradedAgrees`), `StoppedIsClean`, `WaitersWake`, `ResultsKept` | 1.3 M |
| `history` | 1 work, 5 numbers, 3 steps of the environment out of crash, io, sync, damage, large, stop and ageing; pages of 1 and 2 | `NumbersKept` (`HistoryTypeOK`, `HeadBehindQueue`, `NothingVanishes`), `PageSkipsNothing`, `AckedSurvives`, `DiskRebuildsReader`, `NumbersAreUnique`, `SealedOnce` | 971 k |
| `history_damaged` | 2 works, 3 numbers, 1 fault: damage | `ConfirmedIsRecorded` is violated | – |
| `output` | 4 bytes in any cut, ring of 4 bytes and 2 chunks; archive with 2 sessions, 2 chunks each, disk, panic | `RingIsExact` (`RingAgrees`, `OverrunIsExact`), `DecodesAll`, `ReaderReturns`; `ArchiveIsTrue` (`PendingAgrees`, `ArchivedIsPrefix`, `FooterIsTrue`), `WithinLimits`, `SealedCompletes` | 0.5 M |

Where a run checks a conjunction its parts are named in brackets.  What the
runs show:

* Whatever marker a restart finds, clean means a complete and durable tree that
  nobody writes to (`ReusableIsTrusted`), although the marker is written in
  three stages, each of which may fail or be cut by a power loss, a commit may
  fail half way, tasks panic, and cancellations come at any point.
* While Vivado may run, its workflow owns the slot and the project is durably
  dirty (`VivadoHoldsSlot`). The slot is released only with process, plan,
  transfers and lock settled (`ReleaseSettles`), never for the wrong workflow
  (`SlotAgrees`), and no plan is stranded (`PlanHasOwner`).
* Results are offered only after a successful exit and a durable clean marker
  (`PullingIsPublished`), incremental uploads only over a complete tree
  (`PatchesTrustedTree`).
* A session reported ended has no process left, although members fork behind
  the scan of `/proc` (`EndedMeansDead`); an exit reported as natural was not
  forced (`ExitedIsNatural`); output that is not marked truncated is complete
  (`OutputSealed`); no input is left unanswered (`InputsAnswered`).
* A commit that succeeds on the tree it was planned for leaves exactly what the
  push promised (`CommitMatches`) and never undoes what changed after the plan
  (`NoLostEdit`). One that fails leaves the project as it was or reports that
  it did not (`RollbackRestores`), although operations fail half done, rollback
  fails too, and files become directories and back. Every plan can be carried
  out in its order (`PlanApplies`, with the absence of deadlock).
* The one permit of the SyncManager is with the manager, a creation or the
  active plan, whatever fails or is cancelled (`PermitAgrees`); an upload never
  writes into a plan that is no longer open (`UploadsIntoOpenPlan`) and what it
  confirmed is there when the plan commits (`StagingKept`). Staging is always
  owned by someone who will remove it (`NothingLeaks`), the degraded count is
  that of the failed removals (`DegradedAgrees`), an outcome is not forgotten
  while it is being cleaned up (`ResultsKept`), and neither a waiter nor
  shutdown misses a commit that settles (`WaitersWake`, `StoppedIsClean`; the
  run also checks for deadlock).
* However output is cut into reads, its text is that of the whole
  (`DecodesAll`); a client without an overrun missed nothing, one with an
  overrun did (`OverrunIsExact`).
* An archive file is always a prefix of the output (`ArchivedIsPrefix`); one
  whose footer reports nothing missing is all of it, and every footer accounts
  for every chunk (`FooterIsTrue`), although a session seals without waiting and
  the writer reads its counters without a lock. Footers still to come are
  always within the total (`WithinLimits`).
* History loses no number without a gap (`NothingVanishes`) and lets no
  collector pass an event that is still to be written (`HeadBehindQueue`,
  `PageSkipsNothing`). A number names one event among all that a state file has
  described, that can be read and that are on their way (`NumbersAreUnique`). It
  does not reach further: after a failed directory sync the writer goes on, and
  an event that it shows before a state file is committed may vanish in a power
  loss, whereupon its number is given out again (section 6).
* From any files a crash can leave, confirmed events come back, unless they
  were appended behind a piece of an append that could not be taken back
  (`AckedSurvives`; that this exception happens is the finding
  `history_damaged`). What readers saw of a healthy, undamaged writer at rest
  comes back too; besides it only what has expired or was reported lost
  (`DiskRebuildsReader`). A work that a crash interrupted is sealed once, though
  the restart may crash as well, unless a process ended over what a failed
  append or directory sync had left unsettled (`SealedOnce`).
* Cleanups end, silent clients lose the slot, shutdown completes, stopped
  sessions end or leave the manager degraded, readers wake without their timeout, sealed archives are
  completed.

### Bounds

Two workflows are the interesting number: one that ends late, is cancelled or
fails, and the one that takes the slot after it; with the restart both may be
forgotten and one that was not used yet starts. Identifiers are used once, as
UUIDs are. One transfer suffices, since a transfer only counts. Two sessions for
the same reason; one input fills the queue (`QueueLength = 1`) or is in the
hands of the supervisor; one chunk tells read from unread output. Faults are
not bounded in number. A client that falls silent does to its workflow what
`cancel` does, so silence is left to the liveness run. `session`
leaves out failing signals and scans to stay within minutes; one session alone
(`terminal`) meets them, and leaves a child that is lost to `session`. Pushes start from
every pair of trees over the paths; two entries in a directory and two contents
give every kind of replacement. At most one outside write happens in a push
(`Untouched`).

In `sync` the second plan meets the leftovers of the first; three requests
(`MaxOps`, uploads are not counted) of two clients give a commit, an abort and
a creation that overlap, beside the reaper and shutdown; faults are not
bounded. One file suffices: uploads of different files do not touch. In
`history` five numbers (`MaxSeq`) take a work through its life with one more
event and an interruption, and exceed the queue and the batch of two; the
journal reaches the retention of five (`MaxEvents`), expiry removes events
before it does, and the tail of a work keeps one output (`TailBytes`). Three
steps of the environment (`MaxFaults` bounds faults, restarts and the growing
old of events together) are a crash during the recovery from another fault, or
a failed directory sync and the power loss that reveals it, each beside
expiry. `history_damaged` has two works, so that what is confirmed behind the
damage is new work. In `output` four bytes hold a character of three with its
neighbour, more than a read can hold and as much as the ring; the archive's
total holds one full session but not two, a queue of one is full at once, and
two chunks make a prefix. With two sessions and `MaxFiles = 2` the number of
files is never what stops one; a third session is out of TLC's reach here, and
that limit is covered by the proof (`LimitsAreKept`) alone.

Symmetry is used in safety runs only. Session, output and history runs allow
deadlock: when every identifier or number was used the service is idle. In
`sync` a state in which everything was used is told from a deadlock (`AtRest`).

### Fairness

* Steps of tasks that can run are weakly fair: Tokio polls every woken task.
  Clients and a Vivado that nobody stopped owe nothing. Faults owe nothing.
* `SF` on the marker's stages and on `CleanupAborts`: storage may fail again
  and again, not for ever. The code retries with a pause for exactly that
  reason (`cleanup_workflow`); with a disk that fails for ever it keeps the
  slot, on purpose.
* Transfers end once their workflow is being cleaned up: their token is
  cancelled (`LeaseDrop` with `cleanup_started`). A stopped session ends:
  `StopEnds` shows it of `Session`.
* In `LiveSpec`: ticks come every 50 ms and are preferred to input and output,
  so a tick that is possible again and again happens (`SF`); a signal, a scan
  and its confirmation succeed at some time; a process with SIGKILL pending
  ends, one outside the group owes nothing (`escaped`): the drain deadline must
  end the session without it.
* SessionOutput and Archive: the supervisor's notification, a reader's steps and
  the writer's loop are weakly fair: a task and a thread that wait for nobody.
  Printing, ending and timeouts owe nothing.
* `liveness` leaves out panics: when the task that spawns Vivado panics nobody
  can tell whether a process exists, and the code deliberately keeps the slot
  for good.

## 4. Findings

* **lost_invalidation** (`workflow.rs:1331`). A failure that is reported after
  the cleanup round looked for one asks for a dirty marker. `terminal` refuses
  to release such a workflow only if the release says the project is reusable.
  `is_clean` answers false for a marker it cannot read, so one passing read
  error lets the release through with the marker still clean.
* **stale_stop** (`workflow.rs:996`). `stop_session` reads the session status
  without a lock. Vivado exits, the observer publishes `pulling`, and the
  failing, invalidating cleanup comes after it: a workflow with published
  results fails, which neither the state diagram of `docs/architecture.md` nor
  the comment in `stop_session` allows.
* **push_filtered** (`sync/files.rs:620`). A parent is synthesized for the
  server only from a selected entry below it. With a filter that selects `a/b`
  but not `a`, and a server that has an empty or otherwise unselected `a`, the
  client's manifest has the parent and the server's has not: the plan creates a
  directory that exists, and the commit is refused as "target changed since
  plan", now and after every new plan.
* **history_damaged** (`history.rs:932`). When `set_len` or `seek` fails after a
  failed append, `stopped` refuses new records, but `run` ends only after a
  timeout of its queue. What is queued already is written behind the piece of
  the failed append, synced, and confirmed; every replay ends at that piece. So
  work starts whose request is in no history, although
  `docs/observability.md:239` lets new work fail when its recording cannot be
  confirmed.

## 5. Proofs

| Module | Theorem | States |
|---|---|---|
| WorkflowProofs | `TypeCorrect` | `Spec => []TypeOK`; the transfer counter never underflows |
| WorkflowProofs | `SlotAgreesAlways`, `PlanHasOwnerAlways` | `[]SlotAgrees`, `[]PlanHasOwner` |
| WorkflowProofs | `MarkerIsTrustworthy`, `VivadoHoldsSlotAlways`, `PatchesTrustedTreeAlways`, `PullingIsPublishedAlways` | the other safety invariants |
| WorkflowRefinement | `WorkflowImplementsLifecycle` | `Spec => ImplementsLifecycle` |
| WorkflowRefinement | `ReleaseIsSettled` | `Spec => ReleaseSettles`, an action property |
| WorkflowRefinement | `WorkflowKeepsSessionContract` | `Spec => KeepsSessionContract` |
| SessionProofs | `SessionInvariant` | `Spec => []SessionInv`, the inductive invariant |
| SessionProofs | `SlotIsCovered`, `EndsAreTrue`, `InputsAreKept` | `[]SlotCoversProcess`, `[]EndIsTrue`, `[]InputsKept` |
| SessionProofs | `SessionImplementsContract` | `Spec => ImplementsContract` |
| SyncManagerProofs | `SyncManagerInvariant` | `Spec => []SyncManagerInv`, the inductive invariant |
| SyncManagerProofs | `OnePermit`, `StagingIsSafe`, `CleanupIsOwed`, `ShutdownIsClean`, `WaitersAreWoken` | `[]PermitKept`, `[]StagingSafe`, `[]CleanupAgrees`, `[]StoppedIsClean`, `[]WaitersWake` |
| SyncManagerProofs | `ResultsAreKept` | `Spec => ResultsKept`, an action property |
| SyncCommitProofs | `SyncCommitInvariant` | `Spec => []SyncCommitInv`, the inductive invariant |
| SyncCommitProofs | `TreeIsKept`, `CommitIsAlwaysRight`, `PlanAlwaysApplies` | `[]TreeKept`, `[]CommitIsRight`, `[]PlanApplies` |
| HistoryProofs | `HistoryInvariant` | `Spec => []HistoryInv`, the inductive invariant |
| HistoryProofs | `NumbersAreKept`, `NumbersStayUnique`, `ConfirmedSurvives`, `PagesSkipNothing` | `[]NumbersKept`, `[]NumbersAreUnique`, `[]AckedSurvives`, `[]PageSkipsNothing` |
| OutputProofs | `ArchiveInvariant` | `ArchiveSpec => []ArchiveInv`, the inductive invariant |
| OutputProofs | `ArchivesAreTrue`, `LimitsAreKept` | `ArchiveSpec => []ArchiveIsTrue`, `ArchiveSpec => []WithinLimits` |
| OutputProofs | `OutputInvariant` | `Spec => []OutputInv`, the inductive invariant of SessionOutput |
| OutputProofs | `RingIsKept`, `NothingIsGarbled` | `Spec => []RingIsExact`, `Spec => []DecodesAll` |

With `SessionImplementsContract` on one side and
`WorkflowKeepsSessionContract` on the other the seam between the two models is
proved from both: whatever the supervisor does is a step of `SessionContract`,
and the workflow's view of Vivado moves along nothing else.

### Assumptions

They are named in the modules that declare the constants, and TLC evaluates
them in every run of a module that extends these.

* Workflow: any set of workflows, any `MaxTransfers`, any subset of the faults:
  `FaultsAssumption` (the fault names), `NoneAssumption` (`None` is no
  workflow), `TransfersAssumption` (`MaxTransfers` is a natural number).
* Session: any set of sessions and of inputs, any number of chunks and any
  queue length: `FaultsAssumption`, `OutputAssumption`, `NoneAssumption`,
  `LimitsAssumption`.
* SyncManager: `SyncManagerAssumption`: any set of clients and of files, any
  `MaxOps` and `MaxRetained` (at least one), any subset of the faults, reaper
  and shutdown as two tasks of their own, and any finite set of plans. Finite, because the manager counts
  plans (the failed cleanups, the retained results), and the model's counts are
  cardinalities.

* SyncCommit: `SelectionsAssumption` (a filter selects paths),
  `PathsAssumption` (paths are sequences of names, the root is one and with a
  path its parent is), `ContentsAssumption` (no content is `none` or `dir`),
  `SyncFaultsAssumption`. Neither paths nor contents need be finite.
* History: `HistoryAssumption`: queue, batch, retention, tail, the garbage that
  causes a compaction and the largest page are at least one, and a batch is not
  larger than the retention; `None` is no work. Any set of works, any `MaxSeq`, any `MaxFaults`. In
  the code a batch takes no further message once it has 256 events
  (`history.rs:980`), and 100 000 are retained (`MAX_EVENTS`).
* Archive: `ArchiveAssumption`: sizes of chunks, the queue, the files and the
  slots are at least one, and a session's limit holds at least header and
  footer and is at most the total. Any set of sessions, any `MaxTexts`.
* SessionOutput: `OutputAssumption`: both limits of the ring are at least one.
  Any `MaxInput`: the bound of the runs on the length of a stream is none here.

### The inductive invariants

None of the properties above is inductive alone; each depends on what the code
at some other point of some other task knows. TLC checked each strengthening on
the instance of its runs first.

**`IndInv`** (WorkflowInductive) has five layers, each inductive given the ones
before it:

1. `TypeOK`;
2. `SlotInv`: who holds slot, lock and session. Whoever is past the first check
   of an operation holds the lock of the slot's owner (`HolderOwns`), so two
   operations never overlap; `StatusFits` and `SessionFits` say which
   operations and sessions a status and a point allow;
3. `PlanInv`: the one marker write belongs to the operation that waits for it
   (`MarkerFits`), a plan that is open or committing to the owner (`PlanFits`,
   `PlanHasOwner`);
4. `TreeInv`: the marker was durably dirty before anything could write
   (`DirtyBeforeWriting`), and wherever an operation marks the project clean,
   or remembers that it was, the tree is complete (`TreeFits`, `Baseline`);
5. `ReleaseInv`: whoever holds the write lock has seen the last transfer go,
   and a marker that the last round of a cleanup read as clean is not written
   before the release.

`ReleaseSettles` is then proved of the three actions that can end a workflow
(`OnlyAnEndReleases`, `EndSettles`). The refinement uses the same invariant:
that `reusable` does not change while a workflow is pulling follows from
`HolderOwns` and `MarkerFits`; that a session is started only while nobody
holds a process, and forgotten only when it has none, from `HolderOwns`,
`SlotAgrees` and `VivadoHoldsSlot`.

**`SessionInv`** (SessionInductive) says for each session what the point of its
supervisor implies. `SlotFits`: the slot is held from the reservation until the
end was published, and for good by a supervisor that was lost, which leaves the
manager degraded. `GroupFits`: nothing is left of a process that was not
started, the leader is reaped only once its group is gone, and a scan is only
confirmed of a group in which every member has SIGKILL pending and no fork was
hidden from it. `ReasonFits`: nothing is signalled, scanned or reaped without a
reason to stop, and a natural exit is one of a leader nobody signalled.
`OutputFits`: a terminal read to its end has been published and nobody writes to
it any more. `InputFits`: an outstanding input is with a supervisor that will
answer it. `EndIsTrue` needs all but the last. The view the contract has of a
session (`SessionView`) depends on its status and on what may be left of its
group; `ContractStep` shows of every action that it moves the view by a step of
the contract or not at all. That only our own group is signalled is no property
here: every step that signals, the drop of a panicking supervisor included, has
the check of `identity_owned` as its guard.

**`SyncManagerInv`** (SyncManagerInductive) relates tasks, plans and manager.
`Shape` and `TaskFits` say which operation reaches which point with a plan in
hand; `PlanFits` what each phase of a plan implies for permit, staging and what
cleanup owes; `DownFits` that a new process finds no task and nothing
registered. `PermitFits` counts the one permit. `UploadFits`: whoever holds the
activity lock writes to an open plan. `CommitFits`: a committing plan has exactly
one task that commits it. `CleanupFits`: its staging is removed by one task at a
time and only while that is owed, and what a pruner has in hand has ended and is
clean. `CloserFits`: behind its drain
shutdown is alone, and every plan still active is before it. `DegradedAgrees`
and `WaitersWake` are properties of the run that are parts of the strengthening
too. The count of degraded cleanups is where finite cardinalities come in, and
`WaitersWake` rests on `CommitFits`: the notification a waiter sleeps on is owed
by a task that still has the settlement of that plan before it.

**`SyncCommitInv`** (SyncCommitInductive) relates project, plan and log.
`PlanFits`: the plan is the one `create_plan` made and only it is carried out.
`LogRestores`: whoever touches a path first logs what the project held there,
with all below it, and what no entry covers is as it was before the commit.
From that `RollbackRestores` follows by an induction over the log, from its end:
what is restored last is what was logged first. `ProgressFits` says what the
operations done so far have made of every path (`Reached`) and in which order
they come (`OrderFits`: deletions, then directories, uploads last);
`CommitMatches` is that with nothing left to do, and `PlanApplies`, that a
parent is there whenever an operation needs it, is an induction over the
ancestors of a path.

**`HistoryInv`** (HistoryInductive). `Phase`: what the writer can be at, and
for which cause. `Numbers`: a number has one event in everything a state file
has described, anybody may see or a crash may leave (`Known`); queue and batch
are in order, nothing written is above the head and nothing that waits is below
it. `Retention`: there are too many events only until the retention is applied,
and what can be read is in the current journal, unless that is damaged; what a
failed append had cut off may only come back on top of it. `Windows`: the
windows of a state file do not retire output which that state has not seen.
`Cover`: what a state file has described is below the `next` of every state file
that may be left, so `initialize` does not give its number out again. That is
all that survives a failed directory sync: the events shown since the last
committed state file are in the current journal alone. `Acknowledged`: a
confirmed event is readable and in every journal that may be left, unless it was
removed by retention or stands behind a damage; one that is about to be
confirmed is in the current journal (`Asked`), and the directory sync that comes
before the answer settles which journal that is. `Accounted`: every other number
since the start is in flight, readable or in a gap. The hard step is the
restart, which meets any of the files a crash may leave: an old or the new
journal, with or without what was cut off, with any state.

What the files give back (`DiskRebuildsReader`) is behind `MirrorInv`
(HistoryInductive): no line of the journal is neither readable nor retired by
the reader's state (`Exact`), a window that retired output is remembered as long
as something of its work can be read (`Latched`), and a healthy writer with
nothing to append has on disk a state that lags behind its reader by expired
events alone (`Mirrored`). TLC finds `MirrorInv` invariant; it is not proved.
**`ArchiveInv`** (ArchiveInductive) has for each session what holds in any case
(`ClientFits`; `FileFits`: a file that is closed was sealed and awaits nothing,
so its footer stays true) and what holds while the writer lives. `PendingFits`:
`pending` counts the chunks that are queued, in the writer's hand or about to be
sent. `AccountFits`: written, lost, queued, in hand and still to come add up to
what was observed (`Balance`). `ChunksFit`: until something fatal happens the
writer gets the chunks one by one, behind the command that starts their file.
That the seal and the writer's look at `pending` may come in any order is what
`IssuesFit` and `StartFits` are for. `LimitsInv` adds what `WithinLimits` needs:
each file that is open keeps room for its footer, in its session's limit and in
the total. The bytes of files are counted as a set of places, one for each byte
of each file, so the sum over any finite set of files is a cardinality and the
library's theorems on finite sets apply; that the set is finite is part of the
invariant.

**`OutputInv`** (SessionOutputInductive) has two halves. `RingInv`: the chunks
of the ring have the last numbers given (`Consecutive`), the counters and limits
agree (`Bounded`), and of the chunks that lost their beginning the ring only
remembers the last (`Truncations`): everything behind it is as it was pushed, it
is not. That one number is enough: a cursor at or before it gets an answer
without the whole of that chunk, a cursor behind it gets all. `DecodeInv`: what
was pushed and what waits are what one reading of the whole input would give.
That a read keeps it is `CutDecoding`: reading `bytes \o more` gives the text of
`bytes`, then that of what waits with `more`. It is an induction over where the
reading stands, from the end of the stream backwards, because a reading looks
only at what comes behind it; `DecodedIsLossy`, that a reading finds exactly
the characters of `Starts` and `Whole`, is another. The decoder is a recursive
function whose existence is proved the same way (`DecodingExists`), and sizes
are cardinalities, as in Archive.

The step proofs have one case per action. Where an induction is needed
(`InductionLemmas`) it is stated about the set of numbers for which something
holds, since the provers cannot instantiate an operator.

### Only model-checked

* Liveness (`StoppingEnds`, `SilenceReleasesSlot`, `ShutdownCompletes`,
  `StopEnds`, `ReaderReturns`, `SealedCompletes`): fairness and `ENABLED` are
  out of the prover's reach.
* `DiskRebuildsReader`, and `MirrorInv` behind it.
* `SealedOnce`, for works whose start can still be read: retention removes the
  oldest events first, so a seal never goes before the start. It leaves out what
  comes after a process that ended over unsettled files (`Unsettled`,
  `ghost.undone`): an append that failed and was taken back may stand in the
  journal again after a power loss, a rename whose directory sync failed may be
  undone, and a damaged journal ends before the seal.

## 6. Not modelled

* The supervision of the reapers (`runtime.rs:186`): one await and one store
  that reports degraded health.
* Pull plans, downloads, manifests of the server, status: they read only.
* Body permits (`body.rs`): a permit is dropped with its stream; nothing else
  happens to it.
* The text of events, records and responses; the merging of gap ranges.
* A header of the archive that can neither be completed nor removed: an error
  of error handling that ends the component for good.
* What the models reach and no property forbids. Shutdown drops a message queued
  after the writer's last look (`history.rs:1059`). A head that has crossed
  dropped numbers is shown before the state file that describes it
  (`history.rs:1035`, `1041`), so a crash takes it back. After a failed
  directory sync (`history.rs:896`) the writer goes on: what is appended before
  the next state file is readable, and a power loss that brings the old journal
  back removes it and gives its number out again. And a crash between a
  compaction and the state file loses the description of the gaps that
  retention made (`history.rs:966`), as does one before the state file for
  numbers that were dropped or failed to be written; of
  `docs/observability.md:238`, "Queue pressure, disk errors and retention
  produce explicit gap metadata", the properties therefore claim no more than
  that the running service reports every number given out since its start.
* Routing, schemas, token comparison, path checks and reads of files, hashing,
  configuration, logging and metrics: stateless, or nobody reads it back. The
  raw system calls that set up a terminal.

## 7. Plan

Done: the marker, the workflow and the session with their contract; the plan
and commit of a push; the SyncManager; History; output, readers and the
archive; and the proofs of the safety properties the passing runs check but two
of History's. What is left: the proof of `MirrorInv` and with it of
`DiskRebuildsReader`, and of `SealedOnce`.
