----------------------------- MODULE SyncCommit -----------------------------
(***************************************************************************)
(* One push: the plan that SyncManager::create_plan derives from two       *)
(* manifests, and the commit that carries it out with a rollback log       *)
(* (src/src/sync.rs, src/src/sync/files.rs, src/src/sync/transaction.rs).  *)
(* The module begins where every planned upload is acknowledged.           *)
(*                                                                         *)
(* A tree says of every path what is there: nothing, a directory, or a     *)
(* file, whose size, digest, time and executable bit are one value.  The   *)
(* root of the project is the empty path.                                  *)
(***************************************************************************)
EXTENDS Integers, Sequences, FiniteSets

CONSTANTS
  Paths,        \* Sequences of names, closed under parents, the root included.
  Contents,     \* What a file may hold.
  Selections,   \* The sets of paths that include and exclude globs may select.
  Faults        \* The faults the environment may inject.

(* "io": an operation on a file fails; "outside": somebody else writes to  *)
(* the project or its staging before the commit; "panic": the task does.   *)
ASSUME SyncFaultsAssumption == Faults \subseteq {"io", "outside", "panic"}
ASSUME SelectionsAssumption == Selections \subseteq SUBSET Paths
ASSUME PathsAssumption ==
  /\ Paths \subseteq Seq(STRING) /\ <<>> \in Paths
  /\ \A p \in Paths \ {<<>>} : SubSeq(p, 1, Len(p) - 1) \in Paths
ASSUME ContentsAssumption == Contents \cap {"none", "dir"} = {}

VARIABLES
  request,      \* The client's manifest, its filters, reset and delete_extra.
  fs,           \* The project.
  staged,       \* The uploads in the staging directory.
  plan,         \* CommitPlan.
  todo,         \* What of the plan the transaction has not done yet.
  log,          \* CommitTransaction::changes.
  errors,       \* Rollback met an error.
  pc,           \* The point the push has reached.
  seen,         \* The project when the plan was made.
  before        \* The project when the commit began.

vars == <<request, fs, staged, plan, todo, log, errors, pc, seen, before>>

Root == <<>>
Entries == Paths \ {Root}
Kinds == {"none", "dir"} \cup Contents
Trees == [Paths -> Kinds]
Empty == [p \in Paths |-> "none"]

Ancestor(q, p) == Len(q) < Len(p) /\ SubSeq(p, 1, Len(q)) = q
Below(t) == {p \in Paths : p = t \/ Ancestor(t, p)}
Parent(p) == SubSeq(p, 1, Len(p) - 1)
IsFile(k) == k \in Contents

(* What a file system can hold.                                            *)
WellFormed(tree) ==
  /\ ~IsFile(tree[Root])
  /\ \A p \in Entries : tree[p] # "none" => tree[Parent(p)] = "dir"

-----------------------------------------------------------------------------
(* Manifests and plans.                                                    *)

(* The entries of a tree that the filters select; the walk skips its root. *)
Listed(tree, selected) == {p \in Entries \cap selected : tree[p] # "none"}

(* synthesize_parent_dirs refuses a file above another entry and adds the  *)
(* directories that were not selected themselves.                          *)
ValidManifest(tree, selected) ==
  \A p, q \in Listed(tree, selected) : Ancestor(p, q) => tree[p] = "dir"

manifest(tree, selected) ==
  LET listed == Listed(tree, selected) IN
  [p \in Paths |-> IF p \in listed THEN tree[p]
                   ELSE IF p # Root /\ \E q \in listed : Ancestor(p, q) THEN "dir"
                   ELSE "none"]

(* A file of the client's stands where the server has a directory above p. *)
UnderReplacedDir(p, new, old) ==
  \E q \in Entries : Ancestor(q, p) /\ IsFile(new[q]) /\ old[q] = "dir"

(* What goes: what stands in the way, and with delete_extra what the       *)
(* client does not have.                                                   *)
Mut_Doomed(p, new, old, extra) ==
  \/ old[p] = "dir" /\ IsFile(new[p])
  \/ IsFile(old[p]) /\ new[p] = "dir"
  \/ extra /\ new[p] = "none"

Doomed(p, new, old, extra) ==
  \/ old[p] = "dir" /\ IsFile(new[p])
  \/ IsFile(old[p]) /\ new[p] = "dir"
  \/ UnderReplacedDir(p, new, old)
  \/ extra /\ new[p] = "none"

PlanFor(new, old, extra) ==
  [baseline |-> old,
   create_dirs |-> {p \in Paths : new[p] = "dir" /\ old[p] # "dir"},
   upload_files |-> {p \in Paths : IsFile(new[p]) /\ old[p] # new[p]},
   delete_files |-> {p \in Paths : IsFile(old[p]) /\ Doomed(p, new, old, extra)},
   delete_dirs |-> {p \in Paths : old[p] = "dir" /\ Doomed(p, new, old, extra)}]

Touched(pl) == pl.create_dirs \cup pl.upload_files \cup pl.delete_files \cup pl.delete_dirs

NoPlan == PlanFor(Empty, Empty, FALSE)

ClientManifest == manifest(request.client, request.selected)

Uploads(pl) == [p \in Paths |-> IF p \in pl.upload_files THEN ClientManifest[p] ELSE "none"]

Init ==
  /\ fs \in {tree \in Trees : WellFormed(tree)}
  /\ \E client \in [Entries -> Kinds], reset, extra \in BOOLEAN, selected \in Selections :
       /\ reset => selected = Paths
       /\ request = [client |-> [p \in Paths |-> IF p = Root THEN "none" ELSE client[p]],
                     selected |-> selected, reset |-> reset, delete_extra |-> extra]
  /\ staged = Empty /\ plan = NoPlan /\ todo = NoPlan /\ log = <<>> /\ errors = FALSE
  /\ pc = "new" /\ seen = Empty /\ before = Empty

(* create_plan; a reset compares with nothing and so uploads everything.   *)
create_plan ==
  LET old == IF request.reset THEN Empty ELSE manifest(fs, request.selected) IN
  /\ pc = "new"
  /\ ValidManifest(request.client, request.selected)
  /\ plan' = PlanFor(ClientManifest, old, request.delete_extra /\ ~request.reset)
  /\ staged' = Uploads(plan')
  /\ seen' = fs
  /\ pc' = "open"
  /\ UNCHANGED <<request, fs, todo, log, errors, before>>

(* The manifest is invalid, or the project cannot be read.                 *)
PlanRejected ==
  /\ pc = "new"
  /\ ~ValidManifest(request.client, request.selected) \/ "io" \in Faults
  /\ pc' = "rejected"
  /\ UNCHANGED <<request, fs, staged, plan, todo, log, errors, seen, before>>

Untouched == fs = seen /\ staged = Uploads(plan)

(* Somebody else changes one path of the project, or a staged upload.      *)
(* Bound: once in a push.                                                  *)
OutsideWrites ==
  /\ "outside" \in Faults
  /\ pc = "open" /\ Untouched
  /\ \E p \in Entries, k \in Kinds :
       \/ fs' = [fs EXCEPT ![p] = k] /\ WellFormed(fs') /\ UNCHANGED staged
       \/ k # "dir" /\ staged' = [staged EXCEPT ![p] = k] /\ UNCHANGED fs
  /\ UNCHANGED <<request, plan, todo, log, errors, pc, seen, before>>

-----------------------------------------------------------------------------
(* apply_commit                                                            *)

(* ensure_baseline_matches                                                 *)
Mut_BaselineMatches(p) == plan.baseline[p] # "none" => fs[p] = plan.baseline[p]

BaselineMatches(p) == fs[p] = plan.baseline[p]

(* Staging is as it was acknowledged.  The time and the executable bit of  *)
(* an upload are set when it is installed or the new tree is built.        *)
StagingIntact == \A p \in plan.upload_files : staged[p] = ClientManifest[p]

(* apply_reset builds the whole tree in staging and finds nothing else.    *)
RebuiltIntact == \A p \in Entries \ plan.upload_files : staged[p] = "none"

Checks ==
  /\ StagingIntact
  /\ IF request.reset THEN RebuiltIntact ELSE \A p \in Touched(plan) : BaselineMatches(p)

(* Nothing has been changed yet when a check refuses the commit.           *)
CommitChecks ==
  /\ pc = "open"
  /\ before' = fs
  /\ \/ Checks /\ pc' = IF request.reset THEN "reset" ELSE "root"
     \/ ~Checks /\ pc' = "refused"
     \/ "io" \in Faults /\ pc' = "failed"
     \/ "panic" \in Faults /\ pc' = "reupload"
  /\ todo' = plan
  /\ UNCHANGED <<request, fs, staged, plan, log, errors, seen>>

-----------------------------------------------------------------------------
(* CommitTransaction.  An entry of the log keeps what its target held, so  *)
(* that rollback can put it back.                                          *)

Held(t) == [p \in Below(t) |-> fs[p]]
Nothing(t) == [p \in Below(t) |-> "none"]
With(t, sub) == [p \in Paths |-> IF p \in Below(t) THEN sub[p] ELSE fs[p]]

Logged(kind, t) == log' = Append(log, [kind |-> kind, target |-> t, old |-> Held(t)])

IsEmptyDir(t) == fs[t] = "dir" /\ \A p \in Below(t) \ {t} : fs[p] = "none"
HasParent(t) == t = Root \/ fs[Parent(t)] = "dir"

Done(list, t) == todo' = [todo EXCEPT ![list] = @ \ {t}]

TransactionFrame == UNCHANGED <<request, plan, errors, seen, before>>

(* The operation on t fails with nothing done, or after the backup of what *)
(* stands there.                                                           *)
Breaks(t) ==
  /\ pc' = "rollback"
  /\ \/ UNCHANGED <<fs, log>>
     \/ /\ fs[t] # "none"
        /\ Logged("replaced", t)
        /\ fs' = With(t, Nothing(t))
  /\ UNCHANGED <<staged, todo>>
  /\ TransactionFrame

Refuses ==
  /\ pc' = "rollback"
  /\ UNCHANGED <<fs, log, staged, todo>>
  /\ TransactionFrame

(* create_dir, of the root and of what the plan lists.                     *)
create_dir(t) ==
  \/ /\ fs[t] = "dir"
     /\ UNCHANGED <<fs, log>>
  \/ /\ fs[t] = "none" /\ HasParent(t)
     /\ Logged("created", t)
     /\ fs' = [fs EXCEPT ![t] = "dir"]

CannotCreate(t) == IsFile(fs[t]) \/ ~HasParent(t) \/ "io" \in Faults

CreateRoot ==
  /\ pc = "root"
  /\ \/ /\ create_dir(Root)
        /\ pc' = "apply"
        /\ UNCHANGED <<staged, todo>>
        /\ TransactionFrame
     \/ CannotCreate(Root) /\ Refuses

delete_file(t) ==
  \/ fs[t] = "none" /\ UNCHANGED <<fs, log>>
  \/ /\ IsFile(fs[t])
     /\ Logged("replaced", t)
     /\ fs' = [fs EXCEPT ![t] = "none"]

DeleteFile(t) ==
  /\ pc = "apply" /\ t \in todo.delete_files
  /\ \/ /\ delete_file(t)
        /\ Done("delete_files", t)
        /\ UNCHANGED <<staged, pc>>
        /\ TransactionFrame
     \/ (fs[t] = "dir" \/ "io" \in Faults) /\ Refuses

(* Directories go deepest first, and only when nothing is left in them.    *)
delete_empty_dir(t) ==
  \/ fs[t] = "none" /\ UNCHANGED <<fs, log>>
  \/ /\ IsEmptyDir(t)
     /\ Logged("replaced", t)
     /\ fs' = [fs EXCEPT ![t] = "none"]

DeleteDir(t) ==
  /\ pc = "apply" /\ todo.delete_files = {}
  /\ t \in todo.delete_dirs /\ \A p \in todo.delete_dirs : Len(p) <= Len(t)
  /\ \/ /\ delete_empty_dir(t)
        /\ Done("delete_dirs", t)
        /\ UNCHANGED <<staged, pc>>
        /\ TransactionFrame
     \/ (fs[t] # "none" /\ ~IsEmptyDir(t)) /\ Refuses
     \/ "io" \in Faults /\ Refuses

(* Parents sort before what they contain.                                  *)
CreateDir(t) ==
  /\ pc = "apply" /\ todo.delete_files \cup todo.delete_dirs = {}
  /\ t \in todo.create_dirs /\ \A p \in todo.create_dirs : ~Ancestor(p, t)
  /\ \/ /\ create_dir(t)
        /\ Done("create_dirs", t)
        /\ UNCHANGED <<staged, pc>>
        /\ TransactionFrame
     \/ CannotCreate(t) /\ Refuses

(* install_file: what stands there is moved away before the staged file    *)
(* takes its place; then its time and mode are set.                        *)
InstallFile(t) ==
  /\ pc = "apply" /\ todo.delete_files \cup todo.delete_dirs \cup todo.create_dirs = {}
  /\ t \in todo.upload_files
  /\ \/ /\ fs[t] # "dir" /\ HasParent(t)
        /\ Logged("installed", t)
        /\ fs' = [fs EXCEPT ![t] = staged[t]]
        /\ staged' = [staged EXCEPT ![t] = "none"]
        /\ \/ Done("upload_files", t) /\ UNCHANGED pc
           \/ "io" \in Faults /\ pc' = "rollback" /\ UNCHANGED todo
        /\ TransactionFrame
     \/ (fs[t] = "dir" \/ ~HasParent(t)) /\ Refuses
     \/ "io" \in Faults /\ fs[t] # "dir" /\ Breaks(t)

(* replace_project: the staged tree takes the place of the whole project.  *)
ReplaceProject ==
  /\ pc = "reset"
  /\ \/ /\ Logged("installed", Root)
        /\ fs' = [ClientManifest EXCEPT ![Root] = "dir"]
        /\ staged' = Empty
        /\ todo' = NoPlan
        /\ pc' = "apply"
        /\ TransactionFrame
     \/ "io" \in Faults /\ Breaks(Root)

Settled == Touched(todo) = {}

CommitEnds ==
  /\ pc = "apply"
  /\ Settled
  /\ pc' = "committed"
  /\ UNCHANGED <<request, fs, staged, plan, todo, log, errors, seen, before>>

-----------------------------------------------------------------------------
(* CommitTransaction::rollback takes the log from its end and goes on      *)
(* after an error.                                                         *)

Change == log[Len(log)]

(* remove_created_path and remove_replacement_target remove only an empty  *)
(* directory.                                                              *)
CanUndo(c) ==
  LET t == c.target IN
  CASE c.kind = "created" -> fs[t] = "none" \/ IsEmptyDir(t)
    [] c.kind = "replaced" -> HasParent(t) /\ (fs[t] = "dir" => IsEmptyDir(t))
    [] c.kind = "installed" -> fs[t] # "none"

(* An installed file goes back to staging.                                 *)
StagedAgain(c) ==
  staged' = IF c.kind = "installed" THEN [staged EXCEPT ![c.target] = fs[c.target]] ELSE staged

Restores(c) == fs' = With(c.target, c.old) /\ StagedAgain(c)

(* The target is cleared but its backup does not come back.                *)
LosesBackup(c) ==
  /\ c.kind # "created" /\ c.old[c.target] # "none"
  /\ fs' = With(c.target, Nothing(c.target))
  /\ StagedAgain(c)

Mut_RollbackStep ==
  /\ pc = "rollback" /\ log # <<>>
  /\ \/ CanUndo(Change) /\ Restores(Change)
     \/ CanUndo(Change) /\ "io" \in Faults /\ LosesBackup(Change)
     \/ (~CanUndo(Change) \/ "io" \in Faults) /\ UNCHANGED <<fs, staged>>
  /\ log' = SubSeq(log, 1, Len(log) - 1)
  /\ UNCHANGED <<request, plan, todo, errors, pc, seen, before>>

RollbackStep ==
  /\ pc = "rollback" /\ log # <<>>
  /\ \/ CanUndo(Change) /\ Restores(Change) /\ UNCHANGED errors
     \/ /\ CanUndo(Change) /\ "io" \in Faults /\ LosesBackup(Change)
        /\ errors' = TRUE
     \/ /\ ~CanUndo(Change) \/ "io" \in Faults
        /\ errors' = TRUE /\ UNCHANGED <<fs, staged>>
  /\ log' = SubSeq(log, 1, Len(log) - 1)
  /\ UNCHANGED <<request, plan, todo, pc, seen, before>>

(* settle_transaction                                                      *)
RollbackEnds ==
  /\ pc = "rollback" /\ log = <<>>
  /\ pc' = IF errors THEN "reupload" ELSE "failed"
  /\ UNCHANGED <<request, fs, staged, plan, todo, log, errors, seen, before>>

(* commit_session finds that the worker did not settle.                    *)
WorkerPanics ==
  /\ "panic" \in Faults
  /\ pc \in {"root", "apply", "reset", "rollback"}
  /\ pc' = "reupload"
  /\ UNCHANGED <<request, fs, staged, plan, todo, log, errors, seen, before>>

Outcomes == {"rejected", "refused", "failed", "reupload", "committed"}

(* The push is over.                                                       *)
Over == pc \in Outcomes /\ UNCHANGED vars

Next ==
  \/ create_plan \/ PlanRejected \/ OutsideWrites \/ CommitChecks
  \/ CreateRoot \/ ReplaceProject \/ CommitEnds
  \/ \E t \in Entries : DeleteFile(t) \/ DeleteDir(t) \/ CreateDir(t) \/ InstallFile(t)
  \/ RollbackStep \/ RollbackEnds \/ WorkerPanics
  \/ Over

Spec == Init /\ [][Next]_vars

-----------------------------------------------------------------------------
(* Properties.                                                             *)

(* The type invariant: a plan never names the root of the project, and at  *)
(* every step of a commit and of its rollback the project is a tree.       *)
SyncTypeOK ==
  /\ fs \in Trees /\ WellFormed(fs)
  /\ staged \in Trees
  /\ errors \in BOOLEAN
  /\ pc \in {"new", "open", "root", "apply", "reset", "rollback"} \cup Outcomes
  /\ Touched(plan) \cup Touched(todo) \subseteq Entries
  /\ \A i \in DOMAIN log : /\ log[i].kind \in {"created", "replaced", "installed"}
                           /\ log[i].target \in Paths

(* CommitTransaction: a commit that fails without asking for a new upload  *)
(* leaves the project as it found it, whatever had been done and whatever  *)
(* went wrong on the way back.  The workflow keeps the clean marker of the *)
(* project on the strength of this.                                        *)
RollbackRestores == pc \in {"failed", "refused"} => fs = before

(* CommitTransaction: the project stays a tree, and a failed commit leaves *)
(* it as it was.                                                           *)
TreeKept == SyncTypeOK /\ RollbackRestores

(* What a push promises.  A reset installs the client's manifest and no    *)
(* more; otherwise the client's entries are there, what was under a        *)
(* directory that became a file is gone, delete_extra removes what the     *)
(* filters select, and everything else stays.                              *)
Promised ==
  LET new == ClientManifest
      old == manifest(before, request.selected)
  IN [p \in Paths |->
        IF p = Root THEN "dir"
        ELSE IF new[p] # "none" \/ request.reset THEN new[p]
        ELSE IF \E q \in Entries : Ancestor(q, p) /\ IsFile(new[q]) THEN "none"
        ELSE IF request.delete_extra /\ old[p] # "none" THEN "none"
        ELSE before[p]]

(* apply_commit and apply_reset: a commit that succeeds on the project the *)
(* plan was made for leaves exactly what was promised.                     *)
CommitMatches == pc = "committed" /\ (before = seen \/ request.reset) => fs = Promised

(* ensure_baseline_matches and delete_empty_dir: an incremental commit     *)
(* that succeeds has undone nothing that changed after the plan was made:  *)
(* what somebody wrote is still there, and what somebody removed, had the  *)
(* plan known of it, is still gone.                                        *)
NoLostEdit ==
  pc = "committed" /\ ~request.reset
    => \A p \in Entries :
         before[p] # seen[p] /\ (before[p] # "none" \/ plan.baseline[p] # "none")
           => fs[p] = before[p]

(* A commit that succeeds did what was promised and nothing else, also if  *)
(* the project changed under its plan.                                     *)
CommitIsRight == CommitMatches /\ NoLostEdit

(* The operation whose turn it is can be done.                             *)
OperationPossible ==
  /\ \A t \in todo.delete_files : fs[t] # "dir"
  /\ todo.delete_files = {} =>
       \A t \in todo.delete_dirs :
         (\A p \in todo.delete_dirs : Len(p) <= Len(t)) => fs[t] = "none" \/ IsEmptyDir(t)
  /\ todo.delete_files \cup todo.delete_dirs = {} =>
       \A t \in todo.create_dirs :
         (\A p \in todo.create_dirs : ~Ancestor(p, t)) => ~IsFile(fs[t]) /\ HasParent(t)
  /\ todo.delete_files \cup todo.delete_dirs \cup todo.create_dirs = {} =>
       \A t \in todo.upload_files : fs[t] # "dir" /\ HasParent(t)

(* create_plan, sort_paths and sort_paths_deepest_first: without filters,  *)
(* when nobody else writes, a plan passes its checks and its operations    *)
(* can be done in their order.                                             *)
PlanApplies ==
  request.selected = Paths =>
    /\ pc = "open" /\ Untouched => Checks
    /\ pc = "apply" /\ before = seen => OperationPossible

(* ensure_baseline_matches refuses a commit with "target changed since     *)
(* plan" (src/src/sync/files.rs:622): something did change.                *)
RefusedMeansChanged == pc = "refused" => ~Untouched
=============================================================================
