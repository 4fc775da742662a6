------------------------ MODULE SyncCommitInductive ------------------------
(***************************************************************************)
(* The inductive invariant behind the safety invariants of SyncCommit:     *)
(* what the log lets rollback restore, and what of the plan has been done. *)
(***************************************************************************)
EXTENDS SyncCommit

Requests ==
  [client : Trees, selected : Selections, reset : BOOLEAN, delete_extra : BOOLEAN]

Plans ==
  [baseline : Trees, create_dirs : SUBSET Paths, upload_files : SUBSET Paths,
   delete_files : SUBSET Paths, delete_dirs : SUBSET Paths]

(* An entry of the log, with all that was below its target.                *)
Changes ==
  UNION {[kind : {"created", "replaced", "installed"}, target : {t}, old : [Below(t) -> Kinds]]
           : t \in Paths}

Points == {"new", "open", "root", "apply", "reset", "rollback"} \cup Outcomes

Shape ==
  /\ request \in Requests
  /\ request.client[Root] = "none" /\ (request.reset => request.selected = Paths)
  /\ fs \in Trees /\ staged \in Trees /\ seen \in Trees /\ before \in Trees
  /\ plan \in Plans /\ todo \in Plans /\ log \in Seq(Changes)
  /\ errors \in BOOLEAN /\ pc \in Points

(* The entries that the plan compared the client's with.                   *)
Baseline == IF request.reset THEN Empty ELSE manifest(seen, request.selected)

(* The plan is that of create_plan, and only it is carried out.            *)
PlanFits ==
  /\ pc \in {"new", "rejected"} => plan = NoPlan
  /\ pc \in {"new", "open", "rejected"} => todo = NoPlan
  /\ pc \notin {"new", "rejected"} =>
       /\ ValidManifest(request.client, request.selected)
       /\ plan = PlanFor(ClientManifest, Baseline, request.delete_extra /\ ~request.reset)
  /\ todo.create_dirs \subseteq plan.create_dirs
  /\ todo.upload_files \subseteq plan.upload_files
  /\ todo.delete_files \subseteq plan.delete_files
  /\ todo.delete_dirs \subseteq plan.delete_dirs

(* The trees that are, or were, on disk.                                   *)
TreesFit ==
  /\ WellFormed(fs)
  /\ pc \notin {"new", "rejected"} => WellFormed(seen)
  /\ pc \notin {"new", "open", "rejected"} => WellFormed(before)

(* What an entry of the log holds is a tree of its own below the target.   *)
ChangeFits(c) ==
  /\ c.kind = "created" => c.old[c.target] = "none"
  /\ ~IsFile(c.old[c.target]) \/ c.target # Root
  /\ \A p \in Below(c.target) \ {c.target} : c.old[p] # "none" => c.old[Parent(p)] = "dir"

(* Whoever touches a path first logs what the project held there; what no  *)
(* entry of the log covers is still so.                                    *)
LogRestores ==
  /\ \A p \in Paths : (\A i \in DOMAIN log : p \notin Below(log[i].target)) => fs[p] = before[p]
  /\ \A i \in DOMAIN log : \A p \in Below(log[i].target) :
       (\A j \in 1 .. i - 1 : p \notin Below(log[j].target)) => log[i].old[p] = before[p]

LogFits ==
  /\ \A i \in DOMAIN log : ChangeFits(log[i])
  /\ pc \in {"new", "open", "rejected", "refused", "failed", "root", "reset"} =>
       log = <<>> /\ ~errors
  /\ pc \in {"refused", "failed", "root", "reset"} => fs = before
  /\ errors => pc \in {"rollback", "reupload"}
  /\ pc \in {"apply", "rollback"} /\ ~errors => LogRestores

(* A reset does nothing behind the exchange of the tree.                   *)
ResetFits ==
  /\ pc = "reset" => request.reset
  /\ pc = "root" => ~request.reset
  /\ pc \in {"apply", "committed"} /\ request.reset =>
       todo = NoPlan /\ fs = [ClientManifest EXCEPT ![Root] = "dir"]
  /\ pc = "committed" => Settled

(* What the operations done so far have made of the project.               *)
Reached(p) ==
  IF p \in plan.upload_files \ todo.upload_files THEN ClientManifest[p]
  ELSE IF p \in plan.create_dirs \ todo.create_dirs THEN "dir"
  ELSE IF \/ p \in plan.delete_files \ todo.delete_files
          \/ p \in plan.delete_dirs \ todo.delete_dirs THEN "none"
  ELSE before[p]

(* Deletions come first, uploads last.                                     *)
OrderFits ==
  /\ todo.delete_files \cup todo.delete_dirs # {} => todo.create_dirs = plan.create_dirs
  /\ todo.delete_files \cup todo.delete_dirs \cup todo.create_dirs # {} =>
       todo.upload_files = plan.upload_files

ProgressFits ==
  pc \in {"root", "apply", "committed"} /\ ~request.reset =>
    /\ \A p \in Touched(plan) : before[p] = plan.baseline[p]
    /\ \A p \in Entries : fs[p] = Reached(p)
    /\ \A p \in todo.upload_files : staged[p] = ClientManifest[p]
    /\ OrderFits
    /\ pc = "root" => todo = plan
    /\ pc # "root" => fs[Root] = "dir"

SyncCommitInv == Shape /\ PlanFits /\ TreesFit /\ LogFits /\ ResetFits /\ ProgressFits
=============================================================================
