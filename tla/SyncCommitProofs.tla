-------------------------- MODULE SyncCommitProofs --------------------------
(***************************************************************************)
(* Proofs about SyncCommit: the inductive invariant, and from it that a    *)
(* failed commit restores the project, that a commit does what it promised *)
(* and that a plan can be carried out in its order.                        *)
(***************************************************************************)
EXTENDS SyncCommitInductive, InductionLemmas, SequenceTheorems, TLAPS

-----------------------------------------------------------------------------
(* Paths.                                                                  *)

(* A path is a sequence of names.                                          *)
LEMMA PathIsSeq ==
  ASSUME NEW p \in Paths
  PROVE  p \in Seq(STRING) /\ Len(p) \in Nat
BY PathsAssumption, LenProperties

(* Only the root is empty.                                                 *)
LEMMA EntryLength ==
  ASSUME NEW p \in Entries
  PROVE  Len(p) \in Nat /\ Len(p) > 0
<1>1. p \in Seq(STRING) /\ p # <<>>
  BY PathsAssumption DEF Entries, Root
<1> QED
  BY <1>1, EmptySeq

(* The first names of a path.                                              *)
LEMMA Prefix ==
  ASSUME NEW p \in Paths, NEW n \in 0 .. Len(p)
  PROVE  /\ SubSeq(p, 1, n) \in Seq(STRING)
         /\ Len(SubSeq(p, 1, n)) = n
         /\ \A i \in 1 .. n : SubSeq(p, 1, n)[i] = p[i]
<1>1. Len(p) \in Nat /\ p \in Seq(STRING)
  BY PathIsSeq
<1>2. \A i \in 1 .. n : p[i] \in STRING
  BY <1>1, ElementOfSeq
<1>3. 1 \in Int /\ n \in Int
  BY <1>1
<1> QED
  BY <1>1, <1>2, <1>3, SubSeqProperties

(* Ancestor, element by element                                            *)
LEMMA AncestorIsPrefix ==
  ASSUME NEW q \in Paths, NEW p \in Paths
  PROVE  Ancestor(q, p) <=> Len(q) < Len(p) /\ \A i \in 1 .. Len(q) : q[i] = p[i]
<1>1. Len(p) \in Nat /\ Len(q) \in Nat /\ q \in Seq(STRING)
  BY PathIsSeq
<1>2. ASSUME Len(q) < Len(p)
      PROVE  SubSeq(p, 1, Len(q)) = q <=> \A i \in 1 .. Len(q) : q[i] = p[i]
  <2>1. /\ SubSeq(p, 1, Len(q)) \in Seq(STRING)
        /\ Len(SubSeq(p, 1, Len(q))) = Len(q)
        /\ \A i \in 1 .. Len(q) : SubSeq(p, 1, Len(q))[i] = p[i]
    BY <1>1, <1>2, Prefix
  <2>2. ASSUME \A i \in 1 .. Len(q) : q[i] = p[i]
        PROVE  SubSeq(p, 1, Len(q)) = q
    <3>1. \A i \in 1 .. Len(SubSeq(p, 1, Len(q))) : SubSeq(p, 1, Len(q))[i] = q[i]
      BY <2>1, <2>2
    <3> QED
      BY <3>1, <2>1, <1>1, SeqEqual
  <2> QED
    BY <2>1, <2>2
<1> QED
  BY <1>2 DEF Ancestor

(* The parent of an entry is a path of the project.                        *)
LEMMA ParentFacts ==
  ASSUME NEW p \in Entries
  PROVE  /\ Parent(p) \in Paths
         /\ Len(Parent(p)) = Len(p) - 1
         /\ Ancestor(Parent(p), p)
<1>1. p \in Paths /\ Parent(p) \in Paths
  BY PathsAssumption DEF Entries, Parent, Root
<1>2. Len(p) \in Nat /\ Len(p) > 0
  BY EntryLength
<1>3. Len(Parent(p)) = Len(p) - 1 /\ \A i \in 1 .. Len(p) - 1 : Parent(p)[i] = p[i]
  <2>1. Len(p) - 1 \in 0 .. Len(p)
    BY <1>2
  <2> QED
    BY <1>1, <2>1, Prefix DEF Parent
<1> QED
  BY <1>1, <1>2, <1>3, AncestorIsPrefix

(* What is above an ancestor of p is above p.                              *)
LEMMA AncestorTransitive ==
  ASSUME NEW q \in Paths, NEW r \in Paths, NEW p \in Paths, Ancestor(q, r), Ancestor(r, p)
  PROVE  Ancestor(q, p)
<1>1. Len(p) \in Nat /\ Len(q) \in Nat /\ Len(r) \in Nat
  BY PathIsSeq
<1> QED
  BY <1>1, AncestorIsPrefix

(* What is above p is its parent or above its parent.                      *)
LEMMA AncestorOfParent ==
  ASSUME NEW q \in Paths, NEW p \in Paths, Ancestor(q, p)
  PROVE  p \in Entries /\ (q = Parent(p) \/ Ancestor(q, Parent(p)))
<1>1. Len(p) \in Nat /\ Len(q) \in Nat /\ q \in Seq(STRING)
  BY PathIsSeq
<1>2. Len(q) < Len(p) /\ \A i \in 1 .. Len(q) : q[i] = p[i]
  BY AncestorIsPrefix
<1>3. p \in Entries
  BY <1>1, <1>2, EmptySeq DEF Entries, Root
<1>4. Len(p) - 1 \in 0 .. Len(p) /\ Parent(p) \in Paths
  BY <1>1, <1>2, <1>3, ParentFacts
<1>5. /\ Parent(p) \in Seq(STRING) /\ Len(Parent(p)) = Len(p) - 1
      /\ \A i \in 1 .. Len(p) - 1 : Parent(p)[i] = p[i]
  BY <1>4, Prefix DEF Parent
<1>6. CASE Len(q) = Len(p) - 1
  <2>1. \A i \in 1 .. Len(q) : q[i] = Parent(p)[i]
    BY <1>2, <1>5, <1>6
  <2> QED
    BY <2>1, <1>1, <1>3, <1>5, <1>6, SeqEqual
<1>7. CASE Len(q) < Len(p) - 1
  BY <1>1, <1>2, <1>3, <1>4, <1>5, <1>7, AncestorIsPrefix
<1> QED
  BY <1>1, <1>2, <1>6, <1>7

(* The root is above every entry.                                          *)
LEMMA RootIsAbove ==
  ASSUME NEW p \in Paths
  PROVE  Root \in Paths /\ ~Ancestor(p, Root) /\ (p \in Entries => Ancestor(Root, p))
<1>1. Root \in Paths /\ Len(Root) = 0 /\ Len(p) \in Nat
  BY PathsAssumption, PathIsSeq, EmptySeq DEF Root
<1>2. p \in Entries => Len(p) > 0
  BY EntryLength
<1> QED
  BY <1>1, <1>2, AncestorIsPrefix

(* Ancestry is strict.                                                     *)
LEMMA AncestorIsShorter ==
  ASSUME NEW q \in Paths, NEW p \in Paths, Ancestor(q, p)
  PROVE  Len(q) \in Nat /\ Len(p) \in Nat /\ Len(q) < Len(p) /\ q # p /\ ~Ancestor(p, q)
BY PathIsSeq DEF Ancestor

(* Everything above what exists is a directory.                            *)
LEMMA DirsAbove ==
  ASSUME NEW tree \in Trees, WellFormed(tree),
         NEW q \in Paths, NEW p \in Paths, Ancestor(q, p), tree[p] # "none"
  PROVE  tree[q] = "dir"
<1> DEFINE Bad == {r \in Paths : Ancestor(q, r) /\ tree[r] # "none"}
           Lengths == {Len(r) : r \in Bad}
<1> SUFFICES ASSUME tree[q] # "dir" PROVE FALSE
  OBVIOUS
<1>1. Lengths \in SUBSET Nat /\ Lengths # {}
  BY PathIsSeq
<1>2. PICK n \in Lengths : \A m \in Lengths : n <= m
  <2> HIDE DEF Lengths
  <2> QED BY <1>1, LeastExists
<1>3. PICK r \in Bad : Len(r) = n
  BY <1>2
<1>4. r \in Entries /\ (q = Parent(r) \/ Ancestor(q, Parent(r)))
  BY <1>3, AncestorOfParent
<1>5. tree[Parent(r)] = "dir"
  BY <1>3, <1>4 DEF WellFormed
<1>6. Parent(r) \in Bad /\ Len(Parent(r)) = Len(r) - 1
  BY <1>4, <1>5, ParentFacts
<1>7. Len(r) \in Nat
  BY <1>3, PathIsSeq
<1> QED
  BY <1>2, <1>3, <1>6, <1>7

-----------------------------------------------------------------------------
(* Manifests and plans.                                                    *)

(* A file is neither nothing nor a directory.                              *)
LEMMA KindsDiffer ==
  /\ \A k \in Kinds : IsFile(k) <=> k # "none" /\ k # "dir"
  /\ ~IsFile("none") /\ ~IsFile("dir")
BY ContentsAssumption DEF Kinds, IsFile

(* A manifest is a tree that leaves the root out.                          *)
LEMMA ManifestType ==
  ASSUME NEW tree \in Trees, NEW selected
  PROVE  /\ manifest(tree, selected) \in Trees
         /\ manifest(tree, selected)[Root] = "none"
         /\ \A p \in Paths : manifest(tree, selected)[p] \in Kinds
         /\ Empty \in Trees /\ Empty[Root] = "none"
BY PathsAssumption DEF manifest, Trees, Kinds, Listed, Entries, Root, Empty

(* A valid manifest is a tree, but for the root that it leaves out.        *)
LEMMA ManifestIsTree ==
  ASSUME NEW tree \in Trees, NEW selected, ValidManifest(tree, selected),
         NEW q \in Entries, NEW p \in Paths, Ancestor(q, p),
         manifest(tree, selected)[p] # "none"
  PROVE  manifest(tree, selected)[q] = "dir"
<1> DEFINE listed == Listed(tree, selected)
<1>1. q \in Paths /\ listed \subseteq Paths /\ listed \subseteq Entries
  BY DEF Entries, Listed
<1>2. PICK r \in listed : r = p \/ Ancestor(p, r)
  BY DEF manifest, Listed
<1>3. Ancestor(q, r)
  BY <1>1, <1>2, AncestorTransitive
<1>4. CASE q \in listed
  <2>1. tree[q] = "dir"
    BY <1>2, <1>3, <1>4 DEF ValidManifest
  <2> QED
    BY <1>1, <1>4, <2>1 DEF manifest
<1>5. CASE q \notin listed
  BY <1>1, <1>2, <1>3, <1>5, RootIsAbove DEF manifest, Entries
<1> QED
  BY <1>4, <1>5

(* The manifest of a tree on disk                                          *)
LEMMA ManifestOfTree ==
  ASSUME NEW tree \in Trees, WellFormed(tree), NEW selected, NEW p \in Entries
  PROVE  /\ manifest(tree, selected)[p] \in {"none", tree[p]}
         /\ p \in selected => manifest(tree, selected)[p] = tree[p]
         /\ ValidManifest(tree, selected)
<1>1. p \in Paths /\ Listed(tree, selected) \subseteq Paths
  BY DEF Entries, Listed
<1>2. ASSUME NEW q \in Listed(tree, selected), Ancestor(p, q)
      PROVE  tree[p] = "dir"
  <2>1. q \in Paths /\ tree[q] # "none"
    BY DEF Listed, Entries
  <2> QED
    BY <2>1, <1>1, <1>2, DirsAbove
<1>3. /\ manifest(tree, selected)[p] \in {"none", tree[p]}
      /\ p \in selected => manifest(tree, selected)[p] = tree[p]
  BY <1>1, <1>2 DEF manifest, Listed
<1>4. ValidManifest(tree, selected)
  <2> SUFFICES ASSUME NEW q \in Listed(tree, selected), NEW r \in Listed(tree, selected),
                      Ancestor(q, r)
               PROVE  tree[q] = "dir"
    BY DEF ValidManifest
  <2>1. q \in Paths /\ r \in Paths /\ tree[r] # "none"
    BY DEF Listed, Entries
  <2> QED
    BY <2>1, DirsAbove
<1> QED
  BY <1>3, <1>4

(* A plan is of its type and never names the root.                         *)
LEMMA PlanType ==
  ASSUME NEW new \in Trees, NEW old \in Trees, NEW extra \in BOOLEAN,
         new[Root] = "none", old[Root] = "none"
  PROVE  /\ PlanFor(new, old, extra) \in Plans
         /\ Touched(PlanFor(new, old, extra)) \subseteq Entries
<1>1. PlanFor(new, old, extra) \in Plans
  BY DEF PlanFor, Plans
<1>2. \A p \in Touched(PlanFor(new, old, extra)) :
        p \in Paths /\ (new[p] # "none" \/ old[p] # "none")
  <2>1. \A p \in Paths : /\ IsFile(new[p]) => new[p] # "none"
                         /\ IsFile(old[p]) => old[p] # "none"
    BY KindsDiffer
  <2> QED
    BY <2>1 DEF PlanFor, Touched
<1> QED
  BY <1>1, <1>2 DEF Entries

(* The plan of nothing is empty.                                           *)
LEMMA NoPlanFacts ==
  NoPlan \in Plans /\ Touched(NoPlan) = {}
<1>1. Empty \in Trees /\ Empty[Root] = "none" /\ \A p \in Paths : Empty[p] = "none"
  BY PathsAssumption DEF Empty, Trees, Kinds, Root
<1>2. NoPlan \in Plans
  BY <1>1, PlanType DEF NoPlan
<1>3. \A p \in Paths : ~IsFile(Empty[p]) /\ Empty[p] # "dir"
  BY <1>1, KindsDiffer
<1>4. Touched(NoPlan) = {}
  BY <1>3 DEF NoPlan, PlanFor, Touched
<1> QED
  BY <1>2, <1>4

-----------------------------------------------------------------------------
(* Changing a tree.                                                        *)

(* One path of a tree may change when nothing hangs from it.               *)
LEMMA LeafChange ==
  ASSUME NEW tree \in Trees, WellFormed(tree), NEW t \in Paths, NEW k \in Kinds,
         k # "dir" => \A p \in Entries : Parent(p) = t => tree[p] = "none",
         t = Root => ~IsFile(k),
         t # Root /\ k # "none" => tree[Parent(t)] = "dir"
  PROVE  /\ [tree EXCEPT ![t] = k] \in Trees
         /\ WellFormed([tree EXCEPT ![t] = k])
         /\ \A p \in Paths \ Below(t) : [tree EXCEPT ![t] = k][p] = tree[p]
<1> DEFINE new == [tree EXCEPT ![t] = k]
<1>1. new \in Trees /\ new[t] = k /\ \A p \in Paths \ {t} : new[p] = tree[p]
  BY DEF Trees
<1>2. ~IsFile(new[Root])
  BY <1>1, RootIsAbove DEF WellFormed
<1>3. ASSUME NEW p \in Entries, new[p] # "none"
      PROVE  new[Parent(p)] = "dir"
  <2>1. p \in Paths /\ Parent(p) \in Paths /\ Parent(p) # p
    BY ParentFacts, AncestorIsShorter DEF Entries
  <2>2. CASE p = t
    BY <1>1, <1>3, <2>1, <2>2 DEF Entries
  <2>3. CASE p # t /\ Parent(p) = t
    BY <1>1, <1>3, <2>1, <2>3
  <2>4. CASE p # t /\ Parent(p) # t
    BY <1>1, <1>3, <2>1, <2>4 DEF WellFormed
  <2> QED
    BY <2>2, <2>3, <2>4
<1>4. WellFormed(new)
  BY <1>2, <1>3 DEF WellFormed
<1>5. t \in Below(t)
  BY DEF Below
<1> QED
  BY <1>1, <1>4, <1>5

(* A path and its parent are on the same side of t, unless the path is t. *)
LEMMA BelowParent ==
  ASSUME NEW t \in Paths, NEW p \in Entries
  PROVE  /\ Parent(p) \in Below(t) => p \in Below(t)
         /\ p \in Below(t) /\ p # t => Parent(p) \in Below(t)
<1>1. p \in Paths /\ Parent(p) \in Paths /\ Ancestor(Parent(p), p)
  BY ParentFacts DEF Entries
<1>2. Parent(p) \in Below(t) => p \in Below(t)
  BY <1>1, AncestorTransitive DEF Below
<1>3. p \in Below(t) /\ p # t => Parent(p) \in Below(t)
  BY <1>1, AncestorOfParent DEF Below
<1> QED
  BY <1>2, <1>3

(* The whole project is below its root.                                    *)
LEMMA EntryBelowRoot ==
  Below(Root) = Paths
BY RootIsAbove DEF Below, Entries

(* What With makes of a tree                                               *)
LEMMA WithIsTree ==
  ASSUME fs \in Trees, WellFormed(fs), NEW t \in Paths, NEW sub \in [Below(t) -> Kinds],
         t = Root => ~IsFile(sub[t]),
         t # Root /\ sub[t] # "none" => fs[Parent(t)] = "dir",
         \A p \in Below(t) \ {t} : sub[p] # "none" => sub[Parent(p)] = "dir"
  PROVE  /\ With(t, sub) \in Trees
         /\ WellFormed(With(t, sub))
         /\ \A p \in Paths \ Below(t) : With(t, sub)[p] = fs[p]
         /\ \A p \in Below(t) : With(t, sub)[p] = sub[p]
<1> DEFINE new == With(t, sub)
<1>1. /\ new \in Trees
      /\ \A p \in Paths \ Below(t) : new[p] = fs[p]
      /\ \A p \in Below(t) : new[p] = sub[p]
  BY DEF With, Trees, Below
<1>2. t \in Below(t) /\ Below(t) \subseteq Paths
  BY DEF Below
<1>3. ~IsFile(new[Root])
  <2>1. Root \in Paths /\ (Root \in Below(t) => t = Root)
    BY RootIsAbove DEF Below
  <2> QED
    BY <1>1, <1>2, <2>1 DEF WellFormed
<1>4. ASSUME NEW p \in Entries, new[p] # "none"
      PROVE  new[Parent(p)] = "dir"
  <2>1. p \in Paths /\ p # Root /\ Parent(p) \in Paths /\ Parent(p) # p
    BY ParentFacts, AncestorIsShorter DEF Entries
  <2>2. CASE p = t
    <3>1. t \in Entries /\ ~(Parent(p) \in Below(t))
      <4>1. Ancestor(Parent(p), p)
        BY ParentFacts
      <4>2. ~Ancestor(p, Parent(p))
        BY <4>1, <2>1, AncestorIsShorter
      <4> QED
        BY <2>1, <2>2, <4>2 DEF Below
    <3> QED
      BY <1>1, <1>2, <1>4, <2>1, <2>2, <3>1
  <2>3. CASE p # t /\ p \in Below(t)
    <3>1. Parent(p) \in Below(t)
      BY <2>3, BelowParent
    <3> QED
      BY <1>1, <1>4, <2>3, <3>1
  <2>4. CASE p \notin Below(t)
    <3>1. Parent(p) \notin Below(t)
      BY <2>4, BelowParent
    <3> QED
      BY <1>1, <1>4, <2>1, <2>4, <3>1 DEF WellFormed
  <2> QED
    BY <2>2, <2>3, <2>4
<1>5. WellFormed(new)
  BY <1>3, <1>4 DEF WellFormed
<1> QED
  BY <1>1, <1>5

(* Clearing everything below a target leaves a tree.                       *)
LEMMA ClearedIsTree ==
  ASSUME fs \in Trees, WellFormed(fs), NEW t \in Paths
  PROVE  /\ With(t, Nothing(t)) \in Trees
         /\ WellFormed(With(t, Nothing(t)))
         /\ \A p \in Paths \ Below(t) : With(t, Nothing(t))[p] = fs[p]
<1>1. /\ Nothing(t) \in [Below(t) -> Kinds]
      /\ \A p \in Below(t) : Nothing(t)[p] = "none"
      /\ t \in Below(t) /\ ~IsFile("none")
  BY KindsDiffer DEF Nothing, Kinds, Below
<1> QED
  BY <1>1, WithIsTree

(* The tree that a reset installs                                          *)
LEMMA ManifestOnDisk ==
  ASSUME NEW tree \in Trees, NEW selected, ValidManifest(tree, selected)
  PROVE  /\ [manifest(tree, selected) EXCEPT ![Root] = "dir"] \in Trees
         /\ WellFormed([manifest(tree, selected) EXCEPT ![Root] = "dir"])
<1> DEFINE new == manifest(tree, selected)
           disk == [new EXCEPT ![Root] = "dir"]
<1>1. new \in Trees /\ Root \in Paths /\ "dir" \in Kinds
  BY ManifestType, RootIsAbove, PathsAssumption DEF Kinds, Root
<1>2. /\ disk \in Trees /\ disk[Root] = "dir"
      /\ \A p \in Entries : disk[p] = new[p]
  BY <1>1 DEF Trees, Entries
<1>3. ASSUME NEW p \in Entries, disk[p] # "none"
      PROVE  disk[Parent(p)] = "dir"
  <2>1. p \in Paths /\ Parent(p) \in Paths /\ Ancestor(Parent(p), p)
    BY ParentFacts DEF Entries
  <2>2. CASE Parent(p) = Root
    BY <1>2, <2>2
  <2>3. CASE Parent(p) # Root
    <3>1. Parent(p) \in Entries /\ new[p] # "none"
      BY <1>2, <1>3, <2>1, <2>3 DEF Entries
    <3> QED
      BY <1>2, <2>1, <3>1, ManifestIsTree
  <2> QED
    BY <2>2, <2>3
<1> QED
  BY <1>2, <1>3, KindsDiffer DEF WellFormed

-----------------------------------------------------------------------------
(* The operations of a transaction.                                        *)

Smaller(new, old) ==
  /\ new.create_dirs \subseteq old.create_dirs
  /\ new.upload_files \subseteq old.upload_files
  /\ new.delete_files \subseteq old.delete_files
  /\ new.delete_dirs \subseteq old.delete_dirs

(* The project changes below one logged target only.                       *)
LogsChange ==
  \/ UNCHANGED <<fs, log>>
  \/ \E t \in Paths, kind \in {"created", "replaced", "installed"} :
       /\ Logged(kind, t)
       /\ kind = "created" => fs[t] = "none"
       /\ \A p \in Paths \ Below(t) : fs'[p] = fs[p]

(* What every operation of a transaction does                              *)
Operation ==
  /\ pc \in {"root", "apply", "reset"} /\ pc' \in {"apply", "rollback"}
  /\ UNCHANGED <<request, plan, errors, seen, before>>
  /\ fs' \in Trees /\ WellFormed(fs')
  /\ staged' \in Trees
  /\ todo' \in Plans /\ Smaller(todo', todo)
  /\ LogsChange

(* A plan is no larger than itself, and the empty one than any.            *)
LEMMA SmallerFacts ==
  ASSUME NEW pl \in Plans
  PROVE  Smaller(pl, pl) /\ Smaller(NoPlan, pl)
<1>1. Touched(NoPlan) = {}
  BY NoPlanFacts
<1> QED
  BY <1>1 DEF Smaller, Touched

(* Done takes t from one list and leaves the others.                       *)
LEMMA DoneFacts ==
  ASSUME todo \in Plans, NEW t,
         NEW list \in {"create_dirs", "upload_files", "delete_files", "delete_dirs"},
         Done(list, t)
  PROVE  /\ todo' \in Plans /\ Smaller(todo', todo)
         /\ todo'.create_dirs = IF list = "create_dirs" THEN todo.create_dirs \ {t} ELSE todo.create_dirs
         /\ todo'.upload_files = IF list = "upload_files" THEN todo.upload_files \ {t} ELSE todo.upload_files
         /\ todo'.delete_files = IF list = "delete_files" THEN todo.delete_files \ {t} ELSE todo.delete_files
         /\ todo'.delete_dirs = IF list = "delete_dirs" THEN todo.delete_dirs \ {t} ELSE todo.delete_dirs
BY DEF Done, Plans, Smaller

(* An entry that is not a directory has nothing below it.                  *)
LEMMA NoChildren ==
  ASSUME fs \in Trees, WellFormed(fs), NEW t \in Paths, fs[t] # "dir" \/ IsEmptyDir(t)
  PROVE  /\ \A p \in Entries : Parent(p) = t => fs[p] = "none"
         /\ t \in Entries /\ fs[t] # "none" => fs[Parent(t)] = "dir"
<1>1. ASSUME NEW p \in Entries, Parent(p) = t
      PROVE  fs[p] = "none"
  <2>1. p \in Paths /\ Ancestor(t, p) /\ p # t
    BY <1>1, ParentFacts, AncestorIsShorter DEF Entries
  <2>2. p \in Below(t) \ {t}
    BY <2>1 DEF Below
  <2> QED
    BY <1>1, <2>2 DEF WellFormed, IsEmptyDir
<1>2. t \in Entries /\ fs[t] # "none" => fs[Parent(t)] = "dir"
  BY DEF WellFormed
<1> QED
  BY <1>1, <1>2

(* An operation that is refused changes neither project nor log.           *)
LEMMA RefusesEffect ==
  ASSUME Shape, TreesFit, pc \in {"root", "apply", "reset"}, Refuses
  PROVE  Operation
BY SmallerFacts DEF Shape, TreesFit, Refuses, TransactionFrame, Operation, LogsChange

(* An operation that breaks off may leave its target in the backup.        *)
LEMMA BreaksEffect ==
  ASSUME Shape, TreesFit, pc \in {"root", "apply", "reset"}, NEW t \in Paths, Breaks(t)
  PROVE  Operation
<1>1. CASE UNCHANGED <<fs, log>>
  BY <1>1, SmallerFacts DEF Shape, TreesFit, Breaks, TransactionFrame, Operation, LogsChange
<1>2. CASE Logged("replaced", t) /\ fs' = With(t, Nothing(t))
  <2>1. fs \in Trees /\ WellFormed(fs)
    BY DEF Shape, TreesFit
  <2>2. fs' \in Trees /\ WellFormed(fs') /\ \A p \in Paths \ Below(t) : fs'[p] = fs[p]
    BY <2>1, <1>2, ClearedIsTree
  <2>3. LogsChange
    BY <1>2, <2>2 DEF LogsChange
  <2> QED
    BY <2>2, <2>3, SmallerFacts DEF Shape, Breaks, TransactionFrame, Operation
<1> QED
  BY <1>1, <1>2 DEF Breaks

(* create_dir: the directory stands, nothing else has changed.             *)
LEMMA CreateDirEffect ==
  ASSUME Shape, TreesFit, NEW t \in Paths, create_dir(t)
  PROVE  fs' \in Trees /\ WellFormed(fs') /\ LogsChange
         /\ fs'[t] = "dir" /\ \A p \in Paths \ {t} : fs'[p] = fs[p]
<1>1. CASE fs[t] = "dir" /\ UNCHANGED <<fs, log>>
  BY <1>1 DEF Shape, TreesFit, LogsChange
<1>2. CASE fs[t] = "none" /\ HasParent(t) /\ Logged("created", t) /\ fs' = [fs EXCEPT ![t] = "dir"]
  <2>1. fs \in Trees /\ WellFormed(fs) /\ "dir" \in Kinds /\ ~IsFile("dir")
    BY KindsDiffer DEF Shape, TreesFit, Kinds
  <2>2. t # Root => fs[Parent(t)] = "dir"
    BY <1>2 DEF HasParent
  <2>6. PICK k \in Kinds : k = "dir"
    BY <2>1
  <2>7. /\ [fs EXCEPT ![t] = k] \in Trees /\ WellFormed([fs EXCEPT ![t] = k])
        /\ \A p \in Paths \ Below(t) : [fs EXCEPT ![t] = k][p] = fs[p]
    BY <2>1, <2>2, <2>6, LeafChange
  <2>3. fs' \in Trees /\ WellFormed(fs') /\ \A p \in Paths \ Below(t) : fs'[p] = fs[p]
    BY <1>2, <2>6, <2>7
  <2>4. LogsChange
    BY <1>2, <2>3 DEF LogsChange
  <2> QED
    BY <1>2, <2>1, <2>3, <2>4 DEF Trees
<1> QED
  BY <1>1, <1>2 DEF create_dir

(* delete_file and delete_empty_dir: the target is gone, nothing else has  *)
(* changed.                                                                *)
LEMMA RemovalEffect ==
  ASSUME Shape, TreesFit, NEW t \in Entries, delete_file(t) \/ delete_empty_dir(t)
  PROVE  fs' \in Trees /\ WellFormed(fs') /\ LogsChange
         /\ fs'[t] = "none" /\ \A p \in Paths \ {t} : fs'[p] = fs[p]
<1>1. CASE fs[t] = "none" /\ UNCHANGED <<fs, log>>
  BY <1>1 DEF Shape, TreesFit, LogsChange
<1>2. CASE /\ IsFile(fs[t]) \/ IsEmptyDir(t)
           /\ Logged("replaced", t) /\ fs' = [fs EXCEPT ![t] = "none"]
  <2>1. fs \in Trees /\ WellFormed(fs) /\ "none" \in Kinds /\ ~IsFile("none") /\ t \in Paths /\ t # Root
    BY KindsDiffer DEF Shape, TreesFit, Kinds, Entries
  <2>2. fs[t] # "dir" \/ IsEmptyDir(t)
    BY <1>2, KindsDiffer
  <2>5. \A p \in Entries : Parent(p) = t => fs[p] = "none"
    BY <2>1, <2>2, NoChildren
  <2>6. PICK k \in Kinds : k = "none"
    BY <2>1
  <2>7. /\ [fs EXCEPT ![t] = k] \in Trees /\ WellFormed([fs EXCEPT ![t] = k])
        /\ \A p \in Paths \ Below(t) : [fs EXCEPT ![t] = k][p] = fs[p]
    BY <2>1, <2>5, <2>6, LeafChange
  <2>3. fs' \in Trees /\ WellFormed(fs') /\ \A p \in Paths \ Below(t) : fs'[p] = fs[p]
    BY <1>2, <2>6, <2>7
  <2>4. LogsChange
    BY <1>2, <2>1, <2>3 DEF LogsChange
  <2> QED
    BY <1>2, <2>1, <2>3, <2>4 DEF Trees
<1> QED
  BY <1>1, <1>2 DEF delete_file, delete_empty_dir

(* install_file: the upload stands, nothing else has changed.              *)
LEMMA InstallEffect ==
  ASSUME Shape, TreesFit, NEW t \in Entries,
         fs[t] # "dir" /\ HasParent(t) /\ Logged("installed", t),
         fs' = [fs EXCEPT ![t] = staged[t]]
  PROVE  fs' \in Trees /\ WellFormed(fs') /\ LogsChange
         /\ fs'[t] = staged[t] /\ \A p \in Paths \ {t} : fs'[p] = fs[p]
<1>1. fs \in Trees /\ WellFormed(fs) /\ t \in Paths /\ t # Root /\ staged[t] \in Kinds
  BY DEF Shape, TreesFit, Trees, Entries
<1>2. fs[Parent(t)] = "dir"
  BY <1>1 DEF HasParent
<1>3. fs' \in Trees /\ WellFormed(fs') /\ \A p \in Paths \ Below(t) : fs'[p] = fs[p]
  <2>1. \A p \in Entries : Parent(p) = t => fs[p] = "none"
    BY <1>1, NoChildren
  <2>2. PICK k \in Kinds : k = staged[t]
    BY <1>1
  <2>3. /\ [fs EXCEPT ![t] = k] \in Trees /\ WellFormed([fs EXCEPT ![t] = k])
        /\ \A p \in Paths \ Below(t) : [fs EXCEPT ![t] = k][p] = fs[p]
    <3>1. /\ k # "dir" => \A p \in Entries : Parent(p) = t => fs[p] = "none"
          /\ t = Root => ~IsFile(k)
          /\ t # Root /\ k # "none" => fs[Parent(t)] = "dir"
      BY <1>1, <1>2, <2>1
    <3> QED
      BY <1>1, <3>1, LeafChange
  <2> QED
    BY <2>2, <2>3
<1>4. LogsChange
  BY <1>1, <1>3 DEF LogsChange
<1> QED
  BY <1>1, <1>3, <1>4 DEF Trees

(* CreateRoot is such an operation.                                        *)
LEMMA CreateRootEffect ==
  ASSUME Shape, TreesFit, CreateRoot
  PROVE  Operation
<1>1. CASE CannotCreate(Root) /\ Refuses
  BY <1>1, RefusesEffect DEF CreateRoot
<1>2. CASE create_dir(Root) /\ pc' = "apply" /\ UNCHANGED <<staged, todo>> /\ TransactionFrame
  <2>1. fs' \in Trees /\ WellFormed(fs') /\ LogsChange
    BY <1>2, CreateDirEffect, RootIsAbove, PathsAssumption DEF Root
  <2> QED
    BY <1>2, <2>1, SmallerFacts DEF Shape, CreateRoot, TransactionFrame, Operation
<1> QED
  BY <1>1, <1>2 DEF CreateRoot

(* DeleteFile is such an operation.                                        *)
LEMMA DeleteFileEffect ==
  ASSUME Shape, TreesFit, NEW t \in Entries, DeleteFile(t)
  PROVE  Operation
<1>1. CASE Refuses
  BY <1>1, RefusesEffect DEF DeleteFile
<1>2. CASE delete_file(t) /\ Done("delete_files", t) /\ UNCHANGED <<staged, pc>> /\ TransactionFrame
  <2>1. fs' \in Trees /\ WellFormed(fs') /\ LogsChange
    BY <1>2, RemovalEffect
  <2>2. todo' \in Plans /\ Smaller(todo', todo)
    BY <1>2, DoneFacts DEF Shape
  <2> QED
    BY <1>2, <2>1, <2>2 DEF Shape, DeleteFile, TransactionFrame, Operation
<1> QED
  BY <1>1, <1>2 DEF DeleteFile

(* DeleteDir is such an operation.                                         *)
LEMMA DeleteDirEffect ==
  ASSUME Shape, TreesFit, NEW t \in Entries, DeleteDir(t)
  PROVE  Operation
<1>1. CASE Refuses
  BY <1>1, RefusesEffect DEF DeleteDir
<1>2. CASE delete_empty_dir(t) /\ Done("delete_dirs", t) /\ UNCHANGED <<staged, pc>> /\ TransactionFrame
  <2>1. fs' \in Trees /\ WellFormed(fs') /\ LogsChange
    BY <1>2, RemovalEffect
  <2>2. todo' \in Plans /\ Smaller(todo', todo)
    BY <1>2, DoneFacts DEF Shape
  <2> QED
    BY <1>2, <2>1, <2>2 DEF Shape, DeleteDir, TransactionFrame, Operation
<1> QED
  BY <1>1, <1>2 DEF DeleteDir

(* CreateDir is such an operation.                                         *)
LEMMA MakeDirEffect ==
  ASSUME Shape, TreesFit, NEW t \in Entries, CreateDir(t)
  PROVE  Operation
<1>1. CASE Refuses
  BY <1>1, RefusesEffect DEF CreateDir
<1>2. CASE create_dir(t) /\ Done("create_dirs", t) /\ UNCHANGED <<staged, pc>> /\ TransactionFrame
  <2>1. fs' \in Trees /\ WellFormed(fs') /\ LogsChange
    BY <1>2, CreateDirEffect DEF Entries
  <2>2. todo' \in Plans /\ Smaller(todo', todo)
    BY <1>2, DoneFacts DEF Shape
  <2> QED
    BY <1>2, <2>1, <2>2 DEF Shape, CreateDir, TransactionFrame, Operation
<1> QED
  BY <1>1, <1>2 DEF CreateDir

(* InstallFile is such an operation.                                       *)
LEMMA InstallFileEffect ==
  ASSUME Shape, TreesFit, NEW t \in Entries, InstallFile(t)
  PROVE  Operation
<1>0. pc = "apply" /\ t \in Paths
  BY DEF InstallFile, Entries
<1>1. CASE Refuses
  BY <1>0, <1>1, RefusesEffect
<1>2. CASE Breaks(t)
  BY <1>0, <1>2, BreaksEffect
<1>3. CASE /\ fs[t] # "dir" /\ HasParent(t)
           /\ Logged("installed", t)
           /\ fs' = [fs EXCEPT ![t] = staged[t]]
           /\ staged' = [staged EXCEPT ![t] = "none"]
           /\ \/ Done("upload_files", t) /\ UNCHANGED pc
              \/ "io" \in Faults /\ pc' = "rollback" /\ UNCHANGED todo
           /\ TransactionFrame
  <2>1. fs' \in Trees /\ WellFormed(fs') /\ LogsChange
    BY <1>3, InstallEffect
  <2>2. todo' \in Plans /\ Smaller(todo', todo) /\ pc' \in {"apply", "rollback"}
    BY <1>0, <1>3, DoneFacts, SmallerFacts DEF Shape
  <2>3. staged' \in Trees
    BY <1>3 DEF Shape, Trees, Kinds
  <2> QED
    BY <1>0, <1>3, <2>1, <2>2, <2>3 DEF TransactionFrame, Operation
<1> QED
  BY <1>1, <1>2, <1>3 DEF InstallFile

(* ReplaceProject is such an operation.                                    *)
LEMMA ReplaceProjectEffect ==
  ASSUME Shape, PlanFits, TreesFit, ReplaceProject
  PROVE  Operation
<1>0. pc = "reset" /\ Root \in Paths
  BY PathsAssumption DEF ReplaceProject, Root
<1>1. CASE Breaks(Root)
  BY <1>0, <1>1, BreaksEffect
<1>2. CASE /\ Logged("installed", Root)
           /\ fs' = [ClientManifest EXCEPT ![Root] = "dir"]
           /\ staged' = Empty /\ todo' = NoPlan /\ pc' = "apply" /\ TransactionFrame
  <2>1. ValidManifest(request.client, request.selected) /\ request.client \in Trees
    BY <1>0 DEF PlanFits, Shape, Requests
  <2>2. fs' \in Trees /\ WellFormed(fs')
    BY <1>2, <2>1, ManifestOnDisk DEF ClientManifest
  <2>3. LogsChange
    BY <1>0, <1>2, EntryBelowRoot DEF LogsChange
  <2>4. staged' \in Trees /\ todo' \in Plans /\ Smaller(todo', todo)
    BY <1>2, ManifestType, NoPlanFacts, SmallerFacts DEF Shape, Empty, Trees, Kinds
  <2> QED
    BY <1>0, <1>2, <2>2, <2>3, <2>4 DEF TransactionFrame, Operation
<1> QED
  BY <1>1, <1>2 DEF ReplaceProject

Operates ==
  \/ CreateRoot \/ ReplaceProject
  \/ \E t \in Entries : DeleteFile(t) \/ DeleteDir(t) \/ CreateDir(t) \/ InstallFile(t)

(* Every step of the transaction is such an operation.                     *)
LEMMA OperatesEffect ==
  ASSUME Shape, PlanFits, TreesFit, Operates
  PROVE  Operation
<1>1. CASE CreateRoot
  BY <1>1, CreateRootEffect
<1>2. CASE ReplaceProject
  BY <1>2, ReplaceProjectEffect
<1>3. ASSUME NEW t \in Entries, DeleteFile(t) \/ DeleteDir(t) \/ CreateDir(t) \/ InstallFile(t)
      PROVE  Operation
  BY <1>3, DeleteFileEffect, DeleteDirEffect, MakeDirEffect, InstallFileEffect
<1> QED
  BY <1>1, <1>2, <1>3 DEF Operates

-----------------------------------------------------------------------------
(* Shape, plan, trees and log: the first layers of the invariant.          *)

Basic == Shape /\ PlanFits /\ TreesFit /\ LogFits

(* The first layers hold of a new push.                                    *)
LEMMA InitBasic ==
  Init => Basic
<1> SUFFICES ASSUME Init PROVE Basic
  OBVIOUS
<1>1. Empty \in Trees /\ NoPlan \in Plans
  BY NoPlanFacts, PathsAssumption DEF Empty, Trees, Kinds
<1>2. request \in Requests /\ request.client[Root] = "none" /\ (request.reset => request.selected = Paths)
  <2>1. PICK client \in [Entries -> Kinds], reset \in BOOLEAN, extra \in BOOLEAN, selected \in Selections :
          /\ reset => selected = Paths
          /\ request = [client |-> [p \in Paths |-> IF p = Root THEN "none" ELSE client[p]],
                     selected |-> selected, reset |-> reset, delete_extra |-> extra]
    BY DEF Init
  <2>2. [p \in Paths |-> IF p = Root THEN "none" ELSE client[p]] \in Trees
    BY <2>1 DEF Trees, Entries, Kinds
  <2>3. Root \in Paths
    BY PathsAssumption DEF Root
  <2> QED
    BY <2>1, <2>2, <2>3 DEF Requests
<1>3. Shape
  BY <1>1, <1>2, EmptySeq DEF Init, Shape, Points
<1>4. PlanFits
  BY <1>1, SmallerFacts DEF Init, PlanFits, Smaller
<1>5. TreesFit /\ LogFits
  BY DEF Init, TreesFit, LogFits
<1> QED
  BY <1>3, <1>4, <1>5 DEF Basic

(* A change, component by component.                                       *)
LEMMA ChangeShape ==
  ASSUME NEW c
  PROVE  c \in Changes <=>
           \E t \in Paths, kind \in {"created", "replaced", "installed"} :
             \E old \in [Below(t) -> Kinds] : c = [kind |-> kind, target |-> t, old |-> old]
BY DEF Changes

(* The log is a sequence of changes.                                       *)
LEMMA LogShape ==
  ASSUME log \in Seq(Changes)
  PROVE  /\ Len(log) \in Nat /\ DOMAIN log = 1 .. Len(log)
         /\ \A i \in 1 .. Len(log) :
              /\ log[i] \in Changes
              /\ log[i].kind \in {"created", "replaced", "installed"}
              /\ log[i].target \in Paths
              /\ log[i].old \in [Below(log[i].target) -> Kinds]
<1>1. Len(log) \in Nat /\ DOMAIN log = 1 .. Len(log) /\ \A i \in 1 .. Len(log) : log[i] \in Changes
  BY LenProperties, ElementOfSeq
<1>2. \A c \in Changes : /\ c.kind \in {"created", "replaced", "installed"}
                         /\ c.target \in Paths
                         /\ c.old \in [Below(c.target) -> Kinds]
  BY ChangeShape
<1> QED
  BY <1>1, <1>2

(* Adding an entry to the log                                              *)
LEMMA LoggedFits ==
  ASSUME Shape, TreesFit, \A i \in DOMAIN log : ChangeFits(log[i]),
         NEW t \in Paths, NEW kind \in {"created", "replaced", "installed"},
         Logged(kind, t), kind = "created" => fs[t] = "none",
         \A p \in Paths \ Below(t) : fs'[p] = fs[p],
         UNCHANGED before
  PROVE  /\ log' \in Seq(Changes)
         /\ \A i \in DOMAIN log' : ChangeFits(log'[i])
         /\ LogRestores => LogRestores'
<1> DEFINE c == [kind |-> kind, target |-> t, old |-> Held(t)]
           n == Len(log)
<1>1. fs \in Trees /\ WellFormed(fs) /\ t \in Below(t) /\ Below(t) \subseteq Paths /\ log \in Seq(Changes)
  BY DEF Shape, TreesFit, Below
<1>2. Held(t) \in [Below(t) -> Kinds] /\ \A p \in Below(t) : Held(t)[p] = fs[p]
  BY <1>1 DEF Held, Trees
<1>3. ChangeFits(c) /\ c \in Changes
  <2>1. \A p \in Below(t) \ {t} : Held(t)[p] # "none" => Held(t)[Parent(p)] = "dir"
    <3> SUFFICES ASSUME NEW p \in Below(t) \ {t}, fs[p] # "none"
                 PROVE  Held(t)[Parent(p)] = "dir"
      BY <1>2
    <3>1. p \in Entries
      BY AncestorOfParent DEF Below
    <3>2. Parent(p) \in Below(t)
      BY <3>1, BelowParent
    <3> QED
      BY <1>1, <1>2, <3>1, <3>2 DEF WellFormed
  <2>2. ~IsFile(Held(t)[t]) \/ t # Root
    BY <1>1, <1>2 DEF WellFormed
  <2> QED
    BY <1>1, <1>2, <2>1, <2>2, ChangeShape DEF ChangeFits
<1>4. /\ n \in Nat /\ DOMAIN log = 1 .. n
      /\ log' = Append(log, c)
      /\ log' \in Seq(Changes)
      /\ DOMAIN log' = 1 .. n + 1
      /\ \A i \in 1 .. n : log'[i] = log[i]
      /\ log'[n + 1] = c
  <2>1. log' = Append(log, c)
    BY DEF Logged
  <2>2. /\ log' \in Seq(Changes) /\ Len(log') = n + 1
        /\ \A i \in 1 .. n : log'[i] = log[i]
        /\ log'[n + 1] = c
    <3> HIDE DEF c
    <3> QED BY <1>1, <1>3, <2>1, AppendProperties
  <2> QED
    BY <1>1, <2>1, <2>2, LenProperties
<1>5. \A i \in DOMAIN log' : ChangeFits(log'[i])
  <2> HIDE DEF c
  <2> QED BY <1>3, <1>4
<1>6. ASSUME LogRestores PROVE LogRestores'
  <2>1. ASSUME NEW p \in Paths, \A i \in DOMAIN log' : p \notin Below(log'[i].target)
        PROVE  fs'[p] = before[p]
    <3>1. \A i \in DOMAIN log : p \notin Below(log[i].target)
      BY <1>4, <2>1
    <3>2. p \notin Below(t)
      BY <1>4, <2>1
    <3> QED
      BY <1>6, <3>1, <3>2 DEF LogRestores
  <2>2. ASSUME NEW i \in 1 .. n + 1, NEW p \in Below(log'[i].target),
               \A j \in 1 .. i - 1 : p \notin Below(log'[j].target)
        PROVE  log'[i].old[p] = before[p]
    <3>1. CASE i \in 1 .. n
      <4>1. log'[i] = log[i] /\ \A j \in 1 .. i - 1 : log'[j] = log[j]
        BY <1>4, <3>1
      <4> QED
        BY <1>4, <1>6, <2>2, <3>1, <4>1 DEF LogRestores
    <3>2. CASE i = n + 1
      <4>1. \A j \in DOMAIN log : p \notin Below(log[j].target)
        BY <1>4, <2>2, <3>2
      <4>2. p \in Below(t) /\ log'[i].old[p] = fs[p] /\ p \in Paths
        BY <1>1, <1>2, <1>4, <2>2, <3>2
      <4> QED
        BY <1>6, <4>1, <4>2 DEF LogRestores
    <3> QED
      BY <1>4, <3>1, <3>2
  <2>3. before' = before
    OBVIOUS
  <2> QED
    BY <1>4, <2>1, <2>2, <2>3 DEF LogRestores
<1> QED
  BY <1>4, <1>5, <1>6

(* An operation keeps the log such that it restores the project.           *)
LEMMA LogsChangeFits ==
  ASSUME Shape, TreesFit, \A i \in DOMAIN log : ChangeFits(log[i]), LogsChange, UNCHANGED before
  PROVE  /\ log' \in Seq(Changes)
         /\ \A i \in DOMAIN log' : ChangeFits(log'[i])
         /\ LogRestores => LogRestores'
<1>1. CASE UNCHANGED <<fs, log>>
  BY <1>1 DEF Shape, LogRestores
<1>2. CASE ~UNCHANGED <<fs, log>>
  <2>1. PICK t \in Paths, kind \in {"created", "replaced", "installed"} :
          /\ Logged(kind, t)
          /\ kind = "created" => fs[t] = "none"
          /\ \A p \in Paths \ Below(t) : fs'[p] = fs[p]
    BY <1>2 DEF LogsChange
  <2> QED
    BY <2>1, LoggedFits
<1> QED
  BY <1>1, <1>2

(* Nothing is to be undone of a project that has not changed.              *)
LEMMA EmptyLogRestores ==
  log = <<>> /\ fs = before => LogRestores
BY DEF LogRestores

(* Every operation keeps the first layers.                                 *)
LEMMA OperationBasic ==
  ASSUME Basic, Operates
  PROVE  Basic'
<1>1. Operation /\ Shape /\ PlanFits /\ TreesFit /\ LogFits
  BY OperatesEffect DEF Basic
<1>2. /\ log' \in Seq(Changes)
      /\ \A i \in DOMAIN log' : ChangeFits(log'[i])
      /\ LogRestores => LogRestores'
  BY <1>1, LogsChangeFits DEF Operation, LogFits
<1>3. Shape'
  BY <1>1, <1>2 DEF Operation, Shape, Points
<1>4. PlanFits'
  <2>1. ClientManifest' = ClientManifest /\ Baseline' = Baseline
    BY <1>1 DEF Operation, ClientManifest, Baseline
  <2> QED
    BY <1>1, <2>1 DEF Operation, PlanFits, Smaller
<1>5. TreesFit'
  BY <1>1 DEF Operation, TreesFit
<1>6. LogFits'
  <2>1. ~errors' => LogRestores
    BY <1>1, EmptyLogRestores DEF Operation, LogFits
  <2>2. errors' => pc' = "rollback"
    BY <1>1 DEF Operation, LogFits
  <2> QED
    BY <1>1, <1>2, <2>1, <2>2 DEF Operation, LogFits
<1> QED
  BY <1>3, <1>4, <1>5, <1>6 DEF Basic

(* create_plan keeps them.                                                 *)
LEMMA CreatePlanBasic ==
  ASSUME Basic, create_plan
  PROVE  Basic'
<1> DEFINE old == IF request.reset THEN Empty ELSE manifest(fs, request.selected)
           extra == request.delete_extra /\ ~request.reset
<1>1. /\ pc = "new" /\ pc' = "open" /\ seen' = fs /\ staged' = Uploads(plan)'
      /\ ValidManifest(request.client, request.selected)
      /\ plan' = PlanFor(ClientManifest, old, extra)
      /\ UNCHANGED <<request, fs, todo, log, errors, before>>
  BY DEF create_plan, Uploads, ClientManifest
<1>2. /\ request.client \in Trees /\ request.reset \in BOOLEAN /\ request.delete_extra \in BOOLEAN
      /\ fs \in Trees /\ WellFormed(fs)
  BY DEF Basic, Shape, Requests, TreesFit
<1>3. /\ ClientManifest \in Trees /\ ClientManifest[Root] = "none"
      /\ old \in Trees /\ old[Root] = "none"
  BY <1>2, ManifestType DEF ClientManifest
<1>4. plan' \in Plans
  <2> HIDE DEF old
  <2> QED BY <1>1, <1>2, <1>3, PlanType
<1>5. ClientManifest' = ClientManifest /\ old = Baseline'
  BY <1>1 DEF ClientManifest, Baseline
<1>6. staged' \in Trees
  <2>1. \A p \in Paths : ClientManifest'[p] \in Kinds
    BY <1>2, <1>5, ManifestType DEF ClientManifest
  <2> QED
    BY <1>1, <2>1 DEF Uploads, Trees, Kinds
<1>7. Shape'
  BY <1>1, <1>4, <1>6 DEF Basic, Shape, Points
<1>8. PlanFits'
  <2>1. todo' = NoPlan /\ Smaller(todo, plan)'
    <3>1. todo' = NoPlan
      BY <1>1 DEF Basic, PlanFits
    <3> QED
      BY <1>4, <3>1, SmallerFacts DEF Smaller
  <2>2. plan' = PlanFor(ClientManifest', Baseline', (request.delete_extra /\ ~request.reset)')
    BY <1>1, <1>5
  <2> QED
    BY <1>1, <2>1, <2>2 DEF PlanFits, Smaller
<1>9. TreesFit' /\ LogFits'
  BY <1>1, <1>2 DEF Basic, TreesFit, LogFits
<1> QED
  BY <1>7, <1>8, <1>9 DEF Basic

(* PlanRejected keeps them.                                                *)
LEMMA PlanRejectedBasic ==
  ASSUME Basic, PlanRejected
  PROVE  Basic'
<1>1. Shape' /\ TreesFit' /\ LogFits'
  BY DEF Basic, Shape, TreesFit, LogFits, PlanRejected, Points, Outcomes
<1>2. PlanFits'
  BY DEF Basic, PlanFits, PlanRejected
<1> QED
  BY <1>1, <1>2 DEF Basic

(* OutsideWrites keeps them.                                               *)
LEMMA OutsideWritesBasic ==
  ASSUME Basic, OutsideWrites
  PROVE  Basic'
<1>1. /\ pc = "open" /\ pc' = "open"
      /\ UNCHANGED <<request, plan, todo, log, errors, seen, before>>
  BY DEF OutsideWrites
<1>2. fs' \in Trees /\ WellFormed(fs') /\ staged' \in Trees
  BY DEF Basic, Shape, TreesFit, OutsideWrites, Trees, Entries
<1>3. Shape' /\ TreesFit' /\ LogFits'
  BY <1>1, <1>2 DEF Basic, Shape, TreesFit, LogFits
<1>4. PlanFits'
  <2>1. ClientManifest' = ClientManifest /\ Baseline' = Baseline
    BY <1>1 DEF ClientManifest, Baseline
  <2> QED
    BY <1>1, <2>1 DEF Basic, PlanFits
<1> QED
  BY <1>3, <1>4 DEF Basic

(* CommitChecks keeps them.                                                *)
LEMMA CommitChecksBasic ==
  ASSUME Basic, CommitChecks
  PROVE  Basic'
<1>1. /\ pc = "open" /\ pc' \in {"reset", "root", "refused", "failed", "reupload"}
      /\ before' = fs /\ todo' = plan
      /\ UNCHANGED <<request, fs, staged, plan, log, errors, seen>>
  BY DEF CommitChecks
<1>2. Shape' /\ TreesFit' /\ LogFits'
  BY <1>1 DEF Basic, Shape, TreesFit, LogFits, Points, Outcomes
<1>3. PlanFits'
  <2>1. ClientManifest' = ClientManifest /\ Baseline' = Baseline
    BY <1>1 DEF ClientManifest, Baseline
  <2> QED
    BY <1>1, <2>1 DEF Basic, PlanFits
<1> QED
  BY <1>2, <1>3 DEF Basic

(* The end of a commit changes nothing but the point.                      *)
LEMMA EndsBasic ==
  ASSUME Basic, CommitEnds \/ RollbackEnds \/ WorkerPanics
  PROVE  Basic'
<1>1. /\ pc \in {"root", "apply", "reset", "rollback"}
      /\ pc' \in {"committed", "failed", "reupload"}
      /\ UNCHANGED <<request, fs, staged, plan, todo, log, errors, seen, before>>
      /\ pc' = "failed" => log = <<>> /\ pc = "rollback" /\ ~errors
      /\ pc' = "committed" => pc = "apply"
  BY DEF CommitEnds, RollbackEnds, WorkerPanics
<1>2. Shape' /\ TreesFit'
  BY <1>1 DEF Basic, Shape, TreesFit, Points, Outcomes
<1>3. LogFits'
  <2>1. pc' = "failed" => fs = before
    <3> SUFFICES ASSUME pc' = "failed" PROVE fs = before
      OBVIOUS
    <3>1. LogRestores /\ DOMAIN log = {}
      BY <1>1 DEF Basic, LogFits
    <3>2. \A p \in Paths : fs[p] = before[p]
      BY <3>1 DEF LogRestores
    <3> QED
      BY <3>2 DEF Basic, Shape, Trees
  <2> QED
    BY <1>1, <2>1 DEF Basic, LogFits
<1>4. PlanFits'
  <2>1. ClientManifest' = ClientManifest /\ Baseline' = Baseline
    BY <1>1 DEF ClientManifest, Baseline
  <2> QED
    BY <1>1, <2>1 DEF Basic, PlanFits
<1> QED
  BY <1>2, <1>3, <1>4 DEF Basic

(* The change that rollback takes from the log.                            *)
LEMMA ChangeInTree ==
  ASSUME Basic, log # <<>>
  PROVE  /\ Change \in Changes /\ Change.kind \in {"created", "replaced", "installed"}
         /\ Change.target \in Paths /\ Change.old \in [Below(Change.target) -> Kinds]
         /\ ChangeFits(Change)
         /\ Len(log) \in DOMAIN log
<1>1. log \in Seq(Changes) /\ \A i \in DOMAIN log : ChangeFits(log[i])
  BY DEF Basic, Shape, LogFits
<1>2. Len(log) \in DOMAIN log
  BY <1>1, EmptySeq, LogShape
<1> QED
  BY <1>1, <1>2, LogShape DEF Change

(* What the undoing of one change does to the project                      *)
LEMMA UndoEffect ==
  ASSUME Basic, RollbackStep
  PROVE  /\ fs' \in Trees /\ WellFormed(fs') /\ staged' \in Trees
         /\ ~errors' => /\ ~errors
                        /\ \A p \in Below(Change.target) : fs'[p] = Change.old[p]
                        /\ \A p \in Paths \ Below(Change.target) : fs'[p] = fs[p]
<1> DEFINE t == Change.target
           sub == Change.old
<1>0. log # <<>> /\ fs \in Trees /\ WellFormed(fs) /\ staged \in Trees /\ errors \in BOOLEAN
  BY DEF Basic, Shape, TreesFit, RollbackStep
<1>1. /\ Change.kind \in {"created", "replaced", "installed"}
      /\ t \in Paths /\ sub \in [Below(t) -> Kinds] /\ ChangeFits(Change)
  BY <1>0, ChangeInTree
<1>2. StagedAgain(Change) => staged' \in Trees
  <2>1. fs[t] \in Kinds
    BY <1>0, <1>1 DEF Trees
  <2> QED
    BY <1>0, <2>1 DEF StagedAgain, Trees
<1>3. CASE CanUndo(Change) /\ Restores(Change) /\ UNCHANGED errors
  <2>1. t # Root /\ sub[t] # "none" => fs[Parent(t)] = "dir"
    <3> SUFFICES ASSUME t # Root, sub[t] # "none" PROVE fs[Parent(t)] = "dir"
      OBVIOUS
    <3>1. t \in Entries
      BY <1>1 DEF Entries
    <3>2. CASE Change.kind = "created"
      BY <1>1, <3>2 DEF ChangeFits
    <3>3. CASE Change.kind = "replaced"
      BY <1>3, <3>3 DEF CanUndo, HasParent
    <3>4. CASE Change.kind = "installed"
      BY <1>0, <1>3, <3>1, <3>4 DEF CanUndo, WellFormed
    <3> QED
      BY <1>1, <3>2, <3>3, <3>4
  <2>2. /\ With(t, sub) \in Trees /\ WellFormed(With(t, sub))
        /\ \A p \in Paths \ Below(t) : With(t, sub)[p] = fs[p]
        /\ \A p \in Below(t) : With(t, sub)[p] = sub[p]
    <3>1. t = Root => ~IsFile(sub[t])
      BY <1>1 DEF ChangeFits
    <3>2. \A p \in Below(t) \ {t} : sub[p] # "none" => sub[Parent(p)] = "dir"
      BY <1>1 DEF ChangeFits
    <3> HIDE DEF t, sub
    <3> QED
      BY <1>0, <1>1, <2>1, <3>1, <3>2, WithIsTree
  <2>3. fs' = With(t, sub) /\ staged' \in Trees
    BY <1>2, <1>3 DEF Restores
  <2> QED
    BY <1>3, <2>2, <2>3
<1>4. CASE LosesBackup(Change) /\ errors' = TRUE
  <2>1. With(t, Nothing(t)) \in Trees /\ WellFormed(With(t, Nothing(t)))
    <3> HIDE DEF t
    <3> QED BY <1>0, <1>1, ClearedIsTree
  <2> QED
    BY <1>2, <1>4, <2>1 DEF LosesBackup
<1>5. CASE errors' = TRUE /\ UNCHANGED <<fs, staged>>
  BY <1>0, <1>5
<1> QED
  BY <1>3, <1>4, <1>5 DEF RollbackStep

(* The log without its last change.                                        *)
LEMMA ShorterLog ==
  ASSUME log \in Seq(Changes), log # <<>>, log' = SubSeq(log, 1, Len(log) - 1)
  PROVE  /\ log' \in Seq(Changes)
         /\ Len(log) \in Nat \ {0} /\ DOMAIN log = 1 .. Len(log)
         /\ DOMAIN log' = 1 .. Len(log) - 1
         /\ \A i \in 1 .. Len(log) - 1 : log'[i] = log[i]
<1>1. Len(log) \in Nat \ {0} /\ DOMAIN log = 1 .. Len(log)
  BY EmptySeq, LenProperties
<1>2. \A i \in 1 .. Len(log) - 1 : log[i] \in Changes
  BY <1>1, ElementOfSeq
<1>3. /\ log' \in Seq(Changes) /\ Len(log') = Len(log) - 1
      /\ \A i \in 1 .. Len(log) - 1 : log'[i] = log[i]
  <2>1. 1 \in Int /\ Len(log) - 1 \in Int
    BY <1>1
  <2> QED
    BY <1>1, <1>2, <2>1, SubSeqProperties
<1> QED
  BY <1>1, <1>3, LenProperties

(* A step of the rollback keeps the first layers.                          *)
LEMMA RollbackStepBasic ==
  ASSUME Basic, RollbackStep
  PROVE  Basic'
<1>1. /\ pc = "rollback" /\ log # <<>> /\ log' = SubSeq(log, 1, Len(log) - 1)
      /\ UNCHANGED <<request, plan, todo, pc, seen, before>>
      /\ errors' \in BOOLEAN
  BY DEF RollbackStep, Basic, Shape
<1>2. /\ fs' \in Trees /\ WellFormed(fs') /\ staged' \in Trees
      /\ ~errors' => /\ ~errors
                     /\ \A p \in Below(Change.target) : fs'[p] = Change.old[p]
                     /\ \A p \in Paths \ Below(Change.target) : fs'[p] = fs[p]
  BY UndoEffect
<1> DEFINE n == Len(log)
<1>3. /\ log' \in Seq(Changes) /\ n \in Nat \ {0} /\ DOMAIN log = 1 .. n
      /\ DOMAIN log' = 1 .. n - 1
      /\ \A i \in 1 .. n - 1 : log'[i] = log[i]
  BY <1>1, ShorterLog DEF Basic, Shape
<1>4. Shape' /\ TreesFit'
  BY <1>1, <1>2, <1>3 DEF Basic, Shape, TreesFit
<1>5. LogFits'
  <2>1. \A i \in DOMAIN log' : ChangeFits(log'[i])
    BY <1>3 DEF Basic, LogFits
  <2>2. ASSUME ~errors' PROVE LogRestores'
    <3>0. LogRestores /\ Change = log[n] /\ before' = before
      BY <1>1, <1>2, <2>2 DEF Basic, LogFits, Change
    <3>1. ASSUME NEW p \in Paths, \A i \in DOMAIN log' : p \notin Below(log'[i].target)
          PROVE  fs'[p] = before[p]
      <4>1. \A j \in 1 .. n - 1 : p \notin Below(log[j].target)
        BY <1>3, <3>1
      <4>2. CASE p \in Below(log[n].target)
        BY <1>2, <1>3, <2>2, <3>0, <4>1, <4>2 DEF LogRestores
      <4>3. CASE p \notin Below(log[n].target)
        <5>1. \A j \in DOMAIN log : p \notin Below(log[j].target)
          BY <1>3, <4>1, <4>3
        <5> QED
          BY <1>2, <2>2, <3>0, <3>1, <4>3, <5>1 DEF LogRestores
      <4> QED
        BY <4>2, <4>3
    <3>2. ASSUME NEW i \in 1 .. n - 1, NEW p \in Below(log'[i].target),
                 \A j \in 1 .. i - 1 : p \notin Below(log'[j].target)
          PROVE  log'[i].old[p] = before[p]
      <4>1. log'[i] = log[i] /\ i \in DOMAIN log /\ \A j \in 1 .. i - 1 : log'[j] = log[j]
        BY <1>3
      <4> QED
        BY <3>0, <3>2, <4>1 DEF LogRestores
    <3> QED
      BY <1>3, <3>0, <3>1, <3>2 DEF LogRestores
  <2> QED
    BY <1>1, <1>2, <2>1, <2>2 DEF Basic, LogFits
<1>6. PlanFits'
  <2>1. ClientManifest' = ClientManifest /\ Baseline' = Baseline
    BY <1>1 DEF ClientManifest, Baseline
  <2> QED
    BY <1>1, <2>1 DEF Basic, PlanFits
<1> QED
  BY <1>4, <1>5, <1>6 DEF Basic

(* A stutter keeps them.                                                   *)
LEMMA StutterBasic ==
  ASSUME Basic, UNCHANGED vars
  PROVE  Basic'
<1>1. /\ UNCHANGED <<request, fs, staged, plan, todo, log, errors, pc, seen, before>>
  BY DEF vars
<1>2. ClientManifest' = ClientManifest /\ Baseline' = Baseline
  BY <1>1 DEF ClientManifest, Baseline
<1>3. Shape' /\ TreesFit' /\ LogFits' /\ PlanFits'
  BY <1>1, <1>2 DEF Basic, Shape, TreesFit, LogFits, LogRestores, PlanFits
<1> QED
  BY <1>3 DEF Basic

(* Every step keeps the first layers.                                      *)
LEMMA NextBasic ==
  Basic /\ [Next]_vars => Basic'
<1> SUFFICES ASSUME Basic, [Next]_vars PROVE Basic'
  OBVIOUS
<1>1. CASE Operates
  BY <1>1, OperationBasic
<1>2. CASE create_plan
  BY <1>2, CreatePlanBasic
<1>3. CASE PlanRejected
  BY <1>3, PlanRejectedBasic
<1>4. CASE OutsideWrites
  BY <1>4, OutsideWritesBasic
<1>5. CASE CommitChecks
  BY <1>5, CommitChecksBasic
<1>6. CASE CommitEnds \/ RollbackEnds \/ WorkerPanics
  BY <1>6, EndsBasic
<1>7. CASE RollbackStep
  BY <1>7, RollbackStepBasic
<1>8. CASE UNCHANGED vars
  BY <1>8, StutterBasic
<1> QED
  BY <1>1, <1>2, <1>3, <1>4, <1>5, <1>6, <1>7, <1>8 DEF Next, Over, Operates

(* The first layers say that the project is kept a tree.                   *)
LEMMA BasicKeepsTree ==
  Basic => TreeKept
<1> SUFFICES ASSUME Basic PROVE TreeKept
  OBVIOUS
<1>1. Touched(plan) \subseteq Entries
  <2>1. CASE pc \in {"new", "rejected"}
    BY <2>1, NoPlanFacts DEF Basic, PlanFits
  <2>2. CASE pc \notin {"new", "rejected"}
    <3>1. /\ plan = PlanFor(ClientManifest, Baseline, request.delete_extra /\ ~request.reset)
          /\ request.client \in Trees /\ seen \in Trees
      BY <2>2 DEF Basic, PlanFits, Shape, Requests
    <3>2. /\ ClientManifest \in Trees /\ ClientManifest[Root] = "none"
          /\ Baseline \in Trees /\ Baseline[Root] = "none"
      BY <3>1, ManifestType DEF ClientManifest, Baseline
    <3> QED
      BY <3>1, <3>2, PlanType
  <2> QED
    BY <2>1, <2>2
<1>2. Touched(todo) \subseteq Touched(plan)
  BY DEF Basic, PlanFits, Touched
<1>3. \A i \in DOMAIN log : /\ log[i].kind \in {"created", "replaced", "installed"}
                            /\ log[i].target \in Paths
  BY LogShape DEF Basic, Shape
<1>4. SyncTypeOK
  BY <1>1, <1>2, <1>3 DEF Basic, Shape, TreesFit, SyncTypeOK, Points
<1>5. RollbackRestores
  BY DEF Basic, LogFits, RollbackRestores
<1> QED
  BY <1>4, <1>5 DEF TreeKept

-----------------------------------------------------------------------------
(* What a reset leaves, and the progress of a plan.                        *)

(* Every step keeps what is known of a reset.                              *)
LEMMA NextReset ==
  Basic /\ ResetFits /\ [Next]_vars => ResetFits'
<1> SUFFICES ASSUME Basic, ResetFits, [Next]_vars PROVE ResetFits'
  OBVIOUS
<1>1. CASE \E t \in Entries : DeleteFile(t) \/ DeleteDir(t) \/ CreateDir(t) \/ InstallFile(t)
  <2>1. PICK t \in Entries : DeleteFile(t) \/ DeleteDir(t) \/ CreateDir(t) \/ InstallFile(t)
    BY <1>1
  <2>2. pc = "apply" /\ t \in Touched(todo)
    BY <2>1 DEF DeleteFile, DeleteDir, CreateDir, InstallFile, Touched
  <2>3. ~request.reset
    BY <2>2, NoPlanFacts DEF ResetFits
  <2>4. Operation
    BY <1>1, OperatesEffect DEF Operates, Basic
  <2>5. pc' \in {"apply", "rollback"} /\ request' = request
    BY <2>4 DEF Operation
  <2> QED
    BY <2>3, <2>5 DEF ResetFits
<1>2. CASE CreateRoot
  BY <1>2 DEF CreateRoot, Refuses, TransactionFrame, ResetFits
<1>3. CASE ReplaceProject
  <2>1. pc = "reset" /\ request' = request /\ pc' \in {"apply", "rollback"}
    BY <1>3 DEF ReplaceProject, Breaks, TransactionFrame
  <2>2. pc' = "apply" => todo' = NoPlan /\ fs' = [ClientManifest' EXCEPT ![Root] = "dir"]
    BY <1>3 DEF ReplaceProject, Breaks, TransactionFrame, ClientManifest
  <2> QED
    BY <2>1, <2>2 DEF ResetFits
<1>4. CASE create_plan \/ PlanRejected \/ OutsideWrites
  BY <1>4 DEF create_plan, PlanRejected, OutsideWrites, ResetFits
<1>5. CASE CommitChecks
  BY <1>5 DEF CommitChecks, ResetFits
<1>6. CASE CommitEnds
  BY <1>6 DEF CommitEnds, ResetFits, Settled, Touched, ClientManifest
<1>7. CASE RollbackEnds \/ WorkerPanics \/ RollbackStep
  BY <1>7 DEF RollbackEnds, WorkerPanics, RollbackStep, ResetFits
<1>8. CASE UNCHANGED vars
  BY <1>8 DEF vars, ResetFits, Settled, Touched, ClientManifest
<1> QED
  BY <1>1, <1>2, <1>3, <1>4, <1>5, <1>6, <1>7, <1>8 DEF Next, Over

(* What an operation on t leaves of ProgressFits to show: what it did to   *)
(* t, and which list it took it from.                                      *)
Advance(t, list) ==
  /\ pc = "apply" /\ pc' = "apply"
  /\ Done(list, t)
  /\ TransactionFrame
  /\ \A p \in Paths \ {t} : fs'[p] = fs[p] /\ staged'[p] = staged[p]

(* An operation on t that did what the plan says of t keeps the progress.  *)
LEMMA AdvanceFrame ==
  ASSUME Basic, ProgressFits, ~request.reset, NEW t \in Entries,
         NEW list \in {"create_dirs", "upload_files", "delete_files", "delete_dirs"},
         Advance(t, list),
         fs'[t] = Reached(t)', OrderFits',
         list # "upload_files" => UNCHANGED staged
  PROVE  ProgressFits'
<1>1. /\ todo' \in Plans /\ Smaller(todo', todo)
      /\ todo'.create_dirs = IF list = "create_dirs" THEN todo.create_dirs \ {t} ELSE todo.create_dirs
      /\ todo'.upload_files = IF list = "upload_files" THEN todo.upload_files \ {t} ELSE todo.upload_files
      /\ todo'.delete_files = IF list = "delete_files" THEN todo.delete_files \ {t} ELSE todo.delete_files
      /\ todo'.delete_dirs = IF list = "delete_dirs" THEN todo.delete_dirs \ {t} ELSE todo.delete_dirs
  BY DoneFacts DEF Advance, Basic, Shape
<1>2. /\ pc = "apply" /\ pc' = "apply"
      /\ UNCHANGED <<request, plan, errors, seen, before>>
      /\ \A p \in Paths \ {t} : fs'[p] = fs[p] /\ staged'[p] = staged[p]
      /\ ClientManifest' = ClientManifest
  BY DEF Advance, TransactionFrame, ClientManifest
<1>3. ASSUME NEW p \in Entries \ {t} PROVE fs'[p] = Reached(p)'
  <2>1. Reached(p)' = Reached(p)
    BY <1>1, <1>2, <1>3 DEF Reached
  <2> QED
    BY <1>2, <1>3, <2>1 DEF ProgressFits, Entries
<1>4. ASSUME NEW p \in todo'.upload_files PROVE staged'[p] = ClientManifest'[p]
  <2>1. p \in todo.upload_files /\ p \in Paths
    BY <1>1 DEF Smaller, Basic, Shape, Plans
  <2>2. CASE list = "upload_files"
    BY <1>1, <1>2, <2>1, <2>2 DEF ProgressFits
  <2>3. CASE list # "upload_files"
    BY <1>2, <2>1, <2>3 DEF ProgressFits
  <2> QED
    BY <2>2, <2>3
<1>5. Root \in Paths /\ t # Root
  BY RootIsAbove, PathsAssumption DEF Root, Entries
<1> QED
  BY <1>2, <1>3, <1>4, <1>5 DEF ProgressFits, Touched

(* A deletion.                                                             *)
LEMMA RemoveProgress ==
  ASSUME Basic, ProgressFits, ~request.reset, NEW t \in Entries,
         NEW list \in {"delete_files", "delete_dirs"}, t \in todo[list],
         Done(list, t), UNCHANGED <<staged, pc>>, TransactionFrame, pc = "apply",
         delete_file(t) \/ delete_empty_dir(t)
  PROVE  ProgressFits'
<1>1. /\ todo'.create_dirs = todo.create_dirs /\ todo'.upload_files = todo.upload_files
      /\ todo'.delete_files = IF list = "delete_files" THEN todo.delete_files \ {t} ELSE todo.delete_files
      /\ todo'.delete_dirs = IF list = "delete_dirs" THEN todo.delete_dirs \ {t} ELSE todo.delete_dirs
  BY DoneFacts DEF Basic, Shape
<1>2. fs'[t] = "none" /\ \A p \in Paths \ {t} : fs'[p] = fs[p]
  BY RemovalEffect DEF Basic
<1>3. /\ todo.create_dirs = plan.create_dirs /\ todo.upload_files = plan.upload_files
      /\ t \in plan.delete_files \/ t \in plan.delete_dirs
      /\ t \in todo.delete_files \cup todo.delete_dirs
  BY DEF ProgressFits, OrderFits, Basic, PlanFits
<1>4. plan' = plan
  BY DEF TransactionFrame
<1>5. Reached(t)' = "none"
  <2>1. CASE list = "delete_files"
    BY <1>1, <1>3, <1>4, <2>1 DEF Reached, Basic, PlanFits
  <2>2. CASE list = "delete_dirs"
    BY <1>1, <1>3, <1>4, <2>2 DEF Reached, Basic, PlanFits
  <2> QED
    BY <2>1, <2>2
<1>6. OrderFits'
  BY <1>1, <1>3, <1>4 DEF OrderFits
<1> QED
  BY <1>2, <1>5, <1>6, AdvanceFrame DEF Advance

(* A new directory.                                                        *)
LEMMA MakeDirProgress ==
  ASSUME Basic, ProgressFits, ~request.reset, NEW t \in Entries,
         t \in todo.create_dirs, todo.delete_files \cup todo.delete_dirs = {},
         Done("create_dirs", t), UNCHANGED <<staged, pc>>, TransactionFrame, pc = "apply",
         create_dir(t)
  PROVE  ProgressFits'
<1>1. /\ todo'.create_dirs = todo.create_dirs \ {t} /\ todo'.upload_files = todo.upload_files
      /\ todo'.delete_files = todo.delete_files
      /\ todo'.delete_dirs = todo.delete_dirs
  BY DoneFacts DEF Basic, Shape
<1>2. fs'[t] = "dir" /\ \A p \in Paths \ {t} : fs'[p] = fs[p]
  BY CreateDirEffect DEF Basic, Entries
<1>3. todo.upload_files = plan.upload_files /\ t \in plan.create_dirs
  BY DEF ProgressFits, OrderFits, Basic, PlanFits
<1>4. plan' = plan
  BY DEF TransactionFrame
<1>5. Reached(t)' = "dir"
  BY <1>1, <1>3, <1>4 DEF Reached
<1>6. OrderFits'
  BY <1>1, <1>3, <1>4 DEF OrderFits
<1> QED
  BY <1>2, <1>5, <1>6, AdvanceFrame DEF Advance

(* An upload.                                                              *)
LEMMA InstallProgress ==
  ASSUME Basic, ProgressFits, ~request.reset, NEW t \in Entries,
         t \in todo.upload_files,
         todo.delete_files \cup todo.delete_dirs \cup todo.create_dirs = {},
         Done("upload_files", t), UNCHANGED pc, TransactionFrame, pc = "apply",
         fs[t] # "dir", HasParent(t), Logged("installed", t),
         fs' = [fs EXCEPT ![t] = staged[t]],
         staged' = [staged EXCEPT ![t] = "none"]
  PROVE  ProgressFits'
<1>1. /\ todo'.create_dirs = todo.create_dirs /\ todo'.upload_files = todo.upload_files \ {t}
      /\ todo'.delete_files = todo.delete_files
      /\ todo'.delete_dirs = todo.delete_dirs
  BY DoneFacts DEF Basic, Shape
<1>2. fs'[t] = staged[t] /\ \A p \in Paths \ {t} : fs'[p] = fs[p] /\ staged'[p] = staged[p]
  <2>1. staged \in Trees
    BY DEF Basic, Shape
  <2> QED
    BY <2>1, InstallEffect DEF Basic, Trees
<1>3. staged[t] = ClientManifest[t] /\ t \in plan.upload_files
  BY DEF ProgressFits, Basic, PlanFits
<1>4. plan' = plan /\ ClientManifest' = ClientManifest
  BY DEF TransactionFrame, ClientManifest
<1>5. Reached(t)' = ClientManifest[t]
  BY <1>1, <1>3, <1>4 DEF Reached
<1>6. OrderFits'
  BY <1>1 DEF OrderFits
<1> QED
  BY <1>2, <1>3, <1>5, <1>6, AdvanceFrame DEF Advance

(* Every step keeps what is known of the progress.                         *)
LEMMA NextProgress ==
  Basic /\ ResetFits /\ ProgressFits /\ [Next]_vars => ProgressFits'
<1> SUFFICES ASSUME Basic, ResetFits, ProgressFits, [Next]_vars,
                    pc' \in {"root", "apply", "committed"}, ~request'.reset
             PROVE  ProgressFits'
  BY DEF ProgressFits
<1>1. ASSUME NEW t \in Entries, DeleteFile(t) \/ DeleteDir(t) \/ CreateDir(t) \/ InstallFile(t)
      PROVE  ProgressFits'
  <2>1. Operation
    BY <1>1, OperatesEffect DEF Operates, Basic
  <2>2. ~request.reset /\ pc' = "apply"
    BY <2>1 DEF Operation
  <2>3. CASE DeleteFile(t)
    BY <2>2, <2>3, RemoveProgress DEF DeleteFile, Refuses
  <2>4. CASE DeleteDir(t)
    BY <2>2, <2>4, RemoveProgress DEF DeleteDir, Refuses
  <2>5. CASE CreateDir(t)
    BY <2>2, <2>5, MakeDirProgress DEF CreateDir, Refuses
  <2>6. CASE InstallFile(t)
    BY <2>2, <2>6, InstallProgress DEF InstallFile, Refuses, Breaks
  <2> QED
    BY <1>1, <2>3, <2>4, <2>5, <2>6
<1>2. CASE CreateRoot
  <2>1. /\ create_dir(Root) /\ pc = "root" /\ pc' = "apply"
        /\ UNCHANGED <<staged, todo>> /\ TransactionFrame
    BY <1>2 DEF CreateRoot, Refuses
  <2>2. fs'[Root] = "dir" /\ \A p \in Entries : fs'[p] = fs[p]
    BY <2>1, CreateDirEffect, PathsAssumption DEF Basic, Entries, Root
  <2>3. UNCHANGED <<request, plan, todo, staged, before>> /\ ClientManifest' = ClientManifest
    BY <2>1 DEF TransactionFrame, ClientManifest
  <2>4. \A p \in Entries : Reached(p)' = Reached(p)
    BY <2>3 DEF Reached
  <2> QED
    BY <2>1, <2>2, <2>3, <2>4 DEF ProgressFits, OrderFits, Touched
<1>3. CASE ReplaceProject
  <2>1. request.reset /\ request' = request
    BY <1>3 DEF ReplaceProject, Breaks, TransactionFrame, ResetFits
  <2> QED
    BY <2>1
<1>4. CASE create_plan \/ PlanRejected \/ OutsideWrites
  BY <1>4 DEF create_plan, PlanRejected, OutsideWrites
<1>5. CASE CommitChecks
  <2>1. /\ Checks /\ pc' = "root" /\ before' = fs /\ todo' = plan
        /\ UNCHANGED <<request, fs, staged, plan, log, errors, seen>>
        /\ ~request.reset
    BY <1>5 DEF CommitChecks
  <2>2. ClientManifest' = ClientManifest
    BY <2>1 DEF ClientManifest
  <2>3. StagingIntact /\ \A p \in Touched(plan) : BaselineMatches(p)
    BY <2>1 DEF Checks
  <2>4. \A p \in Entries : fs'[p] = Reached(p)'
    BY <2>1 DEF Reached
  <2> QED
    BY <2>1, <2>2, <2>3, <2>4 DEF ProgressFits, OrderFits, StagingIntact, BaselineMatches, Touched
<1>6. CASE CommitEnds
  <2>1. /\ pc = "apply" /\ pc' = "committed"
        /\ UNCHANGED <<request, fs, staged, plan, todo, log, errors, seen, before>>
    BY <1>6 DEF CommitEnds
  <2>2. ClientManifest' = ClientManifest
    BY <2>1 DEF ClientManifest
  <2>3. \A p \in Entries : Reached(p)' = Reached(p)
    BY <2>1, <2>2 DEF Reached
  <2> QED
    BY <2>1, <2>2, <2>3 DEF ProgressFits, OrderFits, Touched
<1>7. CASE RollbackEnds \/ WorkerPanics \/ RollbackStep
  BY <1>7 DEF RollbackEnds, WorkerPanics, RollbackStep
<1>8. CASE UNCHANGED vars
  <2>1. UNCHANGED <<request, fs, staged, plan, todo, log, errors, pc, seen, before>>
    BY <1>8 DEF vars
  <2>2. ClientManifest' = ClientManifest
    BY <2>1 DEF ClientManifest
  <2>3. \A p \in Entries : Reached(p)' = Reached(p)
    BY <2>1, <2>2 DEF Reached
  <2> QED
    BY <2>1, <2>2, <2>3 DEF ProgressFits, OrderFits, Touched
<1> QED
  BY <1>1, <1>2, <1>3, <1>4, <1>5, <1>6, <1>7, <1>8 DEF Next, Over

-----------------------------------------------------------------------------
(* The theorems.                                                           *)

(* The invariant holds of a new push.                                      *)
LEMMA InitInv ==
  Init => SyncCommitInv
<1>1. Init => Basic
  BY InitBasic
<1>2. Init => ResetFits /\ ProgressFits
  BY DEF Init, ResetFits, ProgressFits
<1> QED
  BY <1>1, <1>2 DEF Basic, SyncCommitInv

(* Every step keeps the invariant.                                         *)
LEMMA NextInv ==
  SyncCommitInv /\ [Next]_vars => SyncCommitInv'
<1> SUFFICES ASSUME SyncCommitInv, [Next]_vars PROVE SyncCommitInv'
  OBVIOUS
<1>1. Basic /\ ResetFits /\ ProgressFits
  BY DEF Basic, SyncCommitInv
<1>2. Basic' /\ ResetFits' /\ ProgressFits'
  BY <1>1, NextBasic, NextReset, NextProgress
<1> QED
  BY <1>2 DEF Basic, SyncCommitInv

(* The inductive invariant holds at every step of a push: what the log     *)
(* lets rollback restore, and how far the plan has been carried out.       *)
THEOREM SyncCommitInvariant ==
  Spec => []SyncCommitInv
BY InitInv, NextInv, PTL DEF Spec

(* CommitTransaction: the project is a tree at every step of the commit    *)
(* and of its rollback, and a commit that fails without asking for a new   *)
(* upload has put everything back, whatever operation failed and however   *)
(* many were done.                                                         *)
THEOREM TreeIsKept ==
  Spec => []TreeKept
<1>1. SyncCommitInv => TreeKept
  BY BasicKeepsTree DEF SyncCommitInv, Basic
<1> QED
  BY <1>1, SyncCommitInvariant, PTL

(* The plan of a commit under way, spelled out                             *)
LEMMA PlanIs ==
  ASSUME Basic, pc \notin {"new", "rejected"}, ~request.reset
  PROVE  /\ ClientManifest \in Trees /\ ClientManifest[Root] = "none"
         /\ plan.baseline = manifest(seen, request.selected)
         /\ plan.baseline \in Trees /\ plan.baseline[Root] = "none"
         /\ \A p \in Paths :
              /\ p \in plan.create_dirs <=> ClientManifest[p] = "dir" /\ plan.baseline[p] # "dir"
              /\ p \in plan.upload_files <=> IsFile(ClientManifest[p]) /\ plan.baseline[p] # ClientManifest[p]
              /\ p \in plan.delete_files <=>
                   IsFile(plan.baseline[p])
                     /\ Doomed(p, ClientManifest, plan.baseline, request.delete_extra)
              /\ p \in plan.delete_dirs <=>
                   plan.baseline[p] = "dir"
                     /\ Doomed(p, ClientManifest, plan.baseline, request.delete_extra)
         /\ seen \in Trees /\ WellFormed(seen)
         /\ \A q \in Entries, p \in Paths :
              Ancestor(q, p) /\ ClientManifest[p] # "none" => ClientManifest[q] = "dir"
<1>1. /\ ValidManifest(request.client, request.selected)
      /\ plan = PlanFor(ClientManifest, Baseline, request.delete_extra /\ ~request.reset)
      /\ request.client \in Trees /\ seen \in Trees /\ WellFormed(seen)
      /\ request.delete_extra \in BOOLEAN
  BY DEF Basic, PlanFits, TreesFit, Shape, Requests
<1>2. Baseline = manifest(seen, request.selected) /\ plan.baseline = Baseline
  BY <1>1 DEF Baseline, PlanFor
<1>3. /\ ClientManifest \in Trees /\ ClientManifest[Root] = "none"
      /\ Baseline \in Trees /\ Baseline[Root] = "none"
  BY <1>1, <1>2, ManifestType DEF ClientManifest
<1>4. (request.delete_extra /\ ~request.reset) = request.delete_extra
  BY <1>1
<1>5. \A p \in Paths :
        /\ p \in plan.create_dirs <=> ClientManifest[p] = "dir" /\ Baseline[p] # "dir"
        /\ p \in plan.upload_files <=> IsFile(ClientManifest[p]) /\ Baseline[p] # ClientManifest[p]
        /\ p \in plan.delete_files <=>
             IsFile(Baseline[p]) /\ Doomed(p, ClientManifest, Baseline, request.delete_extra)
        /\ p \in plan.delete_dirs <=>
             Baseline[p] = "dir" /\ Doomed(p, ClientManifest, Baseline, request.delete_extra)
  BY <1>1, <1>4 DEF PlanFor
<1>6. \A q \in Entries, p \in Paths :
        Ancestor(q, p) /\ ClientManifest[p] # "none" => ClientManifest[q] = "dir"
  BY <1>1, ManifestIsTree DEF ClientManifest
<1> QED
  BY <1>1, <1>2, <1>3, <1>5, <1>6

(* The baseline and the tree it was taken from                             *)
LEMMA BaselineIs ==
  ASSUME Basic, pc \notin {"new", "rejected"}, ~request.reset, NEW p \in Entries
  PROVE  /\ plan.baseline[p] \in {"none", seen[p]}
         /\ p \in request.selected => plan.baseline[p] = seen[p]
         /\ plan.baseline[p] \in Kinds /\ seen[p] \in Kinds /\ ClientManifest[p] \in Kinds
BY PlanIs, ManifestOfTree DEF Trees, Entries

(* What changed under the plan is what the commit has not touched.         *)
LEMMA LostEdit ==
  SyncCommitInv => NoLostEdit
<1> SUFFICES ASSUME SyncCommitInv, pc = "committed", ~request.reset, NEW p \in Entries,
                    before[p] # seen[p], before[p] # "none" \/ plan.baseline[p] # "none"
             PROVE  fs[p] = before[p]
  BY DEF NoLostEdit
<1>1. Basic /\ ProgressFits
  BY DEF SyncCommitInv, Basic
<1>2. plan.baseline[p] \in {"none", seen[p]}
  BY <1>1, BaselineIs
<1>3. p \notin Touched(plan)
  BY <1>1, <1>2 DEF ProgressFits
<1> QED
  BY <1>1, <1>3 DEF ProgressFits, Reached, Touched

(* A path that the plan leaves alone, or not                               *)
LEMMA DoneTree ==
  ASSUME SyncCommitInv, pc = "committed", ~request.reset, NEW p \in Entries
  PROVE  fs[p] = IF p \in plan.upload_files THEN ClientManifest[p]
                 ELSE IF p \in plan.create_dirs THEN "dir"
                 ELSE IF p \in plan.delete_files \cup plan.delete_dirs THEN "none"
                 ELSE before[p]
<1>1. ProgressFits /\ Touched(todo) = {}
  BY DEF SyncCommitInv, ResetFits, Settled
<1> QED
  BY <1>1 DEF ProgressFits, Reached, Touched

(* An incremental commit leaves what was promised.                         *)
LEMMA IncrementalMatches ==
  ASSUME SyncCommitInv, pc = "committed", ~request.reset, before = seen
  PROVE  fs = Promised
<1> DEFINE new == ClientManifest
           old == plan.baseline
           extra == request.delete_extra
<1>1. Basic /\ ProgressFits
  BY DEF SyncCommitInv, Basic
<1>2. /\ new \in Trees /\ old = manifest(before, request.selected)
      /\ \A p \in Paths :
           /\ p \in plan.create_dirs <=> new[p] = "dir" /\ old[p] # "dir"
           /\ p \in plan.upload_files <=> IsFile(new[p]) /\ old[p] # new[p]
           /\ p \in plan.delete_files <=> IsFile(old[p]) /\ Doomed(p, new, old, extra)
           /\ p \in plan.delete_dirs <=> old[p] = "dir" /\ Doomed(p, new, old, extra)
      /\ \A q \in Entries, p \in Paths : Ancestor(q, p) /\ new[p] # "none" => new[q] = "dir"
  BY <1>1, PlanIs
<1>3. fs \in Trees /\ WellFormed(fs) /\ Entries \subseteq Paths /\ fs[Root] = "dir"
  BY <1>1 DEF Basic, Shape, TreesFit, ProgressFits, Entries
<1>4. ASSUME NEW p \in Entries, new[p] # "none"
      PROVE  fs[p] = new[p]
  <2>1. /\ fs[p] = IF p \in plan.upload_files THEN new[p]
                   ELSE IF p \in plan.create_dirs THEN "dir"
                   ELSE IF p \in plan.delete_files \cup plan.delete_dirs THEN "none"
                   ELSE before[p]
        /\ old[p] \in {"none", before[p]} /\ old[p] \in Kinds /\ new[p] \in Kinds
    BY <1>1, DoneTree, BaselineIs
  <2>2. ~UnderReplacedDir(p, new, old)
    <3>1. \A q \in Entries : Ancestor(q, p) => ~IsFile(new[q])
      BY <1>2, <1>3, <1>4, KindsDiffer
    <3> QED
      BY <3>1 DEF UnderReplacedDir
  <2>3. CASE IsFile(new[p])
    <3>1. CASE old[p] # new[p]
      BY <1>2, <1>3, <2>1, <2>3, <3>1
    <3>2. CASE old[p] = new[p]
      <4>1. p \notin plan.upload_files /\ p \notin plan.create_dirs
        BY <1>2, <1>3, <2>3, <3>2, KindsDiffer
      <4>2. ~Doomed(p, new, old, extra)
        BY <1>4, <2>2, <2>3, <3>2, KindsDiffer DEF Doomed
      <4> QED
        BY <1>2, <1>3, <1>4, <2>1, <3>2, <4>1, <4>2
    <3> QED
      BY <3>1, <3>2
  <2>4. CASE new[p] = "dir"
    <3>1. p \notin plan.upload_files
      BY <1>2, <1>3, <2>4, KindsDiffer
    <3>2. CASE old[p] # "dir"
      BY <1>2, <1>3, <2>1, <2>4, <3>1, <3>2
    <3>3. CASE old[p] = "dir"
      <4>1. p \notin plan.create_dirs
        BY <1>2, <1>3, <3>3
      <4>2. ~Doomed(p, new, old, extra)
        BY <1>4, <2>2, <2>4, <3>3, KindsDiffer DEF Doomed
      <4> QED
        BY <1>2, <1>3, <2>1, <2>4, <3>1, <3>3, <4>1, <4>2
    <3> QED
      BY <3>2, <3>3
  <2> QED
    BY <1>4, <2>1, <2>3, <2>4, KindsDiffer
<1>5. ASSUME NEW p \in Entries, new[p] = "none"
      PROVE  fs[p] = IF \E q \in Entries : Ancestor(q, p) /\ IsFile(new[q]) THEN "none"
                     ELSE IF extra /\ old[p] # "none" THEN "none"
                     ELSE before[p]
  <2>1. /\ fs[p] = IF p \in plan.delete_files \cup plan.delete_dirs THEN "none" ELSE before[p]
        /\ old[p] \in {"none", before[p]} /\ old[p] \in Kinds
    <3>1. p \notin plan.upload_files /\ p \notin plan.create_dirs
      BY <1>2, <1>3, <1>5, KindsDiffer
    <3> QED
      BY <1>1, <3>1, DoneTree, BaselineIs
  <2>2. ASSUME NEW q \in Entries, Ancestor(q, p), IsFile(new[q])
        PROVE  fs[p] = "none"
    <3>1. new[q] # "none" /\ new[q] # "dir" /\ q \in Paths /\ p \in Paths
      BY <1>2, <1>3, <2>2, KindsDiffer
    <3>2. fs[q] = new[q]
      BY <1>4, <3>1
    <3> QED
      BY <1>3, <2>2, <3>1, <3>2, DirsAbove
  <2>3. CASE extra /\ old[p] # "none"
    <3>1. Doomed(p, new, old, extra) /\ (IsFile(old[p]) \/ old[p] = "dir")
      BY <1>5, <2>1, <2>3, KindsDiffer DEF Doomed
    <3>2. p \in plan.delete_files \cup plan.delete_dirs
      BY <1>2, <1>3, <3>1
    <3> QED
      BY <2>1, <2>3, <3>2
  <2>4. CASE ~(extra /\ old[p] # "none") /\ ~(\E q \in Entries : Ancestor(q, p) /\ IsFile(new[q]))
    <3>1. p \notin plan.delete_files /\ p \notin plan.delete_dirs
      <4>1. old[p] # "none" => ~Doomed(p, new, old, extra)
        BY <1>5, <2>4, KindsDiffer DEF Doomed, UnderReplacedDir
      <4> QED
        BY <1>2, <1>3, <4>1, KindsDiffer
    <3> QED
      BY <2>1, <2>4, <3>1
  <2> QED
    BY <2>2, <2>3, <2>4
<1>6. ASSUME NEW p \in Paths PROVE fs[p] = Promised[p]
  <2>1. CASE p = Root
    BY <1>3, <2>1 DEF Promised
  <2>2. CASE p \in Entries
    <3>1. p # Root
      BY <2>2 DEF Entries
    <3> QED
      BY <1>2, <1>4, <1>5, <2>2, <3>1 DEF Promised
  <2> QED
    BY <2>1, <2>2 DEF Entries
<1>7. Promised = [p \in Paths |-> Promised[p]]
  BY DEF Promised
<1> QED
  BY <1>3, <1>6, <1>7 DEF Trees

(* A reset leaves what was promised.                                       *)
LEMMA ResetMatches ==
  ASSUME SyncCommitInv, pc = "committed", request.reset
  PROVE  fs = Promised
<1>1. fs = [ClientManifest EXCEPT ![Root] = "dir"] /\ request.client \in Trees
  BY DEF SyncCommitInv, ResetFits, Shape, Requests
<1>2. ClientManifest \in Trees /\ Root \in Paths
  BY <1>1, ManifestType, PathsAssumption DEF ClientManifest, Root
<1>3. \A p \in Paths : fs[p] = IF p = Root THEN "dir" ELSE ClientManifest[p]
  BY <1>1, <1>2 DEF Trees
<1>4. /\ Promised = [p \in Paths |-> Promised[p]]
      /\ \A p \in Paths : Promised[p] = IF p = Root THEN "dir" ELSE ClientManifest[p]
  BY DEF Promised
<1>5. fs \in Trees
  BY DEF SyncCommitInv, Shape
<1> QED
  BY <1>3, <1>4, <1>5 DEF Trees

(* apply_commit and apply_reset: a commit that succeeds leaves exactly     *)
(* what the push promised, and loses nothing that was changed under its    *)
(* plan, for every project, manifest, filter and flag.                     *)
THEOREM CommitIsAlwaysRight ==
  Spec => []CommitIsRight
<1>1. SyncCommitInv => CommitMatches
  BY IncrementalMatches, ResetMatches DEF CommitMatches, SyncCommitInv, Shape, Requests
<1>2. SyncCommitInv => CommitIsRight
  BY <1>1, LostEdit DEF CommitIsRight
<1> QED
  BY <1>2, SyncCommitInvariant, PTL

(* Without filters the baseline is the whole project.                      *)
LEMMA WholeBaseline ==
  ASSUME Basic, pc \notin {"new", "rejected"}, ~request.reset, request.selected = Paths
  PROVE  \A p \in Entries : plan.baseline[p] = seen[p]
BY BaselineIs DEF Entries

(* A plan passes the checks of the project it was made for.                *)
LEMMA ChecksPass ==
  ASSUME SyncCommitInv, request.selected = Paths, pc = "open", Untouched
  PROVE  Checks
<1>1. Basic /\ Touched(plan) \subseteq Entries
  BY BasicKeepsTree DEF SyncCommitInv, Basic, TreeKept, SyncTypeOK
<1>2. plan.upload_files \in SUBSET Paths /\ plan.upload_files \subseteq Entries
  BY <1>1 DEF Basic, Shape, Plans, Touched
<1>3. \A p \in Paths : staged[p] = IF p \in plan.upload_files THEN ClientManifest[p] ELSE "none"
  BY DEF Untouched, Uploads
<1>4. StagingIntact /\ RebuiltIntact
  BY <1>2, <1>3 DEF StagingIntact, RebuiltIntact, Entries
<1>5. ASSUME ~request.reset, NEW p \in Touched(plan) PROVE BaselineMatches(p)
  BY <1>1, <1>5, WholeBaseline DEF BaselineMatches, Untouched
<1> QED
  BY <1>4, <1>5 DEF Checks

(* What the plan does for a project without filters, path by path          *)
LEMMA Whole ==
  ASSUME SyncCommitInv, request.selected = Paths, pc = "apply", before = seen, ~request.reset
  PROVE  /\ ClientManifest \in Trees /\ before \in Trees /\ WellFormed(before)
         /\ plan.baseline \in Trees
         /\ \A p \in Entries : plan.baseline[p] = before[p]
         /\ \A p \in Entries :
              /\ p \in plan.create_dirs <=> ClientManifest[p] = "dir" /\ before[p] # "dir"
              /\ p \in plan.upload_files <=> IsFile(ClientManifest[p]) /\ before[p] # ClientManifest[p]
              /\ p \in plan.delete_files <=>
                   IsFile(before[p]) /\ Doomed(p, ClientManifest, plan.baseline, request.delete_extra)
              /\ p \in plan.delete_dirs <=>
                   before[p] = "dir" /\ Doomed(p, ClientManifest, plan.baseline, request.delete_extra)
         /\ \A q \in Entries, p \in Paths :
              Ancestor(q, p) /\ ClientManifest[p] # "none" => ClientManifest[q] = "dir"
         /\ Smaller(todo, plan) /\ OrderFits
         /\ fs[Root] = "dir"
         /\ \A p \in Entries : fs[p] = Reached(p)
         /\ todo.create_dirs \subseteq Entries /\ todo.upload_files \subseteq Entries
         /\ todo.delete_files \subseteq Entries /\ todo.delete_dirs \subseteq Entries
<1>1. Basic /\ ProgressFits /\ Touched(todo) \subseteq Entries
  BY BasicKeepsTree DEF SyncCommitInv, Basic, TreeKept, SyncTypeOK
<1>2. \A p \in Entries : p \in Paths /\ plan.baseline[p] = before[p]
  BY <1>1, WholeBaseline DEF Entries
<1>3. /\ todo.create_dirs \subseteq Entries /\ todo.upload_files \subseteq Entries
      /\ todo.delete_files \subseteq Entries /\ todo.delete_dirs \subseteq Entries
  BY <1>1 DEF Touched
<1>4. Smaller(todo, plan) /\ before \in Trees /\ WellFormed(before)
  BY <1>1 DEF Basic, PlanFits, Smaller, Shape, TreesFit
<1>5. fs[Root] = "dir" /\ OrderFits /\ \A p \in Entries : fs[p] = Reached(p)
  BY <1>1 DEF ProgressFits
<1>6. /\ ClientManifest \in Trees /\ plan.baseline \in Trees
      /\ \A q \in Entries, p \in Paths :
              Ancestor(q, p) /\ ClientManifest[p] # "none" => ClientManifest[q] = "dir"
  BY <1>1, PlanIs
<1>7. \A p \in Entries :
              /\ p \in plan.create_dirs <=> ClientManifest[p] = "dir" /\ before[p] # "dir"
              /\ p \in plan.upload_files <=> IsFile(ClientManifest[p]) /\ before[p] # ClientManifest[p]
              /\ p \in plan.delete_files <=>
                   IsFile(before[p]) /\ Doomed(p, ClientManifest, plan.baseline, request.delete_extra)
              /\ p \in plan.delete_dirs <=>
                   before[p] = "dir" /\ Doomed(p, ClientManifest, plan.baseline, request.delete_extra)
  BY <1>1, <1>2, PlanIs
<1> QED
  BY <1>2, <1>3, <1>4, <1>5, <1>6, <1>7

(* The doom of a directory is that of everything in it.                    *)
LEMMA DoomSpreads ==
  ASSUME SyncCommitInv, request.selected = Paths, pc = "apply", before = seen, ~request.reset,
         NEW t \in plan.delete_dirs, t \in Entries, NEW p \in Entries, Ancestor(t, p)
  PROVE  Doomed(p, ClientManifest, plan.baseline, request.delete_extra)
<1> DEFINE new == ClientManifest
           old == plan.baseline
           extra == request.delete_extra
<1>1. /\ before[t] = "dir" /\ old[t] = "dir" /\ Doomed(t, new, old, extra)
      /\ p \in Paths /\ t \in Paths /\ new \in Trees
      /\ \A q \in Entries, r \in Paths : Ancestor(q, r) /\ new[r] # "none" => new[q] = "dir"
  BY Whole DEF Entries
<1>2. CASE IsFile(new[t])
  BY <1>1, <1>2 DEF Doomed, UnderReplacedDir
<1>3. CASE UnderReplacedDir(t, new, old)
  <2>1. PICK q \in Entries : Ancestor(q, t) /\ IsFile(new[q]) /\ old[q] = "dir"
    BY <1>3 DEF UnderReplacedDir
  <2>2. Ancestor(q, p)
    BY <1>1, <2>1, AncestorTransitive DEF Entries
  <2> QED
    BY <2>1, <2>2 DEF Doomed, UnderReplacedDir
<1>4. CASE extra /\ new[t] = "none"
  <2>1. new[p] = "none"
    BY <1>1, <1>4
  <2> QED
    BY <1>4, <2>1 DEF Doomed
<1>5. ~IsFile(old[t])
  BY <1>1, KindsDiffer
<1> QED
  BY <1>1, <1>2, <1>3, <1>4, <1>5 DEF Doomed

(* What is deleted as a file is none of the directories.                   *)
LEMMA FilesGo ==
  ASSUME SyncCommitInv, request.selected = Paths, pc = "apply", before = seen, ~request.reset,
         NEW t \in todo.delete_files
  PROVE  fs[t] # "dir"
<1>1. t \in Entries /\ t \in plan.delete_files /\ IsFile(before[t])
  BY Whole DEF Smaller
<1>2. todo.create_dirs = plan.create_dirs /\ todo.upload_files = plan.upload_files
  BY Whole DEF OrderFits
<1>3. t \notin plan.delete_dirs
  BY <1>1, Whole, KindsDiffer
<1>4. fs[t] = before[t]
  BY <1>1, <1>2, <1>3, Whole DEF Reached
<1> QED
  BY <1>1, <1>4, KindsDiffer

(* The deepest directory that is deleted is empty.                         *)
LEMMA DirsGo ==
  ASSUME SyncCommitInv, request.selected = Paths, pc = "apply", before = seen, ~request.reset,
         todo.delete_files = {}, NEW t \in todo.delete_dirs,
         \A p \in todo.delete_dirs : Len(p) <= Len(t)
  PROVE  IsEmptyDir(t)
<1>1. t \in Entries /\ t \in plan.delete_dirs /\ before[t] = "dir"
  BY Whole DEF Smaller
<1>2. todo.create_dirs = plan.create_dirs /\ todo.upload_files = plan.upload_files
  BY Whole DEF OrderFits
<1>3. t \notin plan.delete_files
  BY <1>1, Whole, KindsDiffer
<1>4. fs[t] = "dir"
  BY <1>1, <1>2, <1>3, Whole DEF Reached
<1>5. ASSUME NEW p \in Below(t) \ {t} PROVE fs[p] = "none"
  <2>1. p \in Paths /\ Ancestor(t, p) /\ p \in Entries
    BY <1>1, AncestorOfParent DEF Below, Entries
  <2>2. Doomed(p, ClientManifest, plan.baseline, request.delete_extra)
    BY <1>1, <2>1, DoomSpreads
  <2>3. before[p] \in Kinds /\ fs[p] = Reached(p)
    BY <2>1, Whole DEF Trees
  <2>4. CASE before[p] = "none"
    BY <1>2, <2>3, <2>4 DEF Reached
  <2>5. CASE IsFile(before[p])
    <3>1. p \in plan.delete_files
      BY <2>1, <2>2, <2>5, Whole
    <3> QED
      BY <1>2, <2>3, <3>1 DEF Reached
  <2>6. CASE before[p] = "dir"
    <3>1. p \in plan.delete_dirs
      BY <2>1, <2>2, <2>6, Whole
    <3>2. p \notin todo.delete_dirs
      <4>1. t \in Paths
        BY <1>1 DEF Entries
      <4> QED
        BY <2>1, <4>1, AncestorIsShorter
    <3> QED
      BY <1>2, <2>3, <3>1, <3>2 DEF Reached
  <2> QED
    BY <2>3, <2>4, <2>5, <2>6, KindsDiffer
<1> QED
  BY <1>4, <1>5 DEF IsEmptyDir

(* Once the directories are made, one is wherever the client has one.      *)
LEMMA ParentsStand ==
  ASSUME SyncCommitInv, request.selected = Paths, pc = "apply", before = seen, ~request.reset,
         todo.delete_files \cup todo.delete_dirs = {},
         NEW t \in Entries, ClientManifest[t] # "none",
         Parent(t) \notin todo.create_dirs
  PROVE  HasParent(t)
<1> DEFINE q == Parent(t)
           new == ClientManifest
<1>1. q \in Paths /\ Ancestor(q, t) /\ t # Root /\ t \in Paths
  BY ParentFacts DEF Entries
<1>2. CASE q = Root
  BY <1>2, Whole DEF HasParent
<1>3. CASE q \in Entries
  <2>1. new[q] = "dir"
    BY <1>1, <1>3, Whole
  <2>2. q \notin plan.upload_files
    BY <1>3, <2>1, Whole, KindsDiffer
  <2>3. CASE before[q] = "dir"
    <3>1. ~UnderReplacedDir(q, new, plan.baseline)
      <4>1. \A r \in Entries : Ancestor(r, q) => new[r] = "dir"
        BY <1>1, <2>1, Whole
      <4> QED
        BY <4>1, KindsDiffer DEF UnderReplacedDir
    <3>2. ~Doomed(q, new, plan.baseline, request.delete_extra)
      <4>1. plan.baseline[q] = "dir" /\ ~IsFile(new[q]) /\ ~IsFile(plan.baseline[q]) /\ new[q] # "none"
        BY <1>3, <2>1, <2>3, Whole, KindsDiffer
      <4> QED
        BY <3>1, <4>1 DEF Doomed
    <3>3. q \notin plan.delete_files /\ q \notin plan.delete_dirs /\ q \notin plan.create_dirs
      BY <1>3, <2>3, <3>2, Whole
    <3>4. fs[q] = "dir"
      BY <1>3, <2>2, <2>3, <3>3, Whole DEF Reached
    <3> QED
      BY <3>4 DEF HasParent
  <2>4. CASE before[q] # "dir"
    <3>1. q \in plan.create_dirs \ todo.create_dirs
      BY <1>3, <2>1, <2>4, Whole
    <3>2. fs[q] = "dir"
      BY <1>3, <2>2, <3>1, Whole DEF Reached
    <3> QED
      BY <3>2 DEF HasParent
  <2> QED
    BY <2>3, <2>4
<1> QED
  BY <1>1, <1>2, <1>3 DEF Entries

(* A directory is created in one that stands, where nothing does.          *)
LEMMA DirsCome ==
  ASSUME SyncCommitInv, request.selected = Paths, pc = "apply", before = seen, ~request.reset,
         todo.delete_files \cup todo.delete_dirs = {}, NEW t \in todo.create_dirs,
         \A p \in todo.create_dirs : ~Ancestor(p, t)
  PROVE  ~IsFile(fs[t]) /\ HasParent(t)
<1>1. t \in Entries /\ t \in plan.create_dirs /\ ClientManifest[t] = "dir" /\ before[t] # "dir"
  BY Whole DEF Smaller
<1>2. todo.upload_files = plan.upload_files
  BY Whole DEF OrderFits
<1>3. HasParent(t)
  BY <1>1, ParentFacts, ParentsStand
<1>4. CASE IsFile(before[t])
  <2>1. t \in plan.delete_files
    <3>1. IsFile(plan.baseline[t])
      BY <1>1, <1>4, Whole
    <3>2. Doomed(t, ClientManifest, plan.baseline, request.delete_extra)
      BY <1>1, <3>1 DEF Doomed
    <3> QED
      BY <1>1, <1>4, <3>2, Whole
  <2>2. fs[t] = "none"
    BY <1>1, <1>2, <2>1, Whole DEF Reached
  <2> QED
    BY <1>3, <2>2, KindsDiffer
<1>5. CASE ~IsFile(before[t])
  <2>1. fs[t] \in {"none", before[t]}
    BY <1>1, <1>2, Whole DEF Reached
  <2> QED
    BY <1>3, <1>5, <2>1, KindsDiffer
<1> QED
  BY <1>4, <1>5

(* A file is installed in a directory that stands, and not over one.       *)
LEMMA FilesCome ==
  ASSUME SyncCommitInv, request.selected = Paths, pc = "apply", before = seen, ~request.reset,
         todo.delete_files \cup todo.delete_dirs \cup todo.create_dirs = {},
         NEW t \in todo.upload_files
  PROVE  fs[t] # "dir" /\ HasParent(t)
<1>1. t \in Entries /\ t \in plan.upload_files /\ IsFile(ClientManifest[t])
  BY Whole DEF Smaller
<1>2. ClientManifest[t] # "none" /\ ClientManifest[t] # "dir"
  BY <1>1, KindsDiffer
<1>3. HasParent(t)
  BY <1>1, <1>2, ParentsStand
<1>4. t \notin plan.create_dirs
  BY <1>1, <1>2, Whole
<1>5. CASE before[t] = "dir"
  <2>1. t \in plan.delete_dirs
    <3>1. Doomed(t, ClientManifest, plan.baseline, request.delete_extra)
      BY <1>1, <1>5, Whole DEF Doomed
    <3> QED
      BY <1>1, <1>5, <3>1, Whole
  <2>2. fs[t] = "none"
    BY <1>1, <1>4, <2>1, Whole DEF Reached
  <2> QED
    BY <1>3, <2>2
<1>6. CASE before[t] # "dir"
  <2>1. fs[t] \in {"none", before[t]}
    BY <1>1, <1>4, Whole DEF Reached
  <2> QED
    BY <1>3, <1>6, <2>1
<1> QED
  BY <1>5, <1>6

(* create_plan and its sort orders: without filters, when nobody else      *)
(* writes, the plan passes its checks and each of its operations can be    *)
(* done when its turn comes, for every project and every manifest.         *)
THEOREM PlanAlwaysApplies ==
  Spec => []PlanApplies
<1>1. ASSUME SyncCommitInv, request.selected = Paths, pc = "apply", before = seen
      PROVE  OperationPossible
  <2>1. CASE request.reset
    <3>1. Touched(todo) = {}
      BY <1>1, <2>1, NoPlanFacts DEF SyncCommitInv, ResetFits
    <3> QED
      BY <3>1 DEF OperationPossible, Touched
  <2>2. CASE ~request.reset
    BY <1>1, <2>2, FilesGo, DirsGo, DirsCome, FilesCome DEF OperationPossible
  <2> QED
    BY <2>1, <2>2
<1>2. SyncCommitInv => PlanApplies
  BY <1>1, ChecksPass DEF PlanApplies
<1> QED
  BY <1>2, SyncCommitInvariant, PTL
=============================================================================
