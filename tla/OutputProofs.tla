---------------------------- MODULE OutputProofs ----------------------------
(***************************************************************************)
(* What becomes of the output of a session: proofs about Archive, where it *)
(* is kept, and about SessionOutput, where clients read it.                *)
(***************************************************************************)
EXTENDS ArchiveInductive, SessionOutputInductive, InductionLemmas, FunctionTheorems,
        SequenceTheorems, TLAPS

-----------------------------------------------------------------------------
(* Counting the chunks of a session in a queue.                            *)

LEMMA ChunksFinite ==
  ASSUME NEW q \in Seq(Commands), NEW s, NEW i
  PROVE  IsFiniteSet(Chunks(q, s, i)) /\ Cardinality(Chunks(q, s, i)) \in Nat
<1>1. DOMAIN q = 1 .. Len(q) /\ Len(q) \in Nat
  BY LenProperties
<1>2. IsFiniteSet(1 .. Len(q))
  BY <1>1, FS_Interval
<1>3. Chunks(q, s, i) \in SUBSET (1 .. Len(q))
  BY <1>1 DEF Chunks
<1>4. IsFiniteSet(Chunks(q, s, i))
  BY <1>2, <1>3, FS_Subset
<1> QED
  BY <1>4, FS_CardinalityType

(* A command that is sent adds to the count of its session only.           *)
LEMMA ChunksAppend ==
  ASSUME NEW q \in Seq(Commands), NEW m \in Commands, NEW s
  PROVE  /\ \A i \in 1 .. Len(q) : Chunks(Append(q, m), s, i) = Chunks(q, s, i)
         /\ Cardinality(Chunks(Append(q, m), s, Len(q) + 1)) =
              Cardinality(Chunks(q, s, Len(q))) + (IF IsOutput(m, s) THEN 1 ELSE 0)
<1> DEFINE r == Append(q, m)
           n == Len(q)
<1>1. n \in Nat /\ DOMAIN q = 1 .. n
  BY LenProperties
<1>2. DOMAIN r = 1 .. n + 1 /\ r[n + 1] = m /\ \A j \in 1 .. n : r[j] = q[j]
  <2>1. Len(r) = n + 1 /\ r \in Seq(Commands) /\ r[n + 1] = m /\ \A j \in 1 .. n : r[j] = q[j]
    BY AppendProperties
  <2> QED BY <2>1, LenProperties
<1> HIDE DEF r, n
<1>3. \A i \in 1 .. n : Chunks(r, s, i) = Chunks(q, s, i)
  BY <1>1, <1>2 DEF Chunks
<1>4. CASE IsOutput(m, s)
  <2>1. Chunks(r, s, n + 1) = Chunks(q, s, n) \cup {n + 1} /\ n + 1 \notin Chunks(q, s, n)
    BY <1>1, <1>2, <1>4 DEF Chunks
  <2>2. IsFiniteSet(Chunks(q, s, n))
    BY ChunksFinite
  <2>3. Cardinality(Chunks(q, s, n) \cup {n + 1}) = Cardinality(Chunks(q, s, n)) + 1
    BY <2>1, <2>2, FS_AddElement
  <2> QED
    BY <1>3, <1>4, <2>1, <2>3 DEF r, n
<1>5. CASE ~IsOutput(m, s)
  <2>1. Chunks(r, s, n + 1) = Chunks(q, s, n)
    BY <1>1, <1>2, <1>5 DEF Chunks
  <2>2. Cardinality(Chunks(q, s, n)) \in Nat
    BY ChunksFinite
  <2> QED
    BY <1>3, <1>5, <2>1, <2>2 DEF r, n
<1> QED
  BY <1>4, <1>5

(* What is received is counted no more.                                    *)
LEMMA ChunksTail ==
  ASSUME NEW q \in Seq(Commands), q # <<>>, NEW s, NEW i \in 0 .. Len(q) - 1
  PROVE  Cardinality(Chunks(q, s, i + 1)) =
           Cardinality(Chunks(Tail(q), s, i)) + (IF IsOutput(Head(q), s) THEN 1 ELSE 0)
<1> DEFINE r == Tail(q)
           A == Chunks(r, s, i)
           B == Chunks(q, s, i + 1) \ {1}
           f == [j \in A |-> j + 1]
<1>1. Len(q) \in Nat /\ DOMAIN q = 1 .. Len(q) /\ Head(q) = q[1]
  BY LenProperties
<1>2. DOMAIN r = 1 .. Len(q) - 1 /\ \A j \in 1 .. Len(q) - 1 : r[j] = q[j + 1]
  <2>1. r \in Seq(Commands) /\ Len(r) = Len(q) - 1 /\ \A j \in 1 .. Len(r) : r[j] = q[j + 1]
    BY HeadTailProperties
  <2> QED BY <2>1, LenProperties
<1>3. r \in Seq(Commands)
  BY HeadTailProperties
<1> HIDE DEF r
<1>4. \A j \in Nat : j \in A <=> j + 1 \in B
  BY <1>1, <1>2 DEF Chunks
<1>5. A \subseteq Nat /\ B \subseteq Nat \ {0, 1}
  BY <1>1, <1>2 DEF Chunks
<1>6. IsFiniteSet(A) /\ Cardinality(A) \in Nat
  BY <1>3, ChunksFinite
<1>7. Cardinality(A) = Cardinality(B)
  <2> HIDE DEF A, B
  <2>1. f \in [A -> B]
    BY <1>4, <1>5
  <2>2. \A x, y \in A : f[x] = f[y] => x = y
    BY <1>5
  <2>3. \A y \in B : \E x \in A : f[x] = y
    <3> TAKE y \in B
    <3>1. y - 1 \in Nat /\ (y - 1) + 1 = y
      BY <1>5
    <3>2. y - 1 \in A
      BY <3>1, <1>4
    <3> QED BY <3>1, <3>2
  <2>4. f \in Bijection(A, B)
    BY <2>1, <2>2, <2>3 DEF Bijection, Injection, Surjection, IsInjective
  <2>5. ExistsBijection(A, B)
    BY <2>4 DEF ExistsBijection
  <2> QED
    BY <2>5, <1>6, FS_Bijection
<1>8. IsFiniteSet(Chunks(q, s, i + 1)) /\ Cardinality(Chunks(q, s, i + 1)) \in Nat
  BY ChunksFinite
<1>9. 1 \in Chunks(q, s, i + 1) <=> IsOutput(Head(q), s)
  <2>1. Len(q) # 0
    BY EmptySeq
  <2> QED BY <1>1, <2>1 DEF Chunks
<1>10. Cardinality(B) = IF IsOutput(Head(q), s) THEN Cardinality(Chunks(q, s, i + 1)) - 1
                        ELSE Cardinality(Chunks(q, s, i + 1))
  <2>1. Cardinality(Chunks(q, s, i + 1) \ {1}) =
          IF 1 \in Chunks(q, s, i + 1) THEN Cardinality(Chunks(q, s, i + 1)) - 1
          ELSE Cardinality(Chunks(q, s, i + 1))
    BY <1>8, FS_RemoveElement
  <2> QED BY <2>1, <1>9
<1> HIDE DEF A, B
<1>11. Cardinality(Chunks(q, s, i + 1)) = Cardinality(A) + (IF IsOutput(Head(q), s) THEN 1 ELSE 0)
  BY <1>6, <1>7, <1>8, <1>10
<1> QED
  BY <1>11 DEF A, r

(* The first command, and what a count of none means.                      *)
LEMMA ChunksFirst ==
  ASSUME NEW q \in Seq(Commands), NEW s
  PROVE  /\ q # <<>> /\ IsOutput(Head(q), s) => Cardinality(Chunks(q, s, 1)) = 1
         /\ Cardinality(Chunks(q, s, Len(q))) = 0 => \A i \in DOMAIN q : ~IsOutput(q[i], s)
         /\ q = <<>> => Cardinality(Chunks(q, s, Len(q))) = 0
<1>1. Len(q) \in Nat /\ DOMAIN q = 1 .. Len(q)
  BY LenProperties
<1>2. IsFiniteSet(Chunks(q, s, Len(q)))
  BY ChunksFinite
<1>3. ASSUME q # <<>>, IsOutput(Head(q), s) PROVE Cardinality(Chunks(q, s, 1)) = 1
  <2>1. Len(q) # 0 /\ Head(q) = q[1]
    BY <1>3, EmptySeq
  <2>2. Chunks(q, s, 1) = {1}
    BY <1>1, <1>3, <2>1 DEF Chunks
  <2>3. Cardinality({1}) = 1
    BY FS_Singleton
  <2> QED BY <2>2, <2>3
<1>4. ASSUME Cardinality(Chunks(q, s, Len(q))) = 0 PROVE \A i \in DOMAIN q : ~IsOutput(q[i], s)
  <2>1. Chunks(q, s, Len(q)) = {}
    BY <1>2, <1>4, FS_EmptySet
  <2> QED BY <2>1, <1>1 DEF Chunks
<1>5. ASSUME q = <<>> PROVE Cardinality(Chunks(q, s, Len(q))) = 0
  <2>1. DOMAIN q = {}
    BY <1>1, <1>5, EmptySeq
  <2>2. Chunks(q, s, Len(q)) = {}
    BY <2>1 DEF Chunks
  <2> QED BY <2>2, FS_EmptySet
<1> QED
  BY <1>3, <1>4, <1>5

-----------------------------------------------------------------------------
(* The operators on the books of a session.                                *)

(* The fields of the books and of the file of a session.                   *)
LEMMA Fields ==
  ASSUME ArchiveShape, NEW s \in ArchiveSessions
  PROVE  /\ archive[s].issues \in SUBSET {"fatal", "queue"}
         /\ {archive[s].observed, archive[s].dropped, archive[s].pending} \subseteq Nat
         /\ archive[s].final \in BOOLEAN /\ archive[s].completed \in BOOLEAN
         /\ client[s].pc \in {"new", "running", "send", "sealed", "gone"}
         /\ client[s].rest \in Nat
         /\ file[s].exists \in BOOLEAN /\ file[s].open \in BOOLEAN
         /\ file[s].out \in Seq(Nat) /\ Len(file[s].out) \in Nat
         /\ file[s].bytes \in Nat /\ file[s].footer \in {"none", "complete", "truncated"}
         /\ archive[s] \in ArchiveStates /\ client[s] \in ClientStates /\ file[s] \in FileStates
<1>1. archive[s] \in ArchiveStates /\ client[s] \in ClientStates /\ file[s] \in FileStates
  BY DEF ArchiveShape
<1>2. file[s].out \in Seq(Nat)
  BY <1>1 DEF FileStates
<1>3. Len(file[s].out) \in Nat
  BY <1>2, LenProperties
<1> QED
  BY <1>1, <1>2, <1>3 DEF ArchiveStates, ClientStates, FileStates

(* A flag disables the archive and changes nothing else.                   *)
LEMMA IssueSets ==
  ASSUME NEW a \in ArchiveStates, NEW flag
  PROVE  /\ issue(a, flag) \in ArchiveStates
         /\ issue(a, flag).issues =
              a.issues \cup {IF flag \in Fatal THEN "fatal" ELSE "queue"}
         /\ issue(a, flag).observed = a.observed /\ issue(a, flag).dropped = a.dropped
         /\ issue(a, flag).pending = a.pending /\ issue(a, flag).final = a.final
         /\ issue(a, flag).completed = a.completed
BY DEF issue, ArchiveStates

LEMMA LosesCounts ==
  ASSUME NEW a \in ArchiveStates, NEW n \in Nat
  PROVE  /\ Loses(a, n) \in ArchiveStates
         /\ Loses(a, n).dropped = a.dropped + n /\ Loses(a, n).issues = a.issues
         /\ Loses(a, n).observed = a.observed /\ Loses(a, n).pending = a.pending
         /\ Loses(a, n).final = a.final /\ Loses(a, n).completed = a.completed
BY DEF Loses, ArchiveStates

(* What is known of the queue.                                             *)
LEMMA QueueFacts ==
  ASSUME ArchiveShape, NEW s \in ArchiveSessions
  PROVE  /\ Queued(s) \in Nat /\ InHand(s) \in {0, 1}
         /\ Len(queue) \in Nat /\ DOMAIN queue = 1 .. Len(queue)
         /\ \A i : Cardinality(Chunks(queue, s, i)) \in Nat
         /\ queue \in Seq(Commands)
         /\ \A i \in DOMAIN queue : queue[i] \in Commands
<1>1. queue \in Seq(Commands)
  BY DEF ArchiveShape
<1>2. Len(queue) \in Nat /\ DOMAIN queue = 1 .. Len(queue)
  BY <1>1, LenProperties
<1>3. \A i : Cardinality(Chunks(queue, s, i)) \in Nat
  BY <1>1, ChunksFinite
<1>4. \A i \in DOMAIN queue : queue[i] \in Commands
  BY <1>1, <1>2, ElementOfSeq
<1> QED
  BY <1>1, <1>2, <1>3, <1>4 DEF Queued, InHand

-----------------------------------------------------------------------------
(* What a step does to the books of a session it is not about.             *)

(* A command for another session, or no command, goes in or out.           *)
Foreign(m, u) == m \in Commands /\ ~IsOutput(m, u) /\ ~IsStart(m, u)

QueueAround(u) ==
  \/ queue' = queue
  \/ \E m : Foreign(m, u) /\ queue' = Append(queue, m)
  \/ queue # <<>> /\ Foreign(Head(queue), u) /\ queue' = Tail(queue)

(* The writer goes on with what it has in hand of the session, if anything. *)
WriterAround(u) ==
  /\ Starting(u)' = Starting(u)
  /\ InHand(u)' = InHand(u)
  /\ InHand(u) = 1 => writer'.job = writer.job

(* A finished file may be pruned.                                          *)
FileAround(u) ==
  \/ file'[u] = file[u]
  \/ file[u].exists /\ ~file[u].open /\ file'[u] = NoFile

(* For any such change of the queue the counts and the places agree.       *)
LEMMA QueueAroundCounts ==
  ASSUME ArchiveShape, NEW u \in ArchiveSessions, QueueAround(u)
  PROVE  /\ Queued(u)' = Queued(u)
         /\ StartQueued(u)' <=> StartQueued(u)
         /\ \E d \in {0, 1} :
              /\ \A i \in DOMAIN queue' : IsOutput(queue'[i], u) =>
                   /\ i + d \in DOMAIN queue /\ queue'[i] = queue[i + d]
                   /\ Cardinality(Chunks(queue', u, i)) = Cardinality(Chunks(queue, u, i + d))
              /\ \A i \in DOMAIN queue' : IsStart(queue'[i], u) =>
                   i + d \in DOMAIN queue /\ queue'[i] = queue[i + d]
              /\ \A i \in DOMAIN queue : IsStart(queue[i], u) =>
                   i - d \in DOMAIN queue' /\ queue'[i - d] = queue[i]
<1>1. queue \in Seq(Commands) /\ Len(queue) \in Nat /\ DOMAIN queue = 1 .. Len(queue)
  BY QueueFacts
<1>2. CASE queue' = queue
  <2>1. \A i \in DOMAIN queue : i \in Int
    BY <1>1
  <2>2. Queued(u)' = Queued(u) /\ (StartQueued(u)' <=> StartQueued(u))
    BY <1>2 DEF Queued, StartQueued
  <2>3. 0 \in {0, 1} /\ \A i \in Int : i + 0 = i /\ i - 0 = i
    OBVIOUS
  <2> QED
    BY <1>2, <2>1, <2>2, <2>3
<1>3. ASSUME NEW m, Foreign(m, u), queue' = Append(queue, m)
      PROVE  /\ Queued(u)' = Queued(u)
             /\ StartQueued(u)' <=> StartQueued(u)
             /\ \A i \in DOMAIN queue' : IsOutput(queue'[i], u) =>
                  /\ i \in DOMAIN queue /\ queue'[i] = queue[i]
                  /\ Cardinality(Chunks(queue', u, i)) = Cardinality(Chunks(queue, u, i))
             /\ \A i \in DOMAIN queue' : IsStart(queue'[i], u) =>
                  i \in DOMAIN queue /\ queue'[i] = queue[i]
             /\ \A i \in DOMAIN queue : IsStart(queue[i], u) =>
                  i \in DOMAIN queue' /\ queue'[i] = queue[i]
  <2>1. m \in Commands /\ ~IsOutput(m, u) /\ ~IsStart(m, u)
    BY <1>3 DEF Foreign
  <2>2. /\ \A i \in 1 .. Len(queue) : Chunks(queue', u, i) = Chunks(queue, u, i)
        /\ Cardinality(Chunks(queue', u, Len(queue) + 1)) =
             Cardinality(Chunks(queue, u, Len(queue))) + (IF IsOutput(m, u) THEN 1 ELSE 0)
    BY <1>1, <1>3, <2>1, ChunksAppend
  <2>3. /\ queue' \in Seq(Commands) /\ Len(queue') = Len(queue) + 1
        /\ queue'[Len(queue) + 1] = m /\ \A i \in 1 .. Len(queue) : queue'[i] = queue[i]
    BY <1>1, <1>3, <2>1, AppendProperties
  <2>4. DOMAIN queue' = 1 .. Len(queue) + 1
    BY <2>3, LenProperties
  <2>5. Cardinality(Chunks(queue, u, Len(queue))) \in Nat
    BY <1>1, ChunksFinite
  <2>6. Queued(u)' = Queued(u)
    BY <2>1, <2>2, <2>3, <2>5 DEF Queued
  <2>7. \A i \in DOMAIN queue' : i \notin DOMAIN queue => queue'[i] = m
    BY <1>1, <2>3, <2>4
  <2> QED
    BY <1>1, <2>1, <2>2, <2>3, <2>4, <2>6, <2>7 DEF StartQueued
<1>4. ASSUME queue # <<>>, Foreign(Head(queue), u), queue' = Tail(queue)
      PROVE  /\ Queued(u)' = Queued(u)
             /\ StartQueued(u)' <=> StartQueued(u)
             /\ \A i \in DOMAIN queue' :
                  /\ i + 1 \in DOMAIN queue /\ queue'[i] = queue[i + 1]
                  /\ Cardinality(Chunks(queue', u, i)) = Cardinality(Chunks(queue, u, i + 1))
             /\ \A i \in DOMAIN queue : IsStart(queue[i], u) =>
                  i - 1 \in DOMAIN queue' /\ queue'[i - 1] = queue[i]
  <2>1. ~IsOutput(Head(queue), u) /\ ~IsStart(Head(queue), u) /\ Head(queue) = queue[1]
    BY <1>4 DEF Foreign
  <2>2. Len(queue) # 0
    BY <1>1, <1>4, EmptySeq
  <2>3. /\ queue' \in Seq(Commands) /\ Len(queue') = Len(queue) - 1
        /\ \A i \in 1 .. Len(queue') : queue'[i] = queue[i + 1]
    BY <1>1, <1>4, HeadTailProperties
  <2>4. DOMAIN queue' = 1 .. Len(queue) - 1
    BY <2>3, LenProperties
  <2>5. \A i \in 0 .. Len(queue) - 1 :
          /\ Cardinality(Chunks(queue, u, i + 1)) = Cardinality(Chunks(queue', u, i))
          /\ Cardinality(Chunks(queue', u, i)) \in Nat
    <3>1. \A i \in 0 .. Len(queue) - 1 :
            Cardinality(Chunks(queue, u, i + 1)) =
              Cardinality(Chunks(queue', u, i)) + (IF IsOutput(Head(queue), u) THEN 1 ELSE 0)
      BY <1>1, <1>4, ChunksTail
    <3>2. \A i : Cardinality(Chunks(queue', u, i)) \in Nat
      BY <2>3, ChunksFinite
    <3> QED BY <3>1, <3>2, <2>1
  <2>6. Queued(u)' = Queued(u)
    <3>1. Len(queue) - 1 \in 0 .. Len(queue) - 1 /\ Len(queue) - 1 + 1 = Len(queue)
      BY <1>1, <2>2
    <3>2. Cardinality(Chunks(queue, u, Len(queue) - 1 + 1)) = Cardinality(Chunks(queue', u, Len(queue) - 1))
      BY <2>5, <3>1
    <3>3. Cardinality(Chunks(queue, u, Len(queue))) = Cardinality(Chunks(queue', u, Len(queue')))
      BY <3>1, <3>2, <2>3
    <3> QED BY <3>3 DEF Queued
  <2>7. \A i \in DOMAIN queue : IsStart(queue[i], u) =>
           i - 1 \in DOMAIN queue' /\ queue'[i - 1] = queue[i]
    <3> SUFFICES ASSUME NEW i \in DOMAIN queue, IsStart(queue[i], u)
                 PROVE  i - 1 \in DOMAIN queue' /\ queue'[i - 1] = queue[i]
      OBVIOUS
    <3>1. i # 1
      BY <2>1
    <3>2. i - 1 \in DOMAIN queue' /\ (i - 1) + 1 = i
      BY <1>1, <2>4, <3>1
    <3> QED BY <3>2, <2>3, <2>4
  <2>8. \A i \in DOMAIN queue' :
           /\ i + 1 \in DOMAIN queue /\ queue'[i] = queue[i + 1]
           /\ Cardinality(Chunks(queue', u, i)) = Cardinality(Chunks(queue, u, i + 1))
    BY <1>1, <2>3, <2>4, <2>5
  <2>9. StartQueued(u)' <=> StartQueued(u)
    BY <2>7, <2>8 DEF StartQueued
  <2> QED
    BY <2>6, <2>7, <2>8, <2>9
<1>5. ASSUME NEW m, Foreign(m, u), queue' = Append(queue, m)
      PROVE  /\ \A i \in DOMAIN queue' : IsOutput(queue'[i], u) =>
                  /\ i + 0 \in DOMAIN queue /\ queue'[i] = queue[i + 0]
                  /\ Cardinality(Chunks(queue', u, i)) = Cardinality(Chunks(queue, u, i + 0))
             /\ \A i \in DOMAIN queue' : IsStart(queue'[i], u) =>
                  i + 0 \in DOMAIN queue /\ queue'[i] = queue[i + 0]
             /\ \A i \in DOMAIN queue : IsStart(queue[i], u) =>
                  i - 0 \in DOMAIN queue' /\ queue'[i - 0] = queue[i]
  <2>1. \A i \in Int : i + 0 = i /\ i - 0 = i
    OBVIOUS
  <2>2. \A i \in DOMAIN queue : i \in Int
    BY <1>1
  <2> QED
    BY <1>3, <1>5, <2>1, <2>2
<1> QED
  BY <1>2, <1>3, <1>4, <1>5 DEF QueueAround

(* There is nothing in a file that does not exist.                         *)
LEMMA NoFileFacts ==
  /\ ~NoFile.exists /\ ~NoFile.open /\ NoFile.footer = "none" /\ NoFile.out = <<>>
  /\ Len(NoFile.out) = 0 /\ NoFile.out = [i \in 1 .. 0 |-> i] /\ NoFile \in FileStates
  /\ NoFile.bytes = 0
<1>1. <<>> \in Seq(Nat) /\ Len(<<>>) = 0
  BY EmptySeq
<1>2. [i \in 1 .. 0 |-> i] = <<>>
  OBVIOUS
<1> QED
  BY <1>1, <1>2 DEF NoFile, FileStates

(* A step that is not about a session leaves its books in order.           *)
LEMMA Around ==
  ASSUME ArchiveInv, NEW u \in ArchiveSessions,
         client'[u] = client[u], archive'[u] = archive[u], FileAround(u),
         Disconnected => Disconnected',
         ~Disconnected' => QueueAround(u) /\ WriterAround(u)
  PROVE  ClientFits(u)' /\ FileFits(u)' /\ (~Disconnected' => Connected(u)')
<1>1. ArchiveShape /\ ClientFits(u) /\ FileFits(u) /\ (~Disconnected => Connected(u))
  BY DEF ArchiveInv
<1>2. ClientFits(u)'
  BY <1>1 DEF ClientFits
<1>3. CASE file'[u] = file[u]
  <2>1. FileFits(u)'
    BY <1>1, <1>3 DEF FileFits
  <2>2. ASSUME ~Disconnected' PROVE Connected(u)'
    <3>1. StartFits(u) /\ PendingFits(u) /\ IssuesFit(u) /\ AccountFits(u) /\ ChunksFit(u)
      BY <1>1, <2>2 DEF Connected
    <3>2. QueueAround(u) /\ WriterAround(u)
      BY <2>2
    <3>3. Queued(u)' = Queued(u) /\ (StartQueued(u)' <=> StartQueued(u))
      BY <1>1, <3>2, QueueAroundCounts
    <3>4. /\ Queued(u) \in Nat /\ InHand(u) \in {0, 1}
          /\ Len(queue) \in Nat /\ DOMAIN queue = 1 .. Len(queue)
      BY <1>1, QueueFacts
    <3>5. PICK d \in {0, 1} :
              /\ \A i \in DOMAIN queue' : IsOutput(queue'[i], u) =>
                   /\ i + d \in DOMAIN queue /\ queue'[i] = queue[i + d]
                   /\ Cardinality(Chunks(queue', u, i)) = Cardinality(Chunks(queue, u, i + d))
              /\ \A i \in DOMAIN queue' : IsStart(queue'[i], u) =>
                   i + d \in DOMAIN queue /\ queue'[i] = queue[i + d]
              /\ \A i \in DOMAIN queue : IsStart(queue[i], u) =>
                   i - d \in DOMAIN queue' /\ queue'[i - d] = queue[i]
      BY <1>1, <3>2, QueueAroundCounts
    <3>6. DOMAIN queue' \subseteq Nat \ {0}
      <4>1. queue \in Seq(Commands)
        BY <1>1 DEF ArchiveShape
      <4>2. queue' \in Seq(Commands)
        <5>1. CASE queue' = queue
          BY <4>1, <5>1
        <5>2. CASE \E m : Foreign(m, u) /\ queue' = Append(queue, m)
          BY <4>1, <5>2, AppendProperties DEF Foreign
        <5>3. CASE queue # <<>> /\ queue' = Tail(queue)
          BY <4>1, <5>3, HeadTailProperties
        <5> QED BY <3>2, <5>1, <5>2, <5>3 DEF QueueAround
      <4> QED BY <4>2, LenProperties
    <3>7. Starting(u)' = Starting(u) /\ InHand(u)' = InHand(u)
          /\ (InHand(u) = 1 => writer'.job = writer.job)
      BY <3>2 DEF WriterAround
    <3>8. StartFits(u)'
      <4>1. \A i, j \in DOMAIN queue' : IsStart(queue'[i], u) /\ IsStart(queue'[j], u) => i = j
        <5> SUFFICES ASSUME NEW i \in DOMAIN queue', NEW j \in DOMAIN queue',
                            IsStart(queue'[i], u), IsStart(queue'[j], u)
                     PROVE  i = j
          OBVIOUS
        <5>1. i + d \in DOMAIN queue /\ j + d \in DOMAIN queue
              /\ IsStart(queue[i + d], u) /\ IsStart(queue[j + d], u)
          BY <3>5
        <5>2. i + d = j + d
          BY <5>1, <3>1 DEF StartFits
        <5> QED BY <5>2, <3>6, <3>5
      <4> QED BY <4>1, <3>1, <3>3, <3>7, <1>3 DEF StartFits
    <3>9. PendingFits(u)'
      BY <3>1, <3>3, <3>7 DEF PendingFits
    <3>10. IssuesFit(u)'
      BY <3>1, <1>3 DEF IssuesFit
    <3>11. AccountFits(u)'
      BY <3>1, <3>3, <3>7, <1>3 DEF AccountFits
    <3>12. ChunksFit(u)'
      <4> SUFFICES ASSUME "fatal" \notin archive[u].issues, ~archive[u].completed
                   PROVE  /\ InHand(u)' = 1 => file'[u].open /\ writer'.job.chunk = Len(file'[u].out) + 1
                          /\ \A i \in DOMAIN queue' : IsOutput(queue'[i], u) =>
                               /\ queue'[i].chunk = Len(file'[u].out) + InHand(u)' + Cardinality(Chunks(queue', u, i))
                               /\ file'[u].open \/ Starting(u)' \/ \E j \in 1 .. i - 1 : IsStart(queue'[j], u)
                          /\ client'[u].pc \in {"running", "send"} =>
                               file'[u].open \/ Starting(u)' \/ StartQueued(u)'
        BY DEF ChunksFit
      <4>1. /\ InHand(u) = 1 => file[u].open /\ writer.job.chunk = Len(file[u].out) + 1
            /\ \A i \in DOMAIN queue : IsOutput(queue[i], u) =>
                 /\ queue[i].chunk = Len(file[u].out) + InHand(u) + Cardinality(Chunks(queue, u, i))
                 /\ file[u].open \/ Starting(u) \/ \E j \in 1 .. i - 1 : IsStart(queue[j], u)
            /\ client[u].pc \in {"running", "send"} => file[u].open \/ Starting(u) \/ StartQueued(u)
        BY <3>1 DEF ChunksFit
      <4>2. ASSUME NEW i \in DOMAIN queue', IsOutput(queue'[i], u)
            PROVE  /\ queue'[i].chunk = Len(file[u].out) + InHand(u) + Cardinality(Chunks(queue', u, i))
                   /\ file[u].open \/ Starting(u) \/ \E j \in 1 .. i - 1 : IsStart(queue'[j], u)
        <5>1. /\ i + d \in DOMAIN queue /\ queue'[i] = queue[i + d]
              /\ Cardinality(Chunks(queue', u, i)) = Cardinality(Chunks(queue, u, i + d))
          BY <3>5, <4>2
        <5>2. queue'[i].chunk = Len(file[u].out) + InHand(u) + Cardinality(Chunks(queue', u, i))
          BY <5>1, <4>1, <4>2
        <5>3. ASSUME NEW j \in 1 .. (i + d) - 1, IsStart(queue[j], u)
              PROVE  \E k \in 1 .. i - 1 : IsStart(queue'[k], u)
          <6>1. i \in Nat \ {0} /\ d \in {0, 1}
            BY <3>6, <3>5
          <6>2. j \in DOMAIN queue
            BY <5>1, <3>4, <6>1
          <6>3. j - d \in DOMAIN queue' /\ queue'[j - d] = queue[j]
            BY <3>5, <5>3, <6>2
          <6>4. j - d \in 1 .. i - 1
            BY <6>1, <6>3, <3>6
          <6> QED BY <6>3, <6>4, <5>3
        <5>4. file[u].open \/ Starting(u) \/ \E j \in 1 .. (i + d) - 1 : IsStart(queue[j], u)
          BY <5>1, <4>1, <4>2
        <5> QED BY <5>2, <5>3, <5>4
      <4> QED BY <4>1, <4>2, <3>3, <3>7, <1>3
    <3> QED BY <3>8, <3>9, <3>10, <3>11, <3>12 DEF Connected
  <2> QED BY <1>2, <2>1, <2>2
<1>4. CASE file[u].exists /\ ~file[u].open /\ file'[u] = NoFile
  <2>1. /\ archive[u].final /\ archive[u].completed /\ archive[u].pending = 0
        /\ client[u].pc \in {"sealed", "gone"}
    BY <1>1, <1>4 DEF FileFits, ClientFits
  <2>2. FileFits(u)'
    BY <1>4, NoFileFacts DEF FileFits
  <2>3. ASSUME ~Disconnected' PROVE Connected(u)'
    <3>1. StartFits(u) /\ PendingFits(u) /\ IssuesFit(u) /\ AccountFits(u) /\ ChunksFit(u)
      BY <1>1, <2>3 DEF Connected
    <3>2. QueueAround(u) /\ WriterAround(u)
      BY <2>3
    <3>3. Queued(u)' = Queued(u) /\ (StartQueued(u)' <=> StartQueued(u)) /\ Starting(u)' = Starting(u)
          /\ InHand(u)' = InHand(u)
      BY <1>1, <3>2, QueueAroundCounts DEF WriterAround
    <3>4. ~StartQueued(u) /\ ~Starting(u)
      BY <3>1, <1>4 DEF StartFits
    <3>5. StartFits(u)'
      <4>1. \A i \in DOMAIN queue' : ~IsStart(queue'[i], u)
        BY <3>3, <3>4 DEF StartQueued
      <4> QED BY <4>1, <3>3, <3>4, <2>1 DEF StartFits
    <3>6. PendingFits(u)'
      BY <3>1, <3>3 DEF PendingFits
    <3>7. IssuesFit(u)' /\ AccountFits(u)' /\ ChunksFit(u)'
      BY <3>1, <2>1, <1>4, NoFileFacts DEF IssuesFit, AccountFits, ChunksFit
    <3> QED BY <3>5, <3>6, <3>7 DEF Connected
  <2> QED BY <1>2, <2>2, <2>3
<1> QED
  BY <1>3, <1>4 DEF FileAround

(* The queue after a send, and after a receive.                            *)
LEMMA AppendFacts ==
  ASSUME ArchiveShape, NEW m \in Commands, queue' = Append(queue, m), NEW u \in ArchiveSessions
  PROVE  /\ queue' \in Seq(Commands) /\ DOMAIN queue' = 1 .. Len(queue) + 1
         /\ queue'[Len(queue) + 1] = m
         /\ \A i \in 1 .. Len(queue) :
              queue'[i] = queue[i] /\ Chunks(queue', u, i) = Chunks(queue, u, i)
         /\ Queued(u)' = Queued(u) + (IF IsOutput(m, u) THEN 1 ELSE 0)
         /\ Cardinality(Chunks(queue', u, Len(queue) + 1)) = Queued(u)'
<1>1. queue \in Seq(Commands) /\ Len(queue) \in Nat
  BY QueueFacts
<1>2. /\ queue' \in Seq(Commands) /\ Len(queue') = Len(queue) + 1
      /\ queue'[Len(queue) + 1] = m /\ \A i \in 1 .. Len(queue) : queue'[i] = queue[i]
  BY <1>1, AppendProperties
<1>3. DOMAIN queue' = 1 .. Len(queue) + 1
  BY <1>2, LenProperties
<1>4. /\ \A i \in 1 .. Len(queue) : Chunks(queue', u, i) = Chunks(queue, u, i)
      /\ Cardinality(Chunks(queue', u, Len(queue) + 1)) =
           Cardinality(Chunks(queue, u, Len(queue))) + (IF IsOutput(m, u) THEN 1 ELSE 0)
  BY <1>1, ChunksAppend
<1> QED
  BY <1>2, <1>3, <1>4 DEF Queued

LEMMA TailFacts ==
  ASSUME ArchiveShape, queue # <<>>, queue' = Tail(queue), NEW u \in ArchiveSessions
  PROVE  /\ queue' \in Seq(Commands) /\ DOMAIN queue' = 1 .. Len(queue) - 1
         /\ Len(queue) \in Nat \ {0} /\ Head(queue) = queue[1] /\ Head(queue) \in Commands
         /\ \A i \in DOMAIN queue' :
              /\ i + 1 \in DOMAIN queue /\ queue'[i] = queue[i + 1]
              /\ Cardinality(Chunks(queue, u, i + 1)) =
                   Cardinality(Chunks(queue', u, i)) + (IF IsOutput(Head(queue), u) THEN 1 ELSE 0)
              /\ Cardinality(Chunks(queue', u, i)) \in Nat
         /\ Queued(u) = Queued(u)' + (IF IsOutput(Head(queue), u) THEN 1 ELSE 0)
         /\ Queued(u)' \in Nat
<1>1. queue \in Seq(Commands) /\ Len(queue) \in Nat /\ DOMAIN queue = 1 .. Len(queue)
  BY QueueFacts
<1>2. Len(queue) # 0 /\ Head(queue) = queue[1]
  BY <1>1, EmptySeq
<1>3. /\ queue' \in Seq(Commands) /\ Len(queue') = Len(queue) - 1 /\ Head(queue) \in Commands
      /\ \A i \in 1 .. Len(queue') : queue'[i] = queue[i + 1]
  BY <1>1, HeadTailProperties
<1>4. DOMAIN queue' = 1 .. Len(queue) - 1
  BY <1>3, LenProperties
<1>5. \A i \in 0 .. Len(queue) - 1 :
        Cardinality(Chunks(queue, u, i + 1)) =
          Cardinality(Chunks(queue', u, i)) + (IF IsOutput(Head(queue), u) THEN 1 ELSE 0)
  BY <1>1, ChunksTail
<1>6. \A i : Cardinality(Chunks(queue', u, i)) \in Nat
  BY <1>3, ChunksFinite
<1>7. Queued(u) = Queued(u)' + (IF IsOutput(Head(queue), u) THEN 1 ELSE 0)
  <2>1. Len(queue) - 1 \in 0 .. Len(queue) - 1 /\ Len(queue) - 1 + 1 = Len(queue)
    BY <1>1, <1>2
  <2>2. Cardinality(Chunks(queue, u, Len(queue) - 1 + 1)) =
          Cardinality(Chunks(queue', u, Len(queue) - 1)) + (IF IsOutput(Head(queue), u) THEN 1 ELSE 0)
    BY <1>5, <2>1
  <2> QED BY <2>1, <2>2, <1>3 DEF Queued
<1>8. \A i \in 1 .. Len(queue) - 1 : i \in 0 .. Len(queue) - 1 /\ i + 1 \in DOMAIN queue
  BY <1>1
<1> QED
  BY <1>1, <1>2, <1>3, <1>4, <1>5, <1>6, <1>7, <1>8 DEF Queued

(* A connected session that is not started has no chunks anywhere.         *)
LEMMA NoneQueued ==
  ASSUME ArchiveShape, NEW s \in ArchiveSessions, PendingFits(s), archive[s].pending = 0
  PROVE  /\ Queued(s) = 0 /\ InHand(s) = 0 /\ client[s].pc # "send"
         /\ \A i \in DOMAIN queue : ~IsOutput(queue[i], s)
<1>1. Queued(s) \in Nat /\ InHand(s) \in {0, 1} /\ queue \in Seq(Commands)
  BY QueueFacts
<1>2. Queued(s) = 0 /\ InHand(s) = 0 /\ client[s].pc # "send"
  BY <1>1 DEF PendingFits
<1>3. \A i \in DOMAIN queue : ~IsOutput(queue[i], s)
  BY <1>1, <1>2, ChunksFirst DEF Queued
<1> QED
  BY <1>2, <1>3

-----------------------------------------------------------------------------
(* The steps of the sessions.                                              *)

(* What a step of s leaves to the others.                                  *)
Alone(s) ==
  /\ Disconnected' = Disconnected
  /\ \A u \in ArchiveSessions \ {s} :
       /\ client'[u] = client[u] /\ archive'[u] = archive[u] /\ FileAround(u)
       /\ QueueAround(u) /\ WriterAround(u)

LEMMA AloneKeeps ==
  ASSUME ArchiveInv, NEW s \in ArchiveSessions, Alone(s), ArchiveShape', WriterFits',
         ClientFits(s)', FileFits(s)', ~Disconnected' => Connected(s)'
  PROVE  ArchiveInv'
<1>1. \A u \in ArchiveSessions \ {s} :
        ClientFits(u)' /\ FileFits(u)' /\ (~Disconnected' => Connected(u)')
  BY Around DEF Alone
<1> QED
  BY <1>1 DEF ArchiveInv

(* A step of a session that sends a command, or nothing.                   *)
LEMMA ClientAlone ==
  ASSUME ArchiveInv, NEW s \in ArchiveSessions, ClientFrame,
         NEW c \in ClientStates, client' = [client EXCEPT ![s] = c],
         NEW a \in ArchiveStates, archive' = [archive EXCEPT ![s] = a],
         NEW m \in Commands, \A u \in ArchiveSessions \ {s} : ~IsOutput(m, u) /\ ~IsStart(m, u),
         queue' = queue \/ queue' = Append(queue, m),
         archive[s].final => a.final
  PROVE  Alone(s) /\ ArchiveShape' /\ WriterFits'
<1>1. ArchiveShape /\ WriterFits
  BY DEF ArchiveInv
<1>2. client' \in [ArchiveSessions -> ClientStates] /\ archive' \in [ArchiveSessions -> ArchiveStates]
      /\ \A u \in ArchiveSessions \ {s} : client'[u] = client[u] /\ archive'[u] = archive[u]
      /\ archive'[s] = a
  BY <1>1 DEF ArchiveShape
<1>3. queue \in Seq(Commands)
  BY <1>1 DEF ArchiveShape
<1>4. queue' \in Seq(Commands)
  BY <1>3, AppendProperties
<1>5. file' = file /\ writer' = writer /\ stopping' = stopping
  BY DEF ClientFrame
<1>6. ArchiveShape'
  BY <1>1, <1>2, <1>4, <1>5 DEF ArchiveShape
<1>7. WriterFits'
  <2>1. writer \in Writers
    BY <1>1 DEF ArchiveShape
  <2> QED BY <1>1, <1>2, <1>5, <2>1 DEF WriterFits, Writers
<1>8. Disconnected' = Disconnected
  BY <1>5 DEF Disconnected
<1>9. \A u \in ArchiveSessions \ {s} : QueueAround(u)
  BY DEF QueueAround, Foreign
<1>10. \A u \in ArchiveSessions : WriterAround(u) /\ FileAround(u)
  BY <1>5 DEF WriterAround, FileAround, Starting, InHand
<1> QED
  BY <1>2, <1>6, <1>7, <1>8, <1>9, <1>10 DEF Alone

(* Nothing but the books and the point of s changes in a step of s.        *)
LEMMA FrameFacts ==
  ASSUME ClientFrame
  PROVE  /\ file' = file /\ writer' = writer /\ stopping' = stopping
         /\ Disconnected' = Disconnected
         /\ \A u : InHand(u)' = InHand(u) /\ Starting(u)' = Starting(u)
BY DEF ClientFrame, Disconnected, InHand, Starting

LEMMA CommandKinds ==
  /\ NoJob \in Commands /\ NoJob.cmd = "none"
  /\ \A s \in ArchiveSessions :
       LET m == [cmd |-> "start", session |-> s] IN
       m \in Commands /\ IsStart(m, s) /\ ~IsOutput(m, s)
       /\ \A u : u # s => ~IsStart(m, u) /\ ~IsOutput(m, u)
  /\ \A s \in ArchiveSessions, n \in Nat, z \in Sizes :
       LET m == [cmd |-> "output", session |-> s, chunk |-> n, size |-> z] IN
       m \in Commands /\ ~IsStart(m, s) /\ IsOutput(m, s) /\ m.chunk = n
       /\ \A u : u # s => ~IsStart(m, u) /\ ~IsOutput(m, u)
  /\ \A u : ~IsStart(NoJob, u) /\ ~IsOutput(NoJob, u)
<1>1. NoJob \in Commands /\ NoJob.cmd = "none"
  BY DEF Commands, NoJob
<1>2. \A u : ~IsStart(NoJob, u) /\ ~IsOutput(NoJob, u)
  BY <1>1 DEF IsStart, IsOutput
<1>3. ASSUME NEW s \in ArchiveSessions
      PROVE  LET m == [cmd |-> "start", session |-> s] IN
             m \in Commands /\ IsStart(m, s) /\ ~IsOutput(m, s)
             /\ \A u : u # s => ~IsStart(m, u) /\ ~IsOutput(m, u)
  BY DEF Commands, IsStart, IsOutput
<1>4. ASSUME NEW s \in ArchiveSessions, NEW n \in Nat, NEW z \in Sizes
      PROVE  LET m == [cmd |-> "output", session |-> s, chunk |-> n, size |-> z] IN
             m \in Commands /\ ~IsStart(m, s) /\ IsOutput(m, s) /\ m.chunk = n
             /\ \A u : u # s => ~IsStart(m, u) /\ ~IsOutput(m, u)
  BY DEF Commands, IsStart, IsOutput
<1> QED
  BY <1>1, <1>2, <1>3, <1>4

LEMMA StartSessionKeeps ==
  ASSUME ArchiveInv, NEW s \in ArchiveSessions, StartSession(s)
  PROVE  ArchiveInv'
<1> DEFINE m == [cmd |-> "start", session |-> s]
<1>1. ArchiveShape /\ ClientFits(s) /\ FileFits(s) /\ (~Disconnected => Connected(s))
      /\ ClientFrame /\ archive' = archive /\ client[s].pc = "new"
  BY DEF ArchiveInv, StartSession
<1>2. archive[s] \in ArchiveStates /\ archive' = [archive EXCEPT ![s] = archive[s]]
      /\ client \in [ArchiveSessions -> ClientStates]
  BY <1>1 DEF ArchiveShape
<1>3. m \in Commands /\ IsStart(m, s) /\ ~IsOutput(m, s)
      /\ \A u : u # s => ~IsStart(m, u) /\ ~IsOutput(m, u)
  BY CommandKinds
<1>4. client[s].rest = 0
  BY <1>1 DEF ClientFits
<1>5. CASE ~stopping /\ Sends(m) /\ Steps(s, "running", 0)
  <2> DEFINE c == [pc |-> "running", rest |-> 0]
  <2>1. c \in ClientStates /\ client' = [client EXCEPT ![s] = c]
        /\ ~Disconnected /\ queue' = Append(queue, m)
    BY <1>5 DEF Steps, Sends, ClientStates
  <2>2. Alone(s) /\ ArchiveShape' /\ WriterFits'
    BY <1>1, <1>2, <1>3, <2>1, ClientAlone
  <2>3. client'[s].pc = "running" /\ client'[s].rest = 0
    BY <1>2, <2>1
  <2>4. /\ StartFits(s) /\ PendingFits(s) /\ IssuesFit(s) /\ AccountFits(s) /\ ChunksFit(s)
        /\ ~Starting(s) /\ ~StartQueued(s) /\ archive[s] = NewArchive /\ ~file[s].exists
    BY <1>1, <2>1 DEF Connected, StartFits
  <2>5. archive[s].pending = 0 /\ archive[s].final = FALSE /\ ~archive[s].completed
    BY <2>4 DEF NewArchive
  <2>6. Queued(s) = 0 /\ InHand(s) = 0 /\ \A i \in DOMAIN queue : ~IsOutput(queue[i], s)
    BY <1>1, <2>4, <2>5, NoneQueued
  <2>7. /\ DOMAIN queue' = 1 .. Len(queue) + 1 /\ queue'[Len(queue) + 1] = m
        /\ \A i \in 1 .. Len(queue) : queue'[i] = queue[i]
        /\ Queued(s)' = 0 /\ Len(queue) \in Nat /\ DOMAIN queue = 1 .. Len(queue)
    BY <1>1, <1>3, <2>1, <2>6, AppendFacts, QueueFacts
  <2>8. ClientFits(s)' /\ FileFits(s)'
    BY <1>1, <1>4, <2>3, <2>5, FrameFacts DEF ClientFits, FileFits
  <2>9. StartFits(s)'
    <3>1. \A i \in 1 .. Len(queue) : ~IsStart(queue[i], s)
      BY <2>4, <2>7 DEF StartQueued
    <3>2. \A i \in DOMAIN queue' : IsStart(queue'[i], s) => i = Len(queue) + 1
      <4> HIDE DEF m
      <4> QED BY <2>7, <3>1
    <3> QED BY <3>2, <2>3, <2>4, <2>5, <1>1, FrameFacts DEF StartFits
  <2>10. PendingFits(s)' /\ IssuesFit(s)' /\ AccountFits(s)'
    BY <1>1, <1>4, <2>3, <2>4, <2>5, <2>6, <2>7, FrameFacts DEF PendingFits, IssuesFit, AccountFits
  <2>11. ChunksFit(s)'
    <3>1. \A i \in DOMAIN queue' : ~IsOutput(queue'[i], s)
      <4> HIDE DEF m
      <4> QED BY <1>3, <2>6, <2>7
    <3>2. StartQueued(s)'
      BY <1>3, <2>7 DEF StartQueued
    <3>3. InHand(s)' = 0
      BY <1>1, <2>6, FrameFacts
    <3> QED BY <3>1, <3>2, <3>3 DEF ChunksFit
  <2> QED
    BY <2>2, <2>8, <2>9, <2>10, <2>11, AloneKeeps DEF Connected
<1>6. CASE Steps(s, "gone", 0) /\ UNCHANGED queue
  <2> DEFINE c == [pc |-> "gone", rest |-> 0]
  <2>1. c \in ClientStates /\ client' = [client EXCEPT ![s] = c] /\ queue' = queue
    BY <1>6 DEF Steps, ClientStates
  <2>2. Alone(s) /\ ArchiveShape' /\ WriterFits'
    BY <1>1, <1>2, <1>3, <2>1, ClientAlone
  <2>3. client'[s].pc = "gone" /\ client'[s].rest = 0
    BY <1>2, <2>1
  <2>4. ClientFits(s)' /\ FileFits(s)'
    BY <1>1, <1>4, <2>3, FrameFacts DEF ClientFits, FileFits
  <2>5. ASSUME ~Disconnected' PROVE Connected(s)'
    <3>1. ~Disconnected /\ Queued(s)' = Queued(s) /\ StartQueued(s)' = StartQueued(s)
      BY <1>1, <2>1, <2>5, FrameFacts DEF Queued, StartQueued
    <3>2. StartFits(s) /\ PendingFits(s) /\ IssuesFit(s) /\ AccountFits(s) /\ ChunksFit(s)
      BY <1>1, <3>1 DEF Connected
    <3>3. StartFits(s)'
      BY <1>1, <2>1, <2>3, <3>1, <3>2, FrameFacts DEF StartFits
    <3>4. PendingFits(s)' /\ IssuesFit(s)' /\ AccountFits(s)'
      BY <1>1, <1>4, <2>3, <3>1, <3>2, FrameFacts DEF PendingFits, IssuesFit, AccountFits
    <3>5. ChunksFit(s)'
      BY <1>1, <2>1, <2>3, <3>1, <3>2, FrameFacts DEF ChunksFit
    <3> QED BY <3>3, <3>4, <3>5 DEF Connected
  <2> QED
    BY <2>2, <2>4, <2>5, AloneKeeps
<1> QED
  BY <1>5, <1>6 DEF StartSession

(* How the account of a session moves.                                     *)
LEMMA BalancePushes ==
  \A L, D, Q, H, R, O, n, o, d \in Nat :
    Balance(L, D, Q, H, R, O) /\ o + R = O + n =>
      (d = D + n => Balance(L, d, Q, H, 0, o)) /\ Balance(L, D, Q, H, n, o)
BY DEF Balance

LEMMA BalanceMoves ==
  \A L, D, Q, H, R, O \in Nat :
    /\ Balance(L, D, Q, H, R + 1, O) <=> Balance(L, D, Q + 1, H, R, O)
    /\ Balance(L, D, Q + 1, 0, R, O) <=> Balance(L, D, Q, 1, R, O)
    /\ Balance(L, D, Q, 1, R, O) <=> Balance(L + 1, D, Q, 0, R, O)
    /\ Balance(L, D, Q, 1, R, O) <=> Balance(L, D + 1, Q, 0, R, O)
BY DEF Balance

(* The fields of the books after one of them was set.                      *)
LEMMA SetObserved ==
  ASSUME NEW r \in ArchiveStates, NEW n \in Nat, NEW a, a = [r EXCEPT !.observed = n]
  PROVE  /\ a \in ArchiveStates /\ a.observed = n
         /\ a.issues = r.issues /\ a.dropped = r.dropped /\ a.pending = r.pending
         /\ a.final = r.final /\ a.completed = r.completed
BY DEF ArchiveStates

LEMMA SetPending ==
  ASSUME NEW r \in ArchiveStates, NEW n \in Nat, NEW a, a = [r EXCEPT !.pending = n]
  PROVE  /\ a \in ArchiveStates /\ a.pending = n
         /\ a.issues = r.issues /\ a.dropped = r.dropped /\ a.observed = r.observed
         /\ a.final = r.final /\ a.completed = r.completed
BY DEF ArchiveStates

(* A step of s that leaves the queue alone keeps every place in it.        *)
LEMMA QueueRests ==
  ASSUME queue' = queue
  PROVE  \A u : Queued(u)' = Queued(u) /\ StartQueued(u)' = StartQueued(u)
BY DEF Queued, StartQueued

LEMMA PushNextKeeps ==
  ASSUME ArchiveInv, NEW s \in ArchiveSessions, PushNext(s)
  PROVE  ArchiveInv'
<1>1. ArchiveShape /\ ClientFits(s) /\ FileFits(s) /\ (~Disconnected => Connected(s))
      /\ ClientFrame /\ queue' = queue /\ client[s].pc = "running"
  BY DEF ArchiveInv, PushNext
<1>2. archive[s] \in ArchiveStates /\ client \in [ArchiveSessions -> ClientStates]
      /\ archive \in [ArchiveSessions -> ArchiveStates]
  BY <1>1 DEF ArchiveShape
<1>3. PICK rest \in 1 .. MaxTexts :
        LET fresh == client[s].rest = 0
            a == [archive[s] EXCEPT !.observed = IF fresh THEN @ + rest ELSE @]
        IN /\ IF fresh THEN a.observed <= MaxTexts ELSE rest = client[s].rest
           /\ \/ /\ a.issues # {}
                 /\ archive' = [archive EXCEPT ![s] = Loses(a, rest)]
                 /\ Steps(s, "running", 0)
              \/ /\ a.issues = {}
                 /\ archive' = [archive EXCEPT ![s] = [a EXCEPT !.pending = @ + 1]]
                 /\ Steps(s, "send", rest)
  BY DEF PushNext
<1> DEFINE fresh == client[s].rest = 0
           a == [archive[s] EXCEPT !.observed = IF fresh THEN @ + rest ELSE @]
           b == [a EXCEPT !.pending = @ + 1]
<1>4. rest \in Nat \ {0}
  BY ArchiveAssumption
<1>5. /\ archive[s].observed \in Nat /\ archive[s].dropped \in Nat /\ archive[s].pending \in Nat
      /\ client[s].rest \in Nat /\ Len(file[s].out) \in Nat
      /\ archive[s].issues \in SUBSET {"fatal", "queue"}
  BY <1>1, Fields
<1>6. /\ a \in ArchiveStates /\ a.observed = archive[s].observed + (IF fresh THEN rest ELSE 0)
      /\ a.issues = archive[s].issues /\ a.dropped = archive[s].dropped
      /\ a.pending = archive[s].pending /\ a.final = archive[s].final
      /\ a.completed = archive[s].completed
  <2> DEFINE n == IF fresh THEN archive[s].observed + rest ELSE archive[s].observed
  <2>1. n \in Nat /\ n = archive[s].observed + (IF fresh THEN rest ELSE 0)
    BY <1>4, <1>5
  <2>2. a = [archive[s] EXCEPT !.observed = n]
    OBVIOUS
  <2> HIDE DEF a, n, fresh
  <2> QED BY <1>2, <2>1, <2>2, SetObserved
<1>7. /\ b \in ArchiveStates /\ b.observed = a.observed /\ b.issues = a.issues
      /\ b.dropped = a.dropped /\ b.pending = a.pending + 1 /\ b.final = a.final
      /\ b.completed = a.completed
  <2>1. a.pending + 1 \in Nat /\ b = [a EXCEPT !.pending = a.pending + 1]
    BY <1>5, <1>6
  <2> HIDE DEF a, b
  <2> QED BY <1>6, <2>1, SetPending
<1>8. client[s].rest # 0 => rest = client[s].rest
  BY <1>3
<1>9. a.observed + client[s].rest = archive[s].observed + rest
  BY <1>4, <1>5, <1>6, <1>8
<1>15. rest <= a.observed /\ 0 <= a.observed
  <2>1. client[s].rest <= archive[s].observed
    BY <1>1 DEF ClientFits
  <2>2. a.observed \in Nat
    BY <1>6 DEF ArchiveStates
  <2> HIDE DEF a
  <2> QED BY <2>1, <2>2, <1>4, <1>5, <1>9
<1>10. ~archive[s].final /\ (file[s].exists => file[s].open) /\ file[s].footer = "none"
  <2>1. ~archive[s].final
    BY <1>1 DEF ClientFits
  <2>2. file[s].exists => file[s].open
    BY <1>1, <2>1 DEF FileFits
  <2>3. ~file[s].exists => file[s].footer = "none"
    BY <1>1, NoFileFacts DEF FileFits
  <2> QED BY <1>1, <2>1, <2>2, <2>3 DEF FileFits
<1>11. NoJob \in Commands /\ \A u : ~IsStart(NoJob, u) /\ ~IsOutput(NoJob, u)
  BY CommandKinds
<1>12. /\ ~Disconnected => StartFits(s) /\ PendingFits(s) /\ IssuesFit(s) /\ AccountFits(s) /\ ChunksFit(s)
       /\ Queued(s) \in Nat /\ InHand(s) \in {0, 1}
  BY <1>1, QueueFacts DEF Connected
<1>13. ASSUME archive[s].issues # {}, archive' = [archive EXCEPT ![s] = Loses(a, rest)],
              Steps(s, "running", 0)
       PROVE  ArchiveInv'
  <2> DEFINE c == [pc |-> "running", rest |-> 0]
             d == Loses(a, rest)
  <2>1. c \in ClientStates /\ client' = [client EXCEPT ![s] = c]
    BY <1>13 DEF Steps, ClientStates
  <2>2. /\ d \in ArchiveStates /\ d.dropped = archive[s].dropped + rest /\ d.issues = archive[s].issues
        /\ d.observed = a.observed /\ d.pending = archive[s].pending
        /\ d.final = archive[s].final /\ d.completed = archive[s].completed
    <3> HIDE DEF a
    <3> QED BY <1>4, <1>6, LosesCounts
  <2> HIDE DEF a, b, d
  <2>3. archive' = [archive EXCEPT ![s] = d]
    BY <1>13 DEF a, d
  <2>4. Alone(s) /\ ArchiveShape' /\ WriterFits'
    BY <1>1, <1>11, <2>1, <2>2, <2>3, ClientAlone
  <2>5. client'[s].pc = "running" /\ client'[s].rest = 0 /\ archive'[s] = d
    BY <1>2, <2>1, <2>3
  <2>6. ClientFits(s)'
    BY <1>10, <1>15, <2>2, <2>5 DEF ClientFits
  <2>7. FileFits(s)'
    BY <1>1, <1>10, <2>2, <2>5, FrameFacts DEF FileFits
  <2>8. ASSUME ~Disconnected' PROVE Connected(s)'
    <3>1. ~Disconnected /\ Queued(s)' = Queued(s) /\ StartQueued(s)' = StartQueued(s)
      BY <1>1, <2>8, FrameFacts, QueueRests
    <3>2. /\ file' = file /\ InHand(s)' = InHand(s) /\ Starting(s)' = Starting(s) /\ writer' = writer
      BY <1>1, FrameFacts
    <3>3. StartFits(s)'
      BY <1>1, <1>12, <2>2, <2>5, <3>1, <3>2 DEF StartFits
    <3>4. PendingFits(s)' /\ IssuesFit(s)'
      BY <1>1, <1>12, <1>13, <2>2, <2>5, <3>1, <3>2 DEF PendingFits, IssuesFit
    <3>5. AccountFits(s)'
      <4>1. ~d.completed =>
              Balance(Len(file[s].out), archive[s].dropped, Queued(s), InHand(s), client[s].rest,
                      archive[s].observed)
        BY <1>6, <1>7, <1>12, <2>2, <3>1 DEF AccountFits
      <4>2. ~d.completed =>
              Balance(Len(file[s].out), d.dropped, Queued(s), InHand(s), 0, d.observed)
        <5>1. d.observed + client[s].rest = archive[s].observed + rest
              /\ d.dropped = (archive[s].dropped + rest)
          BY <1>6, <1>7, <1>9, <2>2
        <5>2. d.observed \in Nat /\ d.dropped \in Nat
          BY <1>7, <2>2 DEF ArchiveStates
        <5>3. Queued(s) \in Nat /\ InHand(s) \in Nat /\ rest \in Nat
          BY <1>4, <1>12
        <5> HIDE DEF fresh
        <5> QED BY <4>1, <5>1, <5>2, <5>3, <1>5, BalancePushes
      <4> QED BY <4>2, <2>5, <3>1, <3>2 DEF AccountFits
    <3>6. ChunksFit(s)'
      BY <1>1, <1>12, <2>2, <2>5, <3>1, <3>2 DEF ChunksFit
    <3> QED BY <3>3, <3>4, <3>5, <3>6 DEF Connected
  <2> QED
    BY <2>4, <2>6, <2>7, <2>8, AloneKeeps
<1>14. ASSUME archive[s].issues = {}, archive' = [archive EXCEPT ![s] = b], Steps(s, "send", rest)
       PROVE  ArchiveInv'
  <2> DEFINE c == [pc |-> "send", rest |-> rest]
  <2>1. c \in ClientStates /\ client' = [client EXCEPT ![s] = c]
    BY <1>4, <1>14 DEF Steps, ClientStates
  <2> HIDE DEF a, b
  <2>4. Alone(s) /\ ArchiveShape' /\ WriterFits'
    BY <1>1, <1>6, <1>7, <1>11, <1>14, <2>1, ClientAlone
  <2>5. client'[s].pc = "send" /\ client'[s].rest = rest /\ archive'[s] = b
    BY <1>2, <2>1, <1>14
  <2>6. ClientFits(s)'
    <3>1. b.pending > 0 /\ rest > 0 /\ rest <= b.observed
      BY <1>4, <1>5, <1>6, <1>7, <1>15
    <3> QED BY <1>6, <1>7, <1>10, <2>5, <3>1 DEF ClientFits
  <2>7. FileFits(s)'
    BY <1>1, <1>6, <1>7, <1>10, <2>5, FrameFacts DEF FileFits
  <2>8. ASSUME ~Disconnected' PROVE Connected(s)'
    <3>1. ~Disconnected /\ Queued(s)' = Queued(s) /\ StartQueued(s)' = StartQueued(s)
      BY <1>1, <2>8, FrameFacts, QueueRests
    <3>2. /\ file' = file /\ InHand(s)' = InHand(s) /\ Starting(s)' = Starting(s) /\ writer' = writer
      BY <1>1, FrameFacts
    <3>3. StartFits(s)'
      BY <1>1, <1>6, <1>7, <1>12, <2>5, <3>1, <3>2 DEF StartFits
    <3>4. PendingFits(s)'
      BY <1>1, <1>5, <1>6, <1>7, <1>12, <2>5, <3>1, <3>2 DEF PendingFits
    <3>5. IssuesFit(s)'
      BY <1>1, <1>6, <1>7, <1>10, <1>12, <1>14, <2>5, <3>1, <3>2, <1>5 DEF IssuesFit
    <3>6. AccountFits(s)'
      <4>1. ~b.completed =>
              Balance(Len(file[s].out), archive[s].dropped, Queued(s), InHand(s), client[s].rest,
                      archive[s].observed)
        BY <1>6, <1>7, <1>12, <3>1 DEF AccountFits
      <4>2. ~b.completed =>
              Balance(Len(file[s].out), b.dropped, Queued(s), InHand(s), rest, b.observed)
        <5>1. b.observed + client[s].rest = archive[s].observed + rest
              /\ b.dropped = archive[s].dropped
          BY <1>6, <1>7, <1>9
        <5>2. b.observed \in Nat
          BY <1>7 DEF ArchiveStates
        <5>3. Queued(s) \in Nat /\ InHand(s) \in Nat /\ rest \in Nat
          BY <1>4, <1>12
        <5> HIDE DEF fresh
        <5> QED BY <4>1, <5>1, <5>2, <5>3, <1>5, BalancePushes
      <4> QED BY <4>2, <2>5, <3>1, <3>2 DEF AccountFits
    <3>7. ChunksFit(s)'
      BY <1>1, <1>6, <1>7, <1>12, <2>5, <3>1, <3>2 DEF ChunksFit
    <3> QED BY <3>3, <3>4, <3>5, <3>6, <3>7 DEF Connected
  <2> QED
    BY <2>4, <2>6, <2>7, <2>8, AloneKeeps
<1> QED
  <2> HIDE DEF fresh
  <2>1. a.issues = archive[s].issues
    BY <1>6
  <2>2. \/ a.issues # {} /\ archive' = [archive EXCEPT ![s] = Loses(a, rest)] /\ Steps(s, "running", 0)
        \/ a.issues = {} /\ archive' = [archive EXCEPT ![s] = b] /\ Steps(s, "send", rest)
    BY <1>3 DEF fresh
  <2> HIDE DEF a, b
  <2> QED BY <2>1, <2>2, <1>13, <1>14

LEMMA BalanceSends ==
  \A L, Q, H, R, O, n \in Nat :
    Balance(L, 0, Q, H, R, O) /\ n = O - R + 1 => n = L + H + (Q + 1)
BY DEF Balance

LEMMA BalanceRefused ==
  \A L, D, Q, H, R, O, d \in Nat :
    d = D + R /\ Balance(L, D, Q, H, R, O) => Balance(L, d, Q, H, 0, O)
BY DEF Balance

(* push hands the chunk to the writer: it is the next one.                 *)
LEMMA PushQueuesKeeps ==
  ASSUME ArchiveInv, NEW s \in ArchiveSessions, PushSends(s), NEW size \in Sizes,
         NEW m, m = [cmd |-> "output", session |-> s,
                     chunk |-> archive[s].observed - client[s].rest + 1, size |-> size],
         Sends(m), Steps(s, "running", client[s].rest - 1), archive' = archive
  PROVE  ArchiveInv'
<1>1. /\ ArchiveShape /\ ClientFits(s) /\ FileFits(s)
      /\ ClientFrame /\ client[s].pc = "send" /\ queue' = Append(queue, m)
      /\ ~Disconnected /\ Connected(s)
  BY DEF ArchiveInv, PushSends, Sends
<1>2. archive[s] \in ArchiveStates /\ archive' = [archive EXCEPT ![s] = archive[s]]
      /\ client \in [ArchiveSessions -> ClientStates]
  BY <1>1 DEF ArchiveShape
<1>3. StartFits(s) /\ PendingFits(s) /\ IssuesFit(s) /\ AccountFits(s) /\ ChunksFit(s)
  BY <1>1 DEF Connected
<1>4. /\ archive[s].observed \in Nat /\ archive[s].dropped \in Nat /\ archive[s].pending \in Nat
      /\ client[s].rest \in Nat /\ Len(file[s].out) \in Nat
      /\ archive[s].issues \in SUBSET {"fatal", "queue"}
      /\ Queued(s) \in Nat /\ InHand(s) \in {0, 1}
      /\ Len(queue) \in Nat /\ DOMAIN queue = 1 .. Len(queue)
  BY <1>1, Fields, QueueFacts
<1>5. /\ client[s].rest > 0 /\ client[s].rest <= archive[s].observed /\ ~archive[s].final
      /\ "queue" \notin archive[s].issues
  BY <1>1, <1>3 DEF ClientFits, IssuesFit
<1> DEFINE c == [pc |-> "running", rest |-> client[s].rest - 1]
           n == archive[s].observed - client[s].rest + 1
<1>6. n \in Nat /\ client[s].rest - 1 \in Nat
  BY <1>4, <1>5
<1>7. /\ m \in Commands /\ ~IsStart(m, s) /\ IsOutput(m, s) /\ m.chunk = n
      /\ \A u : u # s => ~IsStart(m, u) /\ ~IsOutput(m, u)
  <2> HIDE DEF n
  <2>1. m = [cmd |-> "output", session |-> s, chunk |-> n, size |-> size]
    BY DEF n
  <2> QED BY <1>6, <2>1, CommandKinds
<1>8. c \in ClientStates /\ client' = [client EXCEPT ![s] = c]
  BY <1>6 DEF Steps, ClientStates
<1>9. Alone(s) /\ ArchiveShape' /\ WriterFits'
  BY <1>1, <1>2, <1>7, <1>8, ClientAlone
<1>10. client'[s].pc = "running" /\ client'[s].rest = client[s].rest - 1
  BY <1>2, <1>8
<1>11. /\ DOMAIN queue' = 1 .. Len(queue) + 1 /\ queue'[Len(queue) + 1] = m
       /\ \A i \in 1 .. Len(queue) :
            queue'[i] = queue[i] /\ Chunks(queue', s, i) = Chunks(queue, s, i)
       /\ Queued(s)' = Queued(s) + 1
       /\ Cardinality(Chunks(queue', s, Len(queue) + 1)) = Queued(s) + 1
  BY <1>1, <1>7, AppendFacts
<1>12. ClientFits(s)'
  <2>1. client[s].rest - 1 <= archive[s].observed
    BY <1>4, <1>5
  <2> QED BY <1>5, <1>10, <2>1 DEF ClientFits
<1>13. FileFits(s)'
  BY <1>1, FrameFacts DEF FileFits
<1>14. \A i \in DOMAIN queue' : IsStart(queue'[i], s) => i \in DOMAIN queue /\ queue'[i] = queue[i]
  BY <1>4, <1>7, <1>11
<1>15. StartQueued(s)' <=> StartQueued(s)
  <2>1. \A i \in DOMAIN queue : i \in DOMAIN queue' /\ queue'[i] = queue[i]
    BY <1>4, <1>11
  <2> QED BY <1>14, <2>1 DEF StartQueued
<1>16. StartFits(s)'
  BY <1>1, <1>3, <1>10, <1>14, <1>15, FrameFacts DEF StartFits
<1>17. PendingFits(s)' /\ IssuesFit(s)'
  <2>1. archive[s].pending = Queued(s) + 1 + InHand(s)
    BY <1>1, <1>3 DEF PendingFits
  <2> QED BY <1>1, <1>3, <1>4, <1>10, <1>11, <2>1, FrameFacts DEF PendingFits, IssuesFit
<1>18. AccountFits(s)'
  <2> SUFFICES ASSUME ~archive[s].completed
               PROVE  Balance(Len(file[s].out), archive[s].dropped, Queued(s) + 1, InHand(s),
                              client[s].rest - 1, archive[s].observed)
    BY <1>1, <1>10, <1>11, FrameFacts DEF AccountFits
  <2>1. Balance(Len(file[s].out), archive[s].dropped, Queued(s), InHand(s),
                client[s].rest, archive[s].observed)
    BY <1>3 DEF AccountFits
  <2>2. (client[s].rest - 1) + 1 = client[s].rest
    BY <1>4
  <2>3. InHand(s) \in Nat
    BY <1>4
  <2> QED BY <1>4, <1>6, <2>1, <2>2, <2>3, BalanceMoves
<1>19. ChunksFit(s)'
  <2> SUFFICES ASSUME "fatal" \notin archive[s].issues, ~archive[s].completed
               PROVE  /\ InHand(s) = 1 => file[s].open /\ writer.job.chunk = Len(file[s].out) + 1
                      /\ \A i \in DOMAIN queue' : IsOutput(queue'[i], s) =>
                           /\ queue'[i].chunk = Len(file[s].out) + InHand(s) + Cardinality(Chunks(queue', s, i))
                           /\ file[s].open \/ Starting(s) \/ \E j \in 1 .. i - 1 : IsStart(queue'[j], s)
                      /\ file[s].open \/ Starting(s) \/ StartQueued(s)
    BY <1>1, <1>15, FrameFacts DEF ChunksFit
  <2>1. /\ InHand(s) = 1 => file[s].open /\ writer.job.chunk = Len(file[s].out) + 1
        /\ \A i \in DOMAIN queue : IsOutput(queue[i], s) =>
             /\ queue[i].chunk = Len(file[s].out) + InHand(s) + Cardinality(Chunks(queue, s, i))
             /\ file[s].open \/ Starting(s) \/ \E j \in 1 .. i - 1 : IsStart(queue[j], s)
        /\ file[s].open \/ Starting(s) \/ StartQueued(s)
    BY <1>1, <1>3 DEF ChunksFit
  <2>2. n = Len(file[s].out) + InHand(s) + (Queued(s) + 1)
    <3>1. archive[s].issues = {} /\ archive[s].dropped = 0
      BY <1>3, <1>4, <1>5 DEF IssuesFit
    <3>2. Balance(Len(file[s].out), 0, Queued(s), InHand(s), client[s].rest, archive[s].observed)
      BY <1>3, <3>1 DEF AccountFits
    <3>3. InHand(s) \in Nat
      BY <1>4
    <3>4. n = archive[s].observed - client[s].rest + 1
      OBVIOUS
    <3> HIDE DEF n
    <3> QED BY <1>4, <1>6, <3>2, <3>3, <3>4, BalanceSends
  <2>3. ASSUME NEW i \in DOMAIN queue', IsOutput(queue'[i], s)
        PROVE  /\ queue'[i].chunk = Len(file[s].out) + InHand(s) + Cardinality(Chunks(queue', s, i))
               /\ file[s].open \/ Starting(s) \/ \E j \in 1 .. i - 1 : IsStart(queue'[j], s)
    <3>1. CASE i \in DOMAIN queue
      <4>1. i \in 1 .. Len(queue) /\ \A j \in 1 .. i - 1 : j \in 1 .. Len(queue)
        BY ONLY <1>4, <3>1
      <4>2. /\ queue'[i] = queue[i] /\ Chunks(queue', s, i) = Chunks(queue, s, i)
            /\ \A j \in 1 .. i - 1 : queue'[j] = queue[j]
        BY ONLY <1>11, <4>1
      <4> QED BY <2>1, <2>3, <3>1, <4>2
    <3>2. CASE i \notin DOMAIN queue
      <4>1. i = Len(queue) + 1 /\ queue'[i] = m
        BY <1>4, <1>11, <3>2
      <4>2. queue'[i].chunk = Len(file[s].out) + InHand(s) + Cardinality(Chunks(queue', s, i))
        BY <1>7, <1>11, <2>2, <4>1
      <4>3. StartQueued(s) => \E j \in 1 .. i - 1 : IsStart(queue'[j], s)
        <5>1. \A j \in DOMAIN queue : j \in 1 .. i - 1 /\ queue'[j] = queue[j]
          BY <1>4, <1>11, <4>1
        <5> QED BY <5>1 DEF StartQueued
      <4> QED BY <2>1, <4>2, <4>3
    <3> QED BY <3>1, <3>2
  <2> QED BY <2>1, <2>3
<1> QED
  BY <1>9, <1>12, <1>13, <1>16, <1>17, <1>18, <1>19, AloneKeeps DEF Connected

(* push finds no place: the rest of the text is lost, and all that follows. *)
LEMMA PushRefusedKeeps ==
  ASSUME ArchiveInv, NEW s \in ArchiveSessions, PushSends(s), NEW flag \in {"worker_stopped", "queue_full"},
         Refused(s, flag), Steps(s, "running", 0), queue' = queue
  PROVE  ArchiveInv'
<1>1. /\ ArchiveShape /\ ClientFits(s) /\ FileFits(s) /\ (~Disconnected => Connected(s))
      /\ ClientFrame /\ client[s].pc = "send"
  BY DEF ArchiveInv, PushSends
<1>2. archive[s] \in ArchiveStates /\ archive \in [ArchiveSessions -> ArchiveStates]
      /\ client \in [ArchiveSessions -> ClientStates]
  BY <1>1 DEF ArchiveShape
<1>3. ~Disconnected => StartFits(s) /\ PendingFits(s) /\ IssuesFit(s) /\ AccountFits(s) /\ ChunksFit(s)
  BY <1>1 DEF Connected
<1>4. /\ archive[s].observed \in Nat /\ archive[s].dropped \in Nat /\ archive[s].pending \in Nat
      /\ client[s].rest \in Nat /\ Len(file[s].out) \in Nat
      /\ archive[s].issues \in SUBSET {"fatal", "queue"}
      /\ Queued(s) \in Nat /\ InHand(s) \in {0, 1}
  BY <1>1, Fields, QueueFacts
<1>5. archive[s].pending > 0 /\ ~archive[s].final
  BY <1>1 DEF ClientFits
<1> DEFINE a == [archive[s] EXCEPT !.pending = @ - 1]
           b == Loses(a, client[s].rest)
           d == issue(b, flag)
           c == [pc |-> "running", rest |-> 0]
<1>6. /\ a \in ArchiveStates /\ a.pending = archive[s].pending - 1
      /\ a.issues = archive[s].issues /\ a.dropped = archive[s].dropped
      /\ a.observed = archive[s].observed /\ a.final = archive[s].final
      /\ a.completed = archive[s].completed
  <2>1. archive[s].pending - 1 \in Nat /\ a = [archive[s] EXCEPT !.pending = archive[s].pending - 1]
    BY <1>4, <1>5
  <2> HIDE DEF a
  <2> QED BY <1>2, <2>1, SetPending
<1>7. /\ b \in ArchiveStates /\ b.pending = a.pending /\ b.issues = a.issues
      /\ b.dropped = a.dropped + client[s].rest
      /\ b.observed = a.observed /\ b.final = a.final /\ b.completed = a.completed
  <2> HIDE DEF a
  <2> QED BY <1>4, <1>6, LosesCounts
<1>8. /\ d \in ArchiveStates /\ d.pending = b.pending /\ d.issues = b.issues \cup {"queue"}
      /\ d.dropped = b.dropped /\ d.observed = b.observed /\ d.final = b.final
      /\ d.completed = b.completed
  <2>1. flag \notin Fatal
    BY DEF Fatal
  <2> HIDE DEF a, b
  <2> QED BY <1>7, <2>1, IssueSets
<1>9. archive' = [archive EXCEPT ![s] = d] /\ c \in ClientStates /\ client' = [client EXCEPT ![s] = c]
  <2>1. archive' = [archive EXCEPT ![s] = d]
    BY DEF Refused
  <2>2. c \in ClientStates /\ client' = [client EXCEPT ![s] = c]
    BY DEF Steps, ClientStates
  <2> QED BY <2>1, <2>2
<1> HIDE DEF a, b, d
<1>10. NoJob \in Commands /\ \A u : ~IsStart(NoJob, u) /\ ~IsOutput(NoJob, u)
  BY CommandKinds
<1>11. Alone(s) /\ ArchiveShape' /\ WriterFits'
  BY <1>1, <1>5, <1>8, <1>9, <1>10, ClientAlone
<1>12. client'[s].pc = "running" /\ client'[s].rest = 0 /\ archive'[s] = d
  BY <1>2, <1>9
<1>13. ClientFits(s)'
  BY <1>4, <1>5, <1>6, <1>7, <1>8, <1>12 DEF ClientFits
<1>14. FileFits(s)'
  <2>1. (file[s].exists => file[s].open) /\ file[s].footer = "none"
    BY <1>1, <1>5, NoFileFacts DEF FileFits
  <2> QED BY <1>1, <2>1, FrameFacts DEF FileFits
<1>15. ASSUME ~Disconnected' PROVE Connected(s)'
  <2>1. ~Disconnected /\ Queued(s)' = Queued(s) /\ StartQueued(s)' = StartQueued(s)
    BY <1>1, <1>15, FrameFacts, QueueRests
  <2>2. /\ file' = file /\ InHand(s)' = InHand(s) /\ Starting(s)' = Starting(s) /\ writer' = writer
    BY <1>1, FrameFacts
  <2>3. StartFits(s)'
    BY <1>1, <1>3, <1>6, <1>7, <1>8, <1>12, <2>1, <2>2 DEF StartFits
  <2>4. PendingFits(s)'
    <3>1. archive[s].pending = Queued(s) + 1 + InHand(s)
      BY <1>1, <1>3, <2>1 DEF PendingFits
    <3>2. d.pending = Queued(s) + 0 + InHand(s)
      BY <1>4, <1>6, <1>7, <1>8, <3>1
    <3> QED BY <1>12, <2>1, <2>2, <3>2 DEF PendingFits
  <2>5. IssuesFit(s)'
    BY <1>3, <1>5, <1>6, <1>7, <1>8, <1>12, <2>1, <2>2 DEF IssuesFit
  <2>6. AccountFits(s)'
    <3> SUFFICES ASSUME ~archive[s].completed
                 PROVE  Balance(Len(file[s].out), d.dropped, Queued(s), InHand(s), 0, d.observed)
      BY <1>6, <1>7, <1>8, <1>12, <2>1, <2>2 DEF AccountFits
    <3>1. Balance(Len(file[s].out), archive[s].dropped, Queued(s), InHand(s),
                  client[s].rest, archive[s].observed)
      BY <1>3, <2>1 DEF AccountFits
    <3>2. d.dropped = archive[s].dropped + client[s].rest /\ d.observed = archive[s].observed
      BY <1>6, <1>7, <1>8
    <3>3. d.dropped \in Nat
      BY <1>8 DEF ArchiveStates
    <3>4. InHand(s) \in Nat
      BY <1>4
    <3> QED BY <1>4, <3>1, <3>2, <3>3, <3>4, BalanceRefused
  <2>7. ChunksFit(s)'
    BY <1>1, <1>3, <1>6, <1>7, <1>8, <1>12, <2>1, <2>2 DEF ChunksFit
  <2> QED BY <2>3, <2>4, <2>5, <2>6, <2>7 DEF Connected
<1> QED
  BY <1>11, <1>13, <1>14, <1>15, AloneKeeps

LEMMA PushSendsKeeps ==
  ASSUME ArchiveInv, NEW s \in ArchiveSessions, PushSends(s)
  PROVE  ArchiveInv'
<1>1. \/ /\ \E size \in Sizes :
              Sends([cmd |-> "output", session |-> s,
                     chunk |-> archive[s].observed - client[s].rest + 1, size |-> size])
         /\ Steps(s, "running", client[s].rest - 1)
         /\ archive' = archive
      \/ \E flag \in {"worker_stopped", "queue_full"} :
           Refused(s, flag) /\ Steps(s, "running", 0) /\ queue' = queue
  BY DEF PushSends
<1> QED
  BY <1>1, PushQueuesKeeps, PushRefusedKeeps

(* A wake-up changes nothing of what counts.                               *)
LEMMA WakesAround ==
  ASSUME ArchiveShape, Wakes, NEW u \in ArchiveSessions
  PROVE  /\ QueueAround(u) /\ queue' \in Seq(Commands)
         /\ queue' = queue \/ queue' = Append(queue, NoJob)
<1>1. queue' = queue \/ queue' = Append(queue, NoJob)
  BY DEF Wakes, Sends
<1>2. NoJob \in Commands /\ \A v : ~IsStart(NoJob, v) /\ ~IsOutput(NoJob, v)
  BY CommandKinds
<1>3. QueueAround(u)
  BY <1>1, <1>2 DEF QueueAround, Foreign
<1>4. queue' \in Seq(Commands)
  BY <1>1, <1>2, AppendProperties DEF ArchiveShape
<1> QED
  BY <1>1, <1>3, <1>4

(* For the queue alone, the books of a session stay as they are.           *)
LEMMA OnlyQueue ==
  ASSUME ArchiveInv, NEW u \in ArchiveSessions, QueueAround(u), ~Disconnected,
         file' = file, writer' = writer
  PROVE  /\ Queued(u)' = Queued(u) /\ (StartQueued(u)' <=> StartQueued(u))
         /\ Starting(u)' = Starting(u) /\ InHand(u)' = InHand(u) /\ ~Disconnected'
         /\ client'[u] = client[u] /\ archive'[u] = archive[u] => Connected(u)'
<1>1. ArchiveShape
  BY DEF ArchiveInv
<1>2. Queued(u)' = Queued(u) /\ (StartQueued(u)' <=> StartQueued(u))
  BY <1>1, QueueAroundCounts
<1>3. Starting(u)' = Starting(u) /\ InHand(u)' = InHand(u) /\ ~Disconnected' /\ WriterAround(u)
  BY DEF Starting, InHand, Disconnected, WriterAround
<1>4. client'[u] = client[u] /\ archive'[u] = archive[u] => Connected(u)'
  BY <1>3, Around DEF FileAround
<1> QED
  BY <1>2, <1>3, <1>4

LEMMA ShutdownKeeps ==
  ASSUME ArchiveInv, ShutdownArchive
  PROVE  ArchiveInv'
<1>1. /\ ArchiveShape /\ WriterFits /\ Wakes /\ stopping' = TRUE
      /\ client' = client /\ archive' = archive /\ file' = file /\ writer' = writer
  BY DEF ArchiveInv, ShutdownArchive
<1>2. \A u \in ArchiveSessions : QueueAround(u)
  BY <1>1, WakesAround
<1>3. \A u \in ArchiveSessions : WriterAround(u) /\ FileAround(u)
  BY <1>1 DEF WriterAround, FileAround, Starting, InHand
<1>4. Disconnected' = Disconnected
  BY <1>1 DEF Disconnected
<1>5. \A u \in ArchiveSessions :
        ClientFits(u)' /\ FileFits(u)' /\ (~Disconnected' => Connected(u)')
  BY <1>1, <1>2, <1>3, <1>4, Around
<1>6. queue' \in Seq(Commands)
  <2>1. queue' = queue \/ queue' = Append(queue, NoJob)
    BY <1>1 DEF Wakes, Sends
  <2> QED BY <1>1, <2>1, CommandKinds, AppendProperties DEF ArchiveShape
<1>7. ArchiveShape'
  BY <1>1, <1>6 DEF ArchiveShape
<1>8. WriterFits'
  BY <1>1 DEF WriterFits
<1> QED
  BY <1>5, <1>7, <1>8 DEF ArchiveInv

(* The books of a session are marked final, or get a flag of a session.    *)
LEMMA SealKeeps ==
  ASSUME ArchiveInv, NEW s \in ArchiveSessions, Seal(s)
  PROVE  ArchiveInv'
<1> DEFINE c == [pc |-> "sealed", rest |-> 0]
           a == [archive[s] EXCEPT !.final = TRUE]
<1>1. /\ ArchiveShape /\ ClientFits(s) /\ FileFits(s) /\ (~Disconnected => Connected(s))
      /\ ClientFrame /\ Wakes /\ client[s] = [pc |-> "running", rest |-> 0]
      /\ archive' = [archive EXCEPT ![s].final = TRUE] /\ Steps(s, "sealed", 0)
  BY DEF ArchiveInv, Seal
<1>2. archive[s] \in ArchiveStates /\ archive \in [ArchiveSessions -> ArchiveStates]
      /\ client \in [ArchiveSessions -> ClientStates]
  BY <1>1 DEF ArchiveShape
<1>3. /\ a \in ArchiveStates /\ a.final = TRUE
      /\ a.issues = archive[s].issues /\ a.dropped = archive[s].dropped
      /\ a.pending = archive[s].pending /\ a.observed = archive[s].observed
      /\ a.completed = archive[s].completed
  BY <1>2 DEF ArchiveStates
<1>4. c \in ClientStates /\ client' = [client EXCEPT ![s] = c]
  BY <1>1 DEF Steps, ClientStates
<1>5. archive' = [archive EXCEPT ![s] = a]
  BY <1>1
<1> HIDE DEF a
<1>6. /\ queue' = queue \/ queue' = Append(queue, NoJob)
      /\ QueueAround(s)
  BY <1>1, WakesAround
<1>7. NoJob \in Commands /\ \A u : ~IsStart(NoJob, u) /\ ~IsOutput(NoJob, u)
  BY CommandKinds
<1>8. Alone(s) /\ ArchiveShape' /\ WriterFits'
  BY <1>1, <1>3, <1>4, <1>5, <1>6, <1>7, ClientAlone
<1>9. client'[s].pc = "sealed" /\ client'[s].rest = 0 /\ archive'[s] = a
      /\ client[s].pc = "running" /\ client[s].rest = 0
  BY <1>1, <1>2, <1>4, <1>5
<1>10. ClientFits(s)'
  BY <1>1, <1>3, <1>9 DEF ClientFits
<1>11. FileFits(s)'
  BY <1>1, <1>3, <1>9, FrameFacts DEF FileFits
<1>12. ASSUME ~Disconnected' PROVE Connected(s)'
  <2>1. ~Disconnected
    BY <1>1, <1>12, FrameFacts
  <2>2. StartFits(s) /\ PendingFits(s) /\ IssuesFit(s) /\ AccountFits(s) /\ ChunksFit(s)
    BY <1>1, <2>1 DEF Connected
  <2>3. file' = file /\ writer' = writer
    BY <1>1, FrameFacts
  <2>4. /\ Queued(s)' = Queued(s) /\ (StartQueued(s)' <=> StartQueued(s))
        /\ Starting(s)' = Starting(s) /\ InHand(s)' = InHand(s)
    BY <1>6, <2>1, <2>3, OnlyQueue
  <2>5. StartFits(s)'
    <3>1. \A i \in DOMAIN queue' : IsStart(queue'[i], s) => i \in DOMAIN queue /\ queue'[i] = queue[i]
      <4>1. CASE queue' = queue
        BY <4>1
      <4>2. CASE queue' = Append(queue, NoJob)
        <5>1. /\ DOMAIN queue' = 1 .. Len(queue) + 1 /\ queue'[Len(queue) + 1] = NoJob
              /\ \A i \in 1 .. Len(queue) : queue'[i] = queue[i]
              /\ Len(queue) \in Nat /\ DOMAIN queue = 1 .. Len(queue)
          BY <1>1, <1>7, <4>2, AppendFacts, QueueFacts
        <5> QED BY <5>1, <1>7
      <4> QED BY <1>6, <4>1, <4>2
    <3> QED BY <1>3, <1>9, <2>2, <2>3, <2>4, <3>1 DEF StartFits
  <2>6. PendingFits(s)' /\ IssuesFit(s)' /\ AccountFits(s)'
    BY <1>3, <1>9, <2>2, <2>3, <2>4 DEF PendingFits, IssuesFit, AccountFits
  <2>7. ChunksFit(s)'
    <3>1. \A i \in DOMAIN queue' : IsOutput(queue'[i], s) =>
            /\ i \in DOMAIN queue /\ queue'[i] = queue[i]
            /\ Cardinality(Chunks(queue', s, i)) = Cardinality(Chunks(queue, s, i))
            /\ \A j \in 1 .. i - 1 : queue'[j] = queue[j]
      <4>1. CASE queue' = queue
        BY <4>1
      <4>2. CASE queue' = Append(queue, NoJob)
        <5>1. /\ DOMAIN queue' = 1 .. Len(queue) + 1 /\ queue'[Len(queue) + 1] = NoJob
              /\ \A i \in 1 .. Len(queue) :
                   queue'[i] = queue[i] /\ Chunks(queue', s, i) = Chunks(queue, s, i)
              /\ Len(queue) \in Nat /\ DOMAIN queue = 1 .. Len(queue)
          BY <1>1, <1>7, <4>2, AppendFacts, QueueFacts
        <5>2. \A i \in 1 .. Len(queue) : 1 .. i - 1 \subseteq 1 .. Len(queue)
          BY <5>1
        <5> QED BY <5>1, <5>2, <1>7
      <4> QED BY <1>6, <4>1, <4>2
    <3> QED BY <1>3, <1>9, <2>2, <2>3, <2>4, <3>1 DEF ChunksFit
  <2> QED BY <2>5, <2>6, <2>7 DEF Connected
<1> QED
  BY <1>8, <1>10, <1>11, <1>12, AloneKeeps

LEMMA WaitKeeps ==
  ASSUME ArchiveInv, NEW s \in ArchiveSessions, Wait(s)
  PROVE  ArchiveInv'
<1> DEFINE c == [pc |-> "gone", rest |-> 0]
           a == IF archive[s].completed THEN archive[s] ELSE issue(archive[s], "drain_timeout")
<1>1. /\ ArchiveShape /\ ClientFits(s) /\ FileFits(s) /\ (~Disconnected => Connected(s))
      /\ ClientFrame /\ queue' = queue /\ client[s].pc = "sealed" /\ Steps(s, "gone", 0)
  BY DEF ArchiveInv, Wait
<1>2. archive[s] \in ArchiveStates /\ archive \in [ArchiveSessions -> ArchiveStates]
      /\ client \in [ArchiveSessions -> ClientStates]
  BY <1>1 DEF ArchiveShape
<1>3. archive' = [archive EXCEPT ![s] = a]
  <2>1. CASE archive[s].completed
    BY <1>2, <2>1 DEF Wait
  <2>2. CASE ~archive[s].completed
    BY <1>2, <2>2 DEF Wait
  <2> QED BY <2>1, <2>2
<1>4. /\ a \in ArchiveStates /\ a.final = archive[s].final
      /\ (a.issues = archive[s].issues \/ a.issues = archive[s].issues \cup {"queue"})
      /\ a.dropped = archive[s].dropped
      /\ a.pending = archive[s].pending /\ a.observed = archive[s].observed
      /\ a.completed = archive[s].completed
  BY <1>2, IssueSets DEF Fatal
<1>5. c \in ClientStates /\ client' = [client EXCEPT ![s] = c]
  BY <1>1 DEF Steps, ClientStates
<1> HIDE DEF a
<1>7. NoJob \in Commands /\ \A u : ~IsStart(NoJob, u) /\ ~IsOutput(NoJob, u)
  BY CommandKinds
<1>8. Alone(s) /\ ArchiveShape' /\ WriterFits'
  BY <1>1, <1>3, <1>4, <1>5, <1>7, ClientAlone
<1>9. client'[s].pc = "gone" /\ client'[s].rest = 0 /\ archive'[s] = a /\ client[s].rest = 0
  BY <1>1, <1>2, <1>3, <1>5 DEF ClientFits
<1>10. ClientFits(s)'
  BY <1>1, <1>4, <1>9 DEF ClientFits
<1>11. FileFits(s)'
  BY <1>1, <1>4, <1>9, FrameFacts DEF FileFits
<1>12. ASSUME ~Disconnected' PROVE Connected(s)'
  <2>1. ~Disconnected
    BY <1>1, <1>12, FrameFacts
  <2>2. StartFits(s) /\ PendingFits(s) /\ IssuesFit(s) /\ AccountFits(s) /\ ChunksFit(s)
    BY <1>1, <2>1 DEF Connected
  <2>3. /\ Queued(s)' = Queued(s) /\ StartQueued(s)' = StartQueued(s) /\ file' = file /\ writer' = writer
        /\ Starting(s)' = Starting(s) /\ InHand(s)' = InHand(s)
    BY <1>1, QueueRests, FrameFacts
  <2>4. StartFits(s)'
    BY <1>1, <1>4, <1>9, <2>2, <2>3 DEF StartFits
  <2>5. PendingFits(s)' /\ IssuesFit(s)' /\ AccountFits(s)'
    BY <1>1, <1>4, <1>9, <2>2, <2>3 DEF PendingFits, IssuesFit, AccountFits
  <2>6. ChunksFit(s)'
    BY <1>1, <1>4, <1>9, <2>2, <2>3 DEF ChunksFit
  <2> QED BY <2>4, <2>5, <2>6 DEF Connected
<1> QED
  BY <1>8, <1>10, <1>11, <1>12, AloneKeeps

-----------------------------------------------------------------------------
(* The steps of the writer.                                                *)

(* Steps that only move the writer.                                        *)
LEMMA AllAround ==
  ASSUME ArchiveInv, ArchiveShape', WriterFits', Disconnected => Disconnected',
         \A u \in ArchiveSessions :
           /\ client'[u] = client[u] /\ archive'[u] = archive[u] /\ FileAround(u)
           /\ ~Disconnected' => QueueAround(u) /\ WriterAround(u)
  PROVE  ArchiveInv'
<1>1. \A u \in ArchiveSessions :
        ClientFits(u)' /\ FileFits(u)' /\ (~Disconnected' => Connected(u)')
  BY Around
<1> QED
  BY <1>1 DEF ArchiveInv

LEMMA JobKinds ==
  /\ \A m \in Commands : m.cmd \in {"none", "start", "output"}
  /\ \A m \in Commands : m.cmd # "none" => m.session \in ArchiveSessions
  /\ \A m \in Commands : m.cmd = "output" => m.chunk \in Nat /\ m.size \in Sizes
  /\ [cmd |-> "stop"].cmd = "stop"
<1>1. \A m \in Commands :
        /\ m.cmd \in {"none", "start", "output"}
        /\ m.cmd # "none" => m.session \in ArchiveSessions
        /\ m.cmd = "output" => m.chunk \in Nat /\ m.size \in Sizes
  <2> TAKE m \in Commands
  <2>1. CASE m = NoJob
    BY <2>1 DEF NoJob
  <2>2. CASE m \in [cmd : {"start"}, session : ArchiveSessions]
    BY <2>2
  <2>3. CASE m \in [cmd : {"output"}, session : ArchiveSessions, chunk : Nat, size : Sizes]
    BY <2>3
  <2> QED BY <2>1, <2>2, <2>3 DEF Commands
<1> QED
  BY <1>1

(* The writer's point and job are of their types.                          *)
LEMMA WriterFacts ==
  ASSUME ArchiveShape
  PROVE  /\ writer.pc \in {"recv", "look", "finish", "start", "output", "stopped"}
         /\ writer.job \in Commands \cup {[cmd |-> "stop"]}
         /\ writer.sealed \in SUBSET ArchiveSessions
         /\ writer = [pc |-> writer.pc, job |-> writer.job, sealed |-> writer.sealed]
BY DEF ArchiveShape, Writers

(* Where the writer is after Goes.                                         *)
LEMMA GoesTo ==
  ASSUME NEW pc \in {"recv", "look", "finish", "start", "output", "stopped"},
         NEW job \in Commands \cup {[cmd |-> "stop"]}, Goes(pc, job)
  PROVE  /\ writer' \in Writers /\ writer'.pc = pc /\ writer'.job = job /\ writer'.sealed = {}
         /\ Disconnected' <=> pc = "stopped"
         /\ \A u : InHand(u)' = IF pc = "output" /\ job.session = u THEN 1 ELSE 0
         /\ \A u : Starting(u)' = (pc \in {"look", "finish", "start"} /\ IsStart(job, u))
BY DEF Goes, Writers, Disconnected, InHand, Starting

LEMMA TimesOutKeeps ==
  ASSUME ArchiveInv, ReceiveTimesOut
  PROVE  ArchiveInv'
<1>1. /\ ArchiveShape /\ writer.pc = "recv"
      /\ client' = client /\ stopping' = stopping
      /\ archive' = archive /\ file' = file /\ queue' = queue
  BY DEF ArchiveInv, ReceiveTimesOut, WriterFrame
<1>2. PICK job \in {[cmd |-> "stop"], [cmd |-> "none"]} : Goes("look", job)
  BY DEF ReceiveTimesOut
<1>3. job \in Commands \cup {[cmd |-> "stop"]} /\ \A u : ~IsStart(job, u)
  BY DEF Commands, NoJob, IsStart
<1>4. /\ writer' \in Writers /\ writer'.pc = "look" /\ writer'.job = job /\ writer'.sealed = {}
      /\ \A u : InHand(u)' = 0 /\ Starting(u)' = FALSE
      /\ ~Disconnected'
  BY <1>2, <1>3, GoesTo
<1>5. /\ \A u : InHand(u) = 0 /\ Starting(u) = FALSE
      /\ ~Disconnected
  BY <1>1 DEF InHand, Starting, Disconnected
<1>6. \A u \in ArchiveSessions : QueueAround(u) /\ WriterAround(u) /\ FileAround(u)
  <2> TAKE u \in ArchiveSessions
  <2>1. InHand(u)' = InHand(u) /\ InHand(u) # 1
    BY <1>4, <1>5
  <2>2. Starting(u)' = Starting(u)
    BY <1>4, <1>5
  <2>3. QueueAround(u) /\ FileAround(u)
    BY <1>1 DEF QueueAround, FileAround
  <2> QED BY <2>1, <2>2, <2>3 DEF WriterAround
<1>7. ArchiveShape' /\ WriterFits'
  BY <1>1, <1>4 DEF ArchiveShape, WriterFits
<1> QED
  BY <1>1, <1>4, <1>5, <1>6, <1>7, AllAround

LEMMA LooksKeeps ==
  ASSUME ArchiveInv, FinishLooks
  PROVE  ArchiveInv'
<1>1. /\ ArchiveShape /\ WriterFits /\ writer.pc = "look"
      /\ writer' = [writer EXCEPT !.pc = "finish", !.sealed = Sealed]
      /\ client' = client /\ stopping' = stopping
      /\ archive' = archive /\ file' = file /\ queue' = queue
  BY DEF ArchiveInv, FinishLooks, WriterFrame
<1>2. Sealed \in SUBSET ArchiveSessions /\ \A s \in Sealed : file[s].open /\ archive[s].final
  BY DEF Sealed, Open, Ready
<1>3. writer' \in Writers /\ writer'.pc = "finish" /\ writer'.job = writer.job /\ writer'.sealed = Sealed
  <2>1. writer \in Writers
    BY <1>1 DEF ArchiveShape
  <2> QED BY <1>1, <1>2, <2>1 DEF Writers
<1>4. ArchiveShape'
  BY <1>1, <1>3 DEF ArchiveShape
<1>5. WriterFits'
  BY <1>1, <1>2, <1>3 DEF WriterFits
<1>6. \A u \in ArchiveSessions : QueueAround(u) /\ WriterAround(u) /\ FileAround(u)
  BY <1>1, <1>3 DEF QueueAround, WriterAround, FileAround, Starting, InHand
<1>7. ~Disconnected /\ ~Disconnected'
  BY <1>1, <1>3 DEF Disconnected
<1> QED
  BY <1>1, <1>4, <1>5, <1>6, <1>7, AllAround

(* Finished files are pruned.                                              *)
LEMMA WithoutKeeps ==
  ASSUME ArchiveShape, NEW removed \in SUBSET (Files \ Open), NEW f, f = Without(removed)
  PROVE  /\ f \in [ArchiveSessions -> FileStates]
         /\ \A u \in ArchiveSessions : f[u] = file[u] \/ (file[u].exists /\ ~file[u].open /\ f[u] = NoFile)
         /\ \A u \in ArchiveSessions : (file[u].open \/ ~file[u].exists) => f[u] = file[u]
<1>1. file \in [ArchiveSessions -> FileStates] /\ NoFile \in FileStates
  BY NoFileFacts DEF ArchiveShape
<1>2. \A u \in ArchiveSessions : f[u] = IF u \in removed THEN NoFile ELSE file[u]
  BY DEF Without
<1>3. \A u \in removed : u \in ArchiveSessions /\ file[u].exists /\ ~file[u].open
  BY DEF Files, Open
<1>4. f = [u \in ArchiveSessions |-> IF u \in removed THEN NoFile ELSE file[u]]
  BY DEF Without
<1>5. f \in [ArchiveSessions -> FileStates]
  BY <1>1, <1>4
<1>6. \A u \in ArchiveSessions : u \notin removed => f[u] = file[u]
  BY <1>2
<1> QED
  BY <1>2, <1>3, <1>5, <1>6

LEMMA MaintainKeeps ==
  ASSUME ArchiveInv, Maintain
  PROVE  ArchiveInv'
<1>1. /\ ArchiveShape /\ WriterFits /\ writer.pc = "recv"
      /\ client' = client /\ stopping' = stopping
      /\ archive' = archive /\ writer' = writer /\ queue' = queue
  BY DEF ArchiveInv, Maintain, WriterFrame
<1>2. PICK removed \in SUBSET (Files \ Open) : file' = Without(removed)
  BY DEF Maintain
<1>3. file' \in [ArchiveSessions -> FileStates] /\ \A u \in ArchiveSessions : FileAround(u)
  BY <1>1, <1>2, WithoutKeeps DEF FileAround
<1>4. ArchiveShape' /\ WriterFits'
  BY <1>1, <1>3 DEF ArchiveShape, WriterFits
<1>5. \A u \in ArchiveSessions : QueueAround(u) /\ WriterAround(u)
  BY <1>1 DEF QueueAround, WriterAround, Starting, InHand
<1>6. Disconnected' = Disconnected
  BY <1>1 DEF Disconnected
<1> QED
  BY <1>1, <1>3, <1>4, <1>5, <1>6, AllAround

(* Counts that arithmetic alone relates.                                   *)
LEMMA CountsShift ==
  /\ \A L, c, d \in Nat : d = c + 1 => L + 0 + d = L + 1 + c
  /\ \A q, r, e \in Nat : q = r + 1 => q + e + 0 = r + e + 1
OBVIOUS

(* What is received is started, written, or is for another session.        *)
LEMMA ReceivesStart ==
  ASSUME ArchiveInv, NEW u \in ArchiveSessions, writer.pc = "recv", queue # <<>>, queue' = Tail(queue),
         archive' = archive, file' = file, client' = client,
         IsStart(Head(queue), u), Starting(u)', InHand(u)' = 0
  PROVE  Connected(u)'
<1>1. ArchiveShape /\ ~Disconnected
  BY DEF ArchiveInv, Disconnected
<1>2. /\ Connected(u)
      /\ StartFits(u) /\ PendingFits(u) /\ IssuesFit(u) /\ AccountFits(u) /\ ChunksFit(u)
  BY <1>1 DEF ArchiveInv, Connected
<1>3. /\ DOMAIN queue' = 1 .. Len(queue) - 1
      /\ Len(queue) \in Nat \ {0} /\ Head(queue) = queue[1] /\ DOMAIN queue = 1 .. Len(queue)
      /\ \A i \in DOMAIN queue' :
           /\ i + 1 \in DOMAIN queue /\ queue'[i] = queue[i + 1]
           /\ Cardinality(Chunks(queue, u, i + 1)) =
                Cardinality(Chunks(queue', u, i)) + (IF IsOutput(Head(queue), u) THEN 1 ELSE 0)
           /\ Cardinality(Chunks(queue', u, i)) \in Nat
      /\ Queued(u) = Queued(u)' + (IF IsOutput(Head(queue), u) THEN 1 ELSE 0)
      /\ Queued(u)' \in Nat
  BY <1>1, TailFacts, QueueFacts
<1>4. ~IsOutput(Head(queue), u)
  BY DEF IsStart, IsOutput
<1>5. Queued(u)' = Queued(u) /\ InHand(u) = 0 /\ ~Starting(u)
  BY <1>3, <1>4 DEF InHand, Starting
<1>6. StartQueued(u)
  BY <1>3 DEF StartQueued
<1>7. \A i \in DOMAIN queue' : ~IsStart(queue'[i], u)
  <2> SUFFICES ASSUME NEW i \in DOMAIN queue', IsStart(queue'[i], u) PROVE FALSE
    OBVIOUS
  <2>1. i + 1 \in DOMAIN queue /\ 1 \in DOMAIN queue /\ IsStart(queue[i + 1], u) /\ IsStart(queue[1], u)
    BY <1>3
  <2>2. i + 1 = 1
    BY <1>2, <2>1 DEF StartFits
  <2> QED BY <1>3, <2>2
<1>8. ~StartQueued(u)'
  BY <1>7 DEF StartQueued
<1>9. StartFits(u)'
  BY <1>2, <1>6, <1>7, <1>8 DEF StartFits
<1>10. PendingFits(u)' /\ IssuesFit(u)' /\ AccountFits(u)'
  BY <1>2, <1>5 DEF PendingFits, IssuesFit, AccountFits
<1>11. ChunksFit(u)'
  <2> SUFFICES ASSUME "fatal" \notin archive[u].issues, ~archive[u].completed,
                      NEW i \in DOMAIN queue', IsOutput(queue'[i], u)
               PROVE  queue'[i].chunk = Len(file[u].out) + 0 + Cardinality(Chunks(queue', u, i))
    BY DEF ChunksFit
  <2>1. /\ i + 1 \in DOMAIN queue /\ queue'[i] = queue[i + 1]
        /\ Cardinality(Chunks(queue, u, i + 1)) = Cardinality(Chunks(queue', u, i)) + 0
        /\ Cardinality(Chunks(queue', u, i)) \in Nat
    BY <1>3, <1>4
  <2>2. queue[i + 1].chunk = Len(file[u].out) + 0 + Cardinality(Chunks(queue, u, i + 1))
    BY <1>2, <1>5, <2>1 DEF ChunksFit
  <2>3. Cardinality(Chunks(queue, u, i + 1)) = Cardinality(Chunks(queue', u, i))
    BY <2>1
  <2> QED BY <2>1, <2>2, <2>3
<1> QED
  BY <1>9, <1>10, <1>11 DEF Connected

LEMMA ReceivesChunk ==
  ASSUME ArchiveInv, NEW u \in ArchiveSessions, writer.pc = "recv", queue # <<>>, queue' = Tail(queue),
         archive' = archive, file' = file, client' = client,
         IsOutput(Head(queue), u), ~Starting(u)', InHand(u)' = 1, writer'.job = Head(queue)
  PROVE  Connected(u)'
<1>1. ArchiveShape /\ ~Disconnected
  BY DEF ArchiveInv, Disconnected
<1>2. /\ Connected(u)
      /\ StartFits(u) /\ PendingFits(u) /\ IssuesFit(u) /\ AccountFits(u) /\ ChunksFit(u)
  BY <1>1 DEF ArchiveInv, Connected
<1>3. /\ DOMAIN queue' = 1 .. Len(queue) - 1
      /\ Len(queue) \in Nat \ {0} /\ Head(queue) = queue[1] /\ DOMAIN queue = 1 .. Len(queue)
      /\ \A i \in DOMAIN queue' :
           /\ i + 1 \in DOMAIN queue /\ queue'[i] = queue[i + 1]
           /\ Cardinality(Chunks(queue, u, i + 1)) =
                Cardinality(Chunks(queue', u, i)) + (IF IsOutput(Head(queue), u) THEN 1 ELSE 0)
           /\ Cardinality(Chunks(queue', u, i)) \in Nat
      /\ Queued(u) = Queued(u)' + (IF IsOutput(Head(queue), u) THEN 1 ELSE 0)
      /\ Queued(u)' \in Nat
  BY <1>1, TailFacts, QueueFacts
<1>4. ~IsStart(Head(queue), u)
  BY DEF IsStart, IsOutput
<1>5. Queued(u) = Queued(u)' + 1 /\ InHand(u) = 0 /\ ~Starting(u) /\ Queued(u) \in Nat
  BY <1>3 DEF InHand, Starting
<1>6. \A i \in DOMAIN queue' : i + 1 \in DOMAIN queue /\ queue'[i] = queue[i + 1]
  BY <1>3
<1>7. \A i, j \in DOMAIN queue' : i + 1 = j + 1 => i = j
  BY <1>3
<1>8. StartQueued(u)' => StartQueued(u)
  BY <1>6 DEF StartQueued
<1>9. StartFits(u)'
  <2>1. \A i, j \in DOMAIN queue' : IsStart(queue'[i], u) /\ IsStart(queue'[j], u) => i = j
    BY <1>2, <1>6, <1>7 DEF StartFits
  <2> QED BY <1>2, <1>8, <2>1 DEF StartFits
<1>10. /\ archive[u].observed \in Nat /\ archive[u].dropped \in Nat /\ archive[u].pending \in Nat
       /\ client[u].rest \in Nat /\ Len(file[u].out) \in Nat
  BY <1>1, Fields
<1>11. PendingFits(u)'
  <2>1. archive[u].pending = Queued(u) + (IF client[u].pc = "send" THEN 1 ELSE 0) + 0
    BY <1>2, <1>5 DEF PendingFits
  <2>2. (IF client[u].pc = "send" THEN 1 ELSE 0) \in Nat
    OBVIOUS
  <2>3. archive[u].pending = Queued(u)' + (IF client[u].pc = "send" THEN 1 ELSE 0) + 1
    BY <1>3, <1>5, <2>1, <2>2, CountsShift
  <2> QED BY <2>3 DEF PendingFits
<1>12. IssuesFit(u)'
  BY <1>2 DEF IssuesFit
<1>13. AccountFits(u)'
  <2> SUFFICES ASSUME ~archive[u].completed
               PROVE  Balance(Len(file[u].out), archive[u].dropped, Queued(u)', 1,
                              client[u].rest, archive[u].observed)
    BY DEF AccountFits
  <2>1. Balance(Len(file[u].out), archive[u].dropped, Queued(u)' + 1, 0,
                client[u].rest, archive[u].observed)
    BY <1>2, <1>5 DEF AccountFits
  <2> QED BY <2>1, <1>3, <1>10, BalanceMoves
<1>14. ChunksFit(u)'
  <2> SUFFICES ASSUME "fatal" \notin archive[u].issues, ~archive[u].completed
               PROVE  /\ file[u].open /\ Head(queue).chunk = Len(file[u].out) + 1
                      /\ \A i \in DOMAIN queue' : IsOutput(queue'[i], u) =>
                           queue'[i].chunk = Len(file[u].out) + 1 + Cardinality(Chunks(queue', u, i))
    BY DEF ChunksFit
  <2>1. \A i \in DOMAIN queue : IsOutput(queue[i], u) =>
          /\ queue[i].chunk = Len(file[u].out) + 0 + Cardinality(Chunks(queue, u, i))
          /\ file[u].open \/ \E j \in 1 .. i - 1 : IsStart(queue[j], u)
    BY <1>2, <1>5 DEF ChunksFit
  <2>2. 1 \in DOMAIN queue /\ IsOutput(queue[1], u)
    BY <1>3
  <2>3. Cardinality(Chunks(queue, u, 1)) = 1
    BY <1>1, ChunksFirst DEF ArchiveShape
  <2>4. file[u].open /\ Head(queue).chunk = Len(file[u].out) + 1
    <3>1. queue[1].chunk = Len(file[u].out) + 0 + 1
      BY <2>1, <2>2, <2>3
    <3>2. file[u].open \/ \E j \in 1 .. 1 - 1 : IsStart(queue[j], u)
      BY <2>1, <2>2
    <3>3. \A j : j \notin 1 .. 1 - 1
      OBVIOUS
    <3> QED BY <1>3, <1>10, <3>1, <3>2, <3>3
  <2>5. ASSUME NEW i \in DOMAIN queue', IsOutput(queue'[i], u)
        PROVE  queue'[i].chunk = Len(file[u].out) + 1 + Cardinality(Chunks(queue', u, i))
    <3>1. /\ i + 1 \in DOMAIN queue /\ queue'[i] = queue[i + 1]
          /\ Cardinality(Chunks(queue, u, i + 1)) = Cardinality(Chunks(queue', u, i)) + 1
          /\ Cardinality(Chunks(queue', u, i)) \in Nat
      BY <1>3, <2>5
    <3>2. queue[i + 1].chunk = Len(file[u].out) + 0 + Cardinality(Chunks(queue, u, i + 1))
      BY <2>1, <2>5, <3>1
    <3>3. Cardinality(Chunks(queue, u, i + 1)) \in Nat
      BY <3>1
    <3>4. Len(file[u].out) \in Nat
      BY <1>10
    <3>5. Len(file[u].out) + 0 + Cardinality(Chunks(queue, u, i + 1)) =
            Len(file[u].out) + 1 + Cardinality(Chunks(queue', u, i))
      BY <3>1, <3>3, <3>4, CountsShift
    <3>6. queue'[i].chunk = queue[i + 1].chunk
      BY <3>1
    <3> QED BY <3>2, <3>5, <3>6
  <2> QED BY <2>4, <2>5
<1> QED
  BY <1>9, <1>11, <1>12, <1>13, <1>14 DEF Connected

LEMMA ReceiveKeeps ==
  ASSUME ArchiveInv, Receive
  PROVE  ArchiveInv'
<1> DEFINE m == Head(queue)
           pc == IF m.cmd = "output" THEN "output" ELSE "look"
<1>1. /\ ArchiveShape /\ writer.pc = "recv" /\ queue # <<>> /\ queue' = Tail(queue)
      /\ client' = client /\ stopping' = stopping
      /\ archive' = archive /\ file' = file /\ Goes(pc, m)
  BY DEF ArchiveInv, Receive, WriterFrame
<1>2. m \in Commands /\ queue' \in Seq(Commands)
  BY <1>1, HeadTailProperties DEF ArchiveShape
<1> HIDE DEF m
<1>3. /\ writer' \in Writers /\ writer'.pc = pc /\ writer'.job = m /\ writer'.sealed = {}
      /\ Disconnected' <=> pc = "stopped"
      /\ \A u : InHand(u)' = IF pc = "output" /\ m.session = u THEN 1 ELSE 0
      /\ \A u : Starting(u)' = (pc \in {"look", "finish", "start"} /\ IsStart(m, u))
  <2>1. pc \in {"recv", "look", "finish", "start", "output", "stopped"}
        /\ m \in Commands \cup {[cmd |-> "stop"]}
    BY <1>2
  <2> HIDE DEF pc
  <2> QED BY <1>1, <2>1, GoesTo
<1>4. ArchiveShape'
  BY <1>1, <1>2, <1>3 DEF ArchiveShape
<1>5. WriterFits'
  BY <1>3 DEF WriterFits
<1>6. ~Disconnected /\ ~Disconnected'
  BY <1>1, <1>3 DEF Disconnected
<1>7. ASSUME NEW u \in ArchiveSessions
      PROVE  ClientFits(u)' /\ FileFits(u)' /\ Connected(u)'
  <2>1. ClientFits(u)' /\ FileFits(u)'
    BY <1>1 DEF ArchiveInv, ClientFits, FileFits
  <2>2. CASE IsStart(m, u)
    <3>1. pc = "look"
      BY <2>2 DEF IsStart
    <3>2. Starting(u)' /\ InHand(u)' = 0
      BY <1>3, <2>2, <3>1
    <3> QED BY <1>1, <2>1, <2>2, <3>2, ReceivesStart DEF m
  <2>3. CASE IsOutput(m, u)
    <3>1. pc = "output" /\ m.session = u
      BY <2>3 DEF IsOutput
    <3>2. ~Starting(u)' /\ InHand(u)' = 1
      BY <1>3, <3>1
    <3> QED BY <1>1, <1>3, <2>1, <2>3, <3>2, ReceivesChunk DEF m
  <2>4. CASE ~IsStart(m, u) /\ ~IsOutput(m, u)
    <3>1. InHand(u)' = 0 /\ ~Starting(u)'
      BY <1>3, <2>4 DEF IsOutput
    <3>2. InHand(u) = 0 /\ ~Starting(u)
      BY <1>1 DEF InHand, Starting
    <3>3. WriterAround(u)
      <4>1. Starting(u)' = Starting(u)
        BY <3>1, <3>2 DEF Starting
      <4> QED BY <3>1, <3>2, <4>1 DEF WriterAround
    <3>4. QueueAround(u) /\ FileAround(u)
      BY <1>1, <1>2, <2>4 DEF QueueAround, FileAround, Foreign, m
    <3> QED BY <1>1, <1>6, <2>1, <3>3, <3>4, Around
  <2> QED BY <2>2, <2>3, <2>4
<1> QED
  BY <1>4, <1>5, <1>6, <1>7 DEF ArchiveInv

-----------------------------------------------------------------------------
(* finish_ready.                                                           *)

LEMMA ClosedFacts ==
  ASSUME ArchiveShape, NEW s \in ArchiveSessions, NEW footer \in {"none", "complete", "truncated"},
         NEW bytes \in Nat, Closed(s, footer, bytes)
  PROVE  /\ file' \in [ArchiveSessions -> FileStates]
         /\ \A u \in ArchiveSessions \ {s} : file'[u] = file[u]
         /\ file'[s].exists = file[s].exists /\ file'[s].open = FALSE
         /\ file'[s].out = file[s].out /\ file'[s].footer = footer
<1> DEFINE r == file[s]
           g == [r EXCEPT !.open = FALSE, !.footer = footer, !.bytes = r.bytes + bytes]
<1>1. file \in [ArchiveSessions -> FileStates] /\ r \in FileStates
  BY DEF ArchiveShape
<1>2. file' = [file EXCEPT ![s] = g]
  BY <1>1 DEF Closed, FileStates
<1>3. g \in FileStates /\ g.exists = r.exists /\ g.open = FALSE /\ g.out = r.out /\ g.footer = footer
  <2> HIDE DEF r
  <2>1. r.bytes \in Nat
    BY <1>1 DEF FileStates
  <2>2. r.bytes + bytes \in Nat
    BY <2>1
  <2> QED BY <1>1, <2>2 DEF FileStates
<1> HIDE DEF r, g
<1> QED
  BY <1>1, <1>2, <1>3 DEF r

(* What finish_ready does to the others.                                   *)
LEMMA FinishAlone ==
  ASSUME ArchiveInv, NEW s \in ArchiveSessions, writer.pc = "finish",
         writer' = [writer EXCEPT !.sealed = @ \ {s}], client' = client, queue' = queue,
         stopping' = stopping,
         file' \in [ArchiveSessions -> FileStates], archive' \in [ArchiveSessions -> ArchiveStates],
         \A u \in ArchiveSessions \ {s} : file'[u] = file[u] /\ archive'[u] = archive[u]
  PROVE  /\ Alone(s) /\ ArchiveShape' /\ WriterFits' /\ ~Disconnected /\ ~Disconnected'
         /\ Starting(s)' = Starting(s) /\ InHand(s)' = 0 /\ InHand(s) = 0 /\ QueueAround(s) /\ WriterAround(s)
<1>1. ArchiveShape /\ WriterFits
  BY DEF ArchiveInv
<1>2. writer' \in Writers /\ writer'.pc = "finish" /\ writer'.job = writer.job /\ writer'.sealed = writer.sealed \ {s}
  <2>1. writer \in Writers
    BY <1>1 DEF ArchiveShape
  <2> QED BY <2>1 DEF Writers
<1>3. ArchiveShape'
  BY <1>1, <1>2 DEF ArchiveShape
<1>4. WriterFits'
  <2>1. writer.sealed \subseteq ArchiveSessions
    BY <1>1, WriterFacts
  <2>2. \A u \in writer'.sealed : u \in ArchiveSessions \ {s} /\ file[u].open /\ archive[u].final
    BY <1>1, <1>2, <2>1 DEF WriterFits
  <2> QED BY <1>2, <2>2 DEF WriterFits
<1>5. ~Disconnected /\ ~Disconnected'
  BY <1>2 DEF Disconnected
<1>6. \A u : Starting(u)' = Starting(u) /\ InHand(u)' = 0 /\ InHand(u) = 0
  BY <1>2 DEF Starting, InHand
<1>7. \A u : QueueAround(u) /\ WriterAround(u)
  BY <1>6 DEF QueueAround, WriterAround
<1>8. Alone(s)
  <2>1. Disconnected' = Disconnected
    BY <1>2 DEF Disconnected
  <2> QED BY <1>7, <2>1 DEF Alone, FileAround
<1> QED
  BY <1>3, <1>4, <1>5, <1>6, <1>7, <1>8

(* Whatever is closed has been sealed and awaits nothing: its footer says  *)
(* what there will ever be to say.                                         *)
LEMMA ClosesKeeps ==
  ASSUME ArchiveInv, NEW s \in ArchiveSessions, writer.pc = "finish", s \in writer.sealed,
         writer' = [writer EXCEPT !.sealed = @ \ {s}], client' = client, queue' = queue,
         stopping' = stopping, archive[s].pending = 0,
         NEW footer \in {"none", "complete", "truncated"}, NEW bytes \in Nat, Closed(s, footer, bytes),
         footer = "complete" => archive[s].issues = {},
         NEW d \in ArchiveStates, archive' = [archive EXCEPT ![s] = d],
         d.completed, archive[s].issues \subseteq d.issues,
         d.observed = archive[s].observed, d.dropped = archive[s].dropped,
         d.pending = archive[s].pending, d.final = archive[s].final
  PROVE  ArchiveInv'
<1>1. ArchiveShape /\ WriterFits /\ ClientFits(s) /\ FileFits(s)
  BY DEF ArchiveInv
<1>2. /\ file' \in [ArchiveSessions -> FileStates]
      /\ \A u \in ArchiveSessions \ {s} : file'[u] = file[u]
      /\ file'[s].exists = file[s].exists /\ file'[s].open = FALSE
      /\ file'[s].out = file[s].out /\ file'[s].footer = footer
  BY <1>1, ClosedFacts
<1>3. /\ archive' \in [ArchiveSessions -> ArchiveStates] /\ archive'[s] = d
      /\ \A u \in ArchiveSessions \ {s} : archive'[u] = archive[u]
  BY <1>1 DEF ArchiveShape
<1>4. /\ Alone(s) /\ ArchiveShape' /\ WriterFits' /\ ~Disconnected /\ ~Disconnected'
      /\ Starting(s)' = Starting(s) /\ InHand(s)' = 0 /\ InHand(s) = 0
  BY <1>2, <1>3, FinishAlone
<1>5. /\ Connected(s)
      /\ StartFits(s) /\ PendingFits(s) /\ IssuesFit(s) /\ AccountFits(s)
  BY <1>4 DEF ArchiveInv, Connected
<1>6. file[s].open /\ archive[s].final
  BY <1>1 DEF WriterFits
<1>7. file[s].exists
  BY <1>1, <1>6, NoFileFacts DEF FileFits
<1>8. Queued(s) = 0 /\ client[s].pc # "send"
  BY <1>1, <1>5, NoneQueued
<1>9. client[s].pc \in {"sealed", "gone"} /\ client[s].rest = 0
  BY <1>1, <1>6 DEF ClientFits
<1>10. Len(file[s].out) + archive[s].dropped = archive[s].observed
  <2>1. Balance(Len(file[s].out), archive[s].dropped, 0, 0, 0, archive[s].observed)
    BY <1>4, <1>5, <1>6, <1>8, <1>9 DEF AccountFits, IssuesFit
  <2>2. archive[s].dropped \in Nat /\ Len(file[s].out) \in Nat
    BY <1>1, Fields
  <2> QED BY <2>1, <2>2 DEF Balance
<1>11. footer = "complete" => Len(file[s].out) = archive[s].observed
  <2> SUFFICES ASSUME footer = "complete" PROVE Len(file[s].out) = archive[s].observed
    OBVIOUS
  <2>1. archive[s].dropped = 0
    BY <1>5 DEF IssuesFit
  <2>2. Len(file[s].out) \in Nat
    BY <1>1, Fields
  <2> QED BY <1>10, <2>1, <2>2
<1>12. ClientFits(s)'
  BY <1>1, <1>3, <1>9 DEF ClientFits
<1>13. FileFits(s)'
  BY <1>1, <1>2, <1>3, <1>6, <1>7, <1>10, <1>11 DEF FileFits
<1>14. Queued(s)' = Queued(s) /\ StartQueued(s)' = StartQueued(s)
  BY QueueRests
<1>15. ~Starting(s) /\ ~StartQueued(s) /\ client[s].pc # "new"
  BY <1>5, <1>7, <1>9 DEF StartFits
<1>16. StartFits(s)'
  <2>1. \A i \in DOMAIN queue' : ~IsStart(queue'[i], s)
    BY <1>15 DEF StartQueued
  <2> QED BY <1>4, <1>14, <1>15, <2>1 DEF StartFits
<1>17. PendingFits(s)'
  BY <1>3, <1>4, <1>5, <1>14 DEF PendingFits
<1>18. IssuesFit(s)'
  BY <1>2, <1>3, <1>5, <1>6, <1>8 DEF IssuesFit
<1>19. AccountFits(s)' /\ ChunksFit(s)'
  BY <1>3 DEF AccountFits, ChunksFit
<1> QED
  BY <1>4, <1>12, <1>13, <1>16, <1>17, <1>18, <1>19, AloneKeeps DEF Connected

LEMMA FinishArchiveKeeps ==
  ASSUME ArchiveInv, NEW s \in ArchiveSessions, FinishArchive(s)
  PROVE  ArchiveInv'
<1>1. /\ ArchiveShape /\ writer.pc = "finish" /\ s \in writer.sealed
      /\ writer' = [writer EXCEPT !.sealed = @ \ {s}]
      /\ client' = client /\ queue' = queue /\ stopping' = stopping
  BY DEF ArchiveInv, FinishArchive, WriterFrame
<1>2. /\ file \in [ArchiveSessions -> FileStates] /\ archive \in [ArchiveSessions -> ArchiveStates]
      /\ archive[s] \in ArchiveStates
  BY <1>1 DEF ArchiveShape
<1>3. ASSUME archive' = archive, file' = file PROVE ArchiveInv'
  <2>1. /\ Alone(s) /\ ArchiveShape' /\ WriterFits' /\ ~Disconnected /\ ~Disconnected'
        /\ QueueAround(s) /\ WriterAround(s)
    BY <1>1, <1>2, <1>3, FinishAlone
  <2>2. \A u \in ArchiveSessions : QueueAround(u) /\ WriterAround(u) /\ FileAround(u)
    BY <1>3, <2>1 DEF Alone, FileAround
  <2> QED BY <1>1, <1>3, <2>1, <2>2, AllAround
<1>4. ASSUME Ready(2, s), NEW footer \in {"complete", "truncated"},
             footer = "complete" => archive[s].issues = {}, Closed(s, footer, 1),
             archive' = [archive EXCEPT ![s].completed = TRUE]
      PROVE  ArchiveInv'
  <2> DEFINE d == [archive[s] EXCEPT !.completed = TRUE]
  <2>1. /\ d \in ArchiveStates /\ d.completed /\ d.issues = archive[s].issues
        /\ d.observed = archive[s].observed /\ d.dropped = archive[s].dropped
        /\ d.pending = archive[s].pending /\ d.final = archive[s].final
    BY <1>2 DEF ArchiveStates
  <2>2. archive' = [archive EXCEPT ![s] = d]
    BY <1>4
  <2>3. archive[s].pending = 0 /\ 1 \in Nat /\ footer \in {"none", "complete", "truncated"}
    BY <1>4 DEF Ready
  <2> HIDE DEF d
  <2> QED BY <1>1, <1>4, <2>1, <2>2, <2>3, ClosesKeeps
<1>5. ASSUME Ready(2, s), NEW bytes \in 0 .. 1, Closed(s, "none", bytes),
             archive' = [archive EXCEPT ![s] = [issue(archive[s], "disk_error") EXCEPT !.completed = TRUE]]
      PROVE  ArchiveInv'
  <2> DEFINE e == issue(archive[s], "disk_error")
             d == [e EXCEPT !.completed = TRUE]
  <2>1. /\ e \in ArchiveStates /\ archive[s].issues \subseteq e.issues
        /\ e.observed = archive[s].observed /\ e.dropped = archive[s].dropped
        /\ e.pending = archive[s].pending /\ e.final = archive[s].final
    BY <1>2, IssueSets
  <2>2. archive' = [archive EXCEPT ![s] = d]
    BY <1>5
  <2> HIDE DEF e
  <2>3. /\ d \in ArchiveStates /\ d.completed /\ d.issues = e.issues
        /\ d.observed = e.observed /\ d.dropped = e.dropped
        /\ d.pending = e.pending /\ d.final = e.final
    BY <2>1 DEF ArchiveStates
  <2>4. archive[s].pending = 0 /\ bytes \in Nat /\ "none" \in {"none", "complete", "truncated"}
    BY <1>5 DEF Ready
  <2> HIDE DEF d
  <2> QED BY <1>1, <1>5, <2>1, <2>2, <2>3, <2>4, ClosesKeeps
<1> QED
  BY <1>3, <1>4, <1>5 DEF FinishArchive

(* What was received goes on, or there was nothing to go on with.          *)
LEMMA GoesOnKeeps ==
  ASSUME ArchiveInv, writer.pc \in {"look", "finish"},
         NEW pc \in {"recv", "start"}, NEW job \in Commands, Goes(pc, job),
         pc = "start" => job = writer.job /\ job.cmd = "start",
         pc = "recv" => writer.job.cmd # "start",
         client' = client, archive' = archive, file' = file, queue' = queue, stopping' = stopping
  PROVE  ArchiveInv'
<1>1. ArchiveShape
  BY DEF ArchiveInv
<1>2. /\ writer' \in Writers /\ writer'.pc = pc /\ writer'.job = job /\ writer'.sealed = {}
      /\ Disconnected' <=> pc = "stopped"
      /\ \A u : InHand(u)' = IF pc = "output" /\ job.session = u THEN 1 ELSE 0
      /\ \A u : Starting(u)' = (pc \in {"look", "finish", "start"} /\ IsStart(job, u))
  <2>1. pc \in {"recv", "look", "finish", "start", "output", "stopped"}
        /\ job \in Commands \cup {[cmd |-> "stop"]}
    OBVIOUS
  <2> QED BY <2>1, GoesTo
<1>3. ArchiveShape' /\ WriterFits'
  BY <1>1, <1>2 DEF ArchiveShape, WriterFits
<1>4. ~Disconnected /\ ~Disconnected'
  BY <1>2 DEF Disconnected
<1>5. \A u : InHand(u)' = 0 /\ InHand(u) = 0
  BY <1>2 DEF InHand
<1>6. ASSUME NEW u \in ArchiveSessions
      PROVE  QueueAround(u) /\ WriterAround(u) /\ FileAround(u)
  <2>1. Starting(u)' = Starting(u)
    <3>1. CASE pc = "start"
      BY <1>2, <3>1 DEF Starting
    <3>2. CASE pc = "recv"
      <4>1. ~Starting(u)'
        BY <1>2, <3>2
      <4>2. ~Starting(u)
        BY <3>2 DEF Starting, IsStart
      <4> QED BY <4>1, <4>2 DEF Starting
    <3> QED BY <3>1, <3>2
  <2>2. WriterAround(u)
    BY <1>5, <2>1 DEF WriterAround
  <2> QED BY <2>2 DEF QueueAround, FileAround
<1> QED
  BY <1>1, <1>3, <1>4, <1>6, AllAround

(* The end of the loop: what is still open stays without a footer.         *)
LEMMA StopsKeeps ==
  ASSUME ArchiveInv, Goes("stopped", NoJob), queue' = <<>>,
         client' = client, file' = file, stopping' = stopping,
         \/ archive' = archive
         \/ archive' = [s \in ArchiveSessions |->
              IF s \in Open THEN [issue(archive[s], "worker_stopped") EXCEPT !.completed = TRUE]
              ELSE archive[s]]
  PROVE  ArchiveInv'
<1>1. ArchiveShape
  BY DEF ArchiveInv
<1>2. /\ writer' \in Writers /\ writer'.pc = "stopped" /\ writer'.sealed = {} /\ Disconnected'
  <2>1. NoJob \in Commands \cup {[cmd |-> "stop"]}
    BY CommandKinds
  <2>2. "stopped" \in {"recv", "look", "finish", "start", "output", "stopped"}
    OBVIOUS
  <2> QED BY <2>1, <2>2, GoesTo
<1>3. archive \in [ArchiveSessions -> ArchiveStates]
  BY <1>1 DEF ArchiveShape
<1>4. ASSUME NEW u \in ArchiveSessions
      PROVE  \/ archive'[u] = archive[u]
             \/ /\ file[u].open /\ archive'[u] \in ArchiveStates
                /\ archive'[u].observed = archive[u].observed /\ archive'[u].pending = archive[u].pending
                /\ archive'[u].final = archive[u].final
  <2>1. CASE archive' = archive
    BY <2>1
  <2>2. CASE archive' # archive
    <3> DEFINE e == issue(archive[u], "worker_stopped")
               d == [e EXCEPT !.completed = TRUE]
    <3>1. archive'[u] = IF u \in Open THEN d ELSE archive[u]
      BY <2>2
    <3>2. /\ e \in ArchiveStates /\ e.observed = archive[u].observed
          /\ e.pending = archive[u].pending /\ e.final = archive[u].final
      BY <1>3, IssueSets
    <3> HIDE DEF e
    <3>3. /\ d \in ArchiveStates /\ d.observed = e.observed
          /\ d.pending = e.pending /\ d.final = e.final
      BY <3>2 DEF ArchiveStates
    <3> HIDE DEF d
    <3>4. u \in Open => file[u].open
      BY DEF Open
    <3> QED BY <3>1, <3>2, <3>3, <3>4
  <2> QED BY <2>1, <2>2
<1>5. archive' \in [ArchiveSessions -> ArchiveStates]
  <2>1. \A u \in ArchiveSessions : archive'[u] \in ArchiveStates
    BY <1>3, <1>4
  <2>2. archive' = [s \in ArchiveSessions |-> archive'[s]]
    BY <1>3
  <2> QED BY <2>1, <2>2
<1>6. ArchiveShape' /\ WriterFits'
  BY <1>1, <1>2, <1>5, EmptySeq DEF ArchiveShape, WriterFits
<1>7. ASSUME NEW u \in ArchiveSessions
      PROVE  ClientFits(u)' /\ FileFits(u)'
  <2>1. ClientFits(u) /\ FileFits(u)
    BY DEF ArchiveInv
  <2>2. CASE archive'[u] = archive[u]
    BY <2>1, <2>2 DEF ClientFits, FileFits
  <2>3. CASE /\ file[u].open /\ archive'[u].observed = archive[u].observed
             /\ archive'[u].pending = archive[u].pending /\ archive'[u].final = archive[u].final
    <3>1. ClientFits(u)'
      BY <2>1, <2>3 DEF ClientFits
    <3>2. file[u].footer = "none"
      BY <2>1, <2>3, <1>1, Fields DEF FileFits
    <3> QED BY <2>1, <2>3, <3>1, <3>2 DEF FileFits
  <2> QED BY <1>4, <2>2, <2>3
<1> QED
  BY <1>2, <1>6, <1>7 DEF ArchiveInv

LEMMA FinishDoneKeeps ==
  ASSUME ArchiveInv, FinishDone
  PROVE  ArchiveInv'
<1>1. /\ writer.pc \in {"look", "finish"} /\ client' = client /\ stopping' = stopping /\ file' = file
      /\ \/ writer.job.cmd = "start" /\ Goes("start", writer.job) /\ archive' = archive /\ queue' = queue
         \/ /\ Goes("stopped", NoJob) /\ queue' = <<>>
            /\ archive' = [s \in ArchiveSessions |->
                 IF s \in Open THEN [issue(archive[s], "worker_stopped") EXCEPT !.completed = TRUE]
                 ELSE archive[s]]
         \/ writer.job.cmd # "start" /\ Goes("recv", NoJob) /\ archive' = archive /\ queue' = queue
  BY DEF FinishDone, WriterFrame
<1>2. writer.job \in Commands \cup {[cmd |-> "stop"]} /\ NoJob \in Commands /\ NoJob.cmd = "none"
  BY WriterFacts, CommandKinds DEF ArchiveInv
<1>3. writer.job.cmd = "start" => writer.job \in Commands
  BY <1>2
<1>4. CASE writer.job.cmd = "start" /\ Goes("start", writer.job) /\ archive' = archive /\ queue' = queue
  BY <1>1, <1>3, <1>4, GoesOnKeeps
<1>5. CASE writer.job.cmd # "start" /\ Goes("recv", NoJob) /\ archive' = archive /\ queue' = queue
  BY <1>1, <1>2, <1>5, GoesOnKeeps
<1>6. CASE /\ Goes("stopped", NoJob) /\ queue' = <<>>
           /\ archive' = [s \in ArchiveSessions |->
                IF s \in Open THEN [issue(archive[s], "worker_stopped") EXCEPT !.completed = TRUE]
                ELSE archive[s]]
  BY <1>1, <1>6, StopsKeeps
<1> QED
  BY <1>1, <1>4, <1>5, <1>6

LEMMA PanicsKeeps ==
  ASSUME ArchiveInv, WriterPanics
  PROVE  ArchiveInv'
<1>1. /\ Goes("stopped", NoJob) /\ queue' = <<>> /\ client' = client /\ stopping' = stopping
      /\ archive' = archive /\ file' = file
  BY DEF WriterPanics, WriterFrame
<1> QED
  BY <1>1, StopsKeeps

-----------------------------------------------------------------------------
(* Writer::start and Writer::output.                                       *)

LEMMA UpdateFacts ==
  ASSUME NEW S, NEW T, NEW f \in [S -> T], NEW s \in S, NEW g \in T, NEW h, h = [f EXCEPT ![s] = g]
  PROVE  h \in [S -> T] /\ h[s] = g /\ \A u \in S \ {s} : h[u] = f[u]
OBVIOUS

LEMMA WriterAlone ==
  ASSUME ArchiveInv, writer.pc \in {"start", "output"}, NEW s, s = writer.job.session,
         Goes("look", NoJob), client' = client, queue' = queue, stopping' = stopping,
         file' \in [ArchiveSessions -> FileStates], archive' \in [ArchiveSessions -> ArchiveStates],
         \A u \in ArchiveSessions \ {s} : FileAround(u) /\ archive'[u] = archive[u]
  PROVE  /\ Alone(s) /\ ArchiveShape' /\ WriterFits' /\ ~Disconnected /\ ~Disconnected'
         /\ ~Starting(s)' /\ InHand(s)' = 0
<1>1. ArchiveShape
  BY DEF ArchiveInv
<1>2. /\ writer' \in Writers /\ writer'.pc = "look" /\ writer'.job = NoJob /\ writer'.sealed = {}
      /\ \A u : InHand(u)' = 0 /\ ~Starting(u)'
  <2>1. NoJob \in Commands \cup {[cmd |-> "stop"]} /\ \A u : ~IsStart(NoJob, u)
    BY CommandKinds
  <2>2. "look" \in {"recv", "look", "finish", "start", "output", "stopped"}
    OBVIOUS
  <2>3. /\ writer' \in Writers /\ writer'.pc = "look" /\ writer'.job = NoJob /\ writer'.sealed = {}
    BY <2>1, <2>2, GoesTo
  <2> QED BY <2>1, <2>3 DEF InHand, Starting
<1>3. ArchiveShape'
  BY <1>1, <1>2 DEF ArchiveShape
<1>4. WriterFits'
  BY <1>2 DEF WriterFits
<1>5. ~Disconnected /\ ~Disconnected' /\ Disconnected' = Disconnected
  BY <1>2 DEF Disconnected
<1>6. ASSUME NEW u \in ArchiveSessions \ {s} PROVE QueueAround(u) /\ WriterAround(u)
  <2>1. InHand(u) = 0 /\ InHand(u)' = 0
    BY <1>2 DEF InHand
  <2>2. Starting(u)' = Starting(u)
    <3>1. ~Starting(u)
      BY DEF Starting, IsStart
    <3>2. ~Starting(u)'
      BY <1>2
    <3> QED BY <3>1, <3>2 DEF Starting
  <2> QED BY <2>1, <2>2 DEF QueueAround, WriterAround
<1>7. Alone(s)
  BY <1>5, <1>6 DEF Alone
<1> QED
  BY <1>2, <1>3, <1>4, <1>5, <1>7

(* What start and output have in hand is about a session.                  *)
LEMMA JobSession ==
  ASSUME ArchiveInv, writer.pc \in {"start", "output"}
  PROVE  /\ writer.job \in Commands /\ writer.job.cmd = writer.pc
         /\ writer.job.session \in ArchiveSessions
<1>1. writer.job \in Commands \cup {[cmd |-> "stop"]} /\ writer.job.cmd = writer.pc
  BY WriterFacts DEF ArchiveInv, WriterFits
<1>2. writer.job \in Commands
  BY <1>1
<1> QED
  BY <1>1, <1>2, JobKinds

(* Before its file is started, nothing of a session is written.            *)
LEMMA StartFacts ==
  ASSUME ArchiveInv, NEW s \in ArchiveSessions, writer.pc = "start", s = writer.job.session
  PROVE  /\ ArchiveShape /\ ~Disconnected /\ ClientFits(s) /\ FileFits(s)
         /\ PendingFits(s) /\ IssuesFit(s) /\ AccountFits(s) /\ ChunksFit(s)
         /\ ~StartQueued(s) /\ ~archive[s].completed /\ client[s].pc # "new"
         /\ ~file[s].exists /\ file[s] = NoFile /\ InHand(s) = 0
<1>1. ArchiveShape /\ ~Disconnected /\ ClientFits(s) /\ FileFits(s) /\ Connected(s)
  BY DEF ArchiveInv, Disconnected
<1>2. StartFits(s) /\ PendingFits(s) /\ IssuesFit(s) /\ AccountFits(s) /\ ChunksFit(s)
  BY <1>1 DEF Connected
<1>3. Starting(s)
  BY JobSession DEF Starting, IsStart
<1>4. ~StartQueued(s) /\ ~archive[s].completed /\ ~file[s].exists /\ client[s].pc # "new"
  BY <1>2, <1>3 DEF StartFits
<1>5. file[s] = NoFile
  BY <1>1, <1>4 DEF FileFits
<1>6. InHand(s) = 0
  BY DEF InHand
<1> QED
  BY <1>1, <1>2, <1>4, <1>5, <1>6

LEMMA RejectedKeeps ==
  ASSUME ArchiveInv, NEW s \in ArchiveSessions, writer.pc = "start", s = writer.job.session,
         Goes("look", NoJob), client' = client, queue' = queue, stopping' = stopping,
         NEW removed \in SUBSET (Files \ Open), file' = Without(removed),
         NEW flag \in Fatal, Rejected(s, flag)
  PROVE  ArchiveInv'
<1> DEFINE e == issue(archive[s], flag)
           d == [e EXCEPT !.completed = TRUE]
<1>1. /\ ArchiveShape /\ ~Disconnected /\ ClientFits(s) /\ FileFits(s)
      /\ PendingFits(s) /\ IssuesFit(s)
      /\ ~StartQueued(s) /\ client[s].pc # "new"
      /\ ~file[s].exists /\ file[s] = NoFile /\ InHand(s) = 0
  BY StartFacts
<1>2. /\ archive \in [ArchiveSessions -> ArchiveStates] /\ archive[s] \in ArchiveStates
  BY <1>1 DEF ArchiveShape
<1>3. /\ e \in ArchiveStates /\ e.issues = archive[s].issues \cup {"fatal"}
      /\ e.observed = archive[s].observed /\ e.dropped = archive[s].dropped
      /\ e.pending = archive[s].pending /\ e.final = archive[s].final
  BY <1>2, IssueSets
<1>4. archive' = [archive EXCEPT ![s] = d]
  BY DEF Rejected
<1> HIDE DEF e
<1>5. /\ d \in ArchiveStates /\ d.completed /\ d.issues = e.issues
      /\ d.observed = e.observed /\ d.dropped = e.dropped
      /\ d.pending = e.pending /\ d.final = e.final
  BY <1>3 DEF ArchiveStates
<1> HIDE DEF d
<1>6. /\ archive' \in [ArchiveSessions -> ArchiveStates] /\ archive'[s] = d
      /\ \A u \in ArchiveSessions \ {s} : archive'[u] = archive[u]
  BY <1>2, <1>4, <1>5
<1>7. /\ file' \in [ArchiveSessions -> FileStates] /\ file'[s] = file[s]
      /\ \A u \in ArchiveSessions : FileAround(u)
  BY <1>1, WithoutKeeps DEF FileAround
<1>8. /\ Alone(s) /\ ArchiveShape' /\ WriterFits' /\ ~Disconnected'
      /\ ~Starting(s)' /\ InHand(s)' = 0
  BY <1>6, <1>7, WriterAlone
<1>9. Queued(s)' = Queued(s) /\ StartQueued(s)' = StartQueued(s)
  BY QueueRests
<1>10. ClientFits(s)'
  BY <1>1, <1>3, <1>5, <1>6 DEF ClientFits
<1>11. FileFits(s)'
  BY <1>1, <1>7, NoFileFacts DEF FileFits
<1>12. StartFits(s)'
  <2>1. \A i \in DOMAIN queue' : ~IsStart(queue'[i], s)
    BY <1>1 DEF StartQueued
  <2> QED BY <1>1, <1>8, <1>9, <2>1 DEF StartFits
<1>13. PendingFits(s)'
  BY <1>1, <1>3, <1>5, <1>6, <1>8, <1>9 DEF PendingFits
<1>14. IssuesFit(s)'
  BY <1>1, <1>3, <1>5, <1>6, <1>7, NoFileFacts DEF IssuesFit
<1>15. AccountFits(s)' /\ ChunksFit(s)'
  BY <1>5, <1>6 DEF AccountFits, ChunksFit
<1> QED
  BY <1>8, <1>10, <1>11, <1>12, <1>13, <1>14, <1>15, AloneKeeps DEF Connected

LEMMA StartedKeeps ==
  ASSUME ArchiveInv, NEW s \in ArchiveSessions, writer.pc = "start", s = writer.job.session,
         Goes("look", NoJob), client' = client, queue' = queue, stopping' = stopping,
         NEW removed \in SUBSET (Files \ Open), archive' = archive,
         NEW f, f = Without(removed),
         NEW g, g = [NoFile EXCEPT !.exists = TRUE, !.open = TRUE, !.bytes = 1],
         file' = [f EXCEPT ![s] = g]
  PROVE  ArchiveInv'
<1>1. /\ ArchiveShape /\ ~Disconnected /\ ClientFits(s) /\ FileFits(s)
      /\ PendingFits(s) /\ IssuesFit(s) /\ AccountFits(s) /\ ChunksFit(s)
      /\ ~StartQueued(s) /\ ~archive[s].completed /\ client[s].pc # "new"
      /\ ~file[s].exists /\ file[s] = NoFile /\ InHand(s) = 0
  BY StartFacts
<1>2. /\ g \in FileStates /\ g.exists /\ g.open /\ g.out = NoFile.out /\ g.footer = "none"
  BY NoFileFacts DEF NoFile, FileStates
<1>3. /\ f \in [ArchiveSessions -> FileStates]
      /\ \A u \in ArchiveSessions : f[u] = file[u] \/ (file[u].exists /\ ~file[u].open /\ f[u] = NoFile)
  BY <1>1, WithoutKeeps
<1>4. /\ file' \in [ArchiveSessions -> FileStates] /\ file'[s] = g
      /\ \A u \in ArchiveSessions \ {s} : file'[u] = f[u]
  <2>1. f \in [ArchiveSessions -> FileStates] /\ g \in FileStates
    BY <1>2, <1>3
  <2> QED BY <2>1, UpdateFacts
<1>5. \A u \in ArchiveSessions \ {s} : FileAround(u)
  BY <1>3, <1>4 DEF FileAround
<1>6. /\ Alone(s) /\ ArchiveShape' /\ WriterFits' /\ ~Disconnected'
      /\ ~Starting(s)' /\ InHand(s)' = 0
  <2>1. archive' \in [ArchiveSessions -> ArchiveStates]
    BY <1>1 DEF ArchiveShape
  <2> QED BY <1>4, <1>5, <2>1, WriterAlone
<1>7. Queued(s)' = Queued(s) /\ StartQueued(s)' = StartQueued(s)
  BY QueueRests
<1>8. /\ file'[s].exists /\ file'[s].open /\ file'[s].footer = "none"
      /\ file'[s].out = NoFile.out /\ file[s].out = NoFile.out
  BY <1>1, <1>2, <1>4
<1>9. ClientFits(s)'
  BY <1>1 DEF ClientFits
<1>10. FileFits(s)'
  <2>1. file'[s].out = [i \in 1 .. Len(file'[s].out) |-> i]
    BY <1>8, NoFileFacts
  <2> QED BY <1>8, <2>1 DEF FileFits
<1>11. StartFits(s)'
  <2>1. \A i \in DOMAIN queue' : ~IsStart(queue'[i], s)
    BY <1>1 DEF StartQueued
  <2> QED BY <1>1, <1>6, <1>7, <2>1 DEF StartFits
<1>12. PendingFits(s)' /\ IssuesFit(s)' /\ AccountFits(s)'
  BY <1>1, <1>6, <1>7, <1>8 DEF PendingFits, IssuesFit, AccountFits
<1>13. ChunksFit(s)'
  BY <1>1, <1>6, <1>8 DEF ChunksFit
<1> QED
  BY <1>6, <1>9, <1>10, <1>11, <1>12, <1>13, AloneKeeps DEF Connected

LEMMA WriterStartKeeps ==
  ASSUME ArchiveInv, WriterStart
  PROVE  ArchiveInv'
<1> DEFINE s == writer.job.session
<1>1. /\ writer.pc = "start" /\ Goes("look", NoJob) /\ client' = client /\ queue' = queue
      /\ stopping' = stopping
  BY DEF WriterStart, WriterFrame
<1>2. s \in ArchiveSessions
  BY <1>1, JobSession
<1>3. Prunes(1, 1) \subseteq SUBSET (Files \ Open)
  BY DEF Prunes
<1>4. "total_limit" \in Fatal /\ "disk_error" \in Fatal
  BY DEF Fatal
<1>5. \E removed \in SUBSET (Files \ Open) :
        \/ file' = Without(removed) /\ \E flag \in Fatal : Rejected(s, flag)
        \/ /\ archive' = archive
           /\ file' = [Without(removed) EXCEPT ![s] =
                         [NoFile EXCEPT !.exists = TRUE, !.open = TRUE, !.bytes = 1]]
  BY <1>3, <1>4 DEF WriterStart
<1> HIDE DEF s
<1> QED
  BY <1>1, <1>2, <1>5, RejectedKeeps, StartedKeeps DEF s

(* The chunk in the writer's hand is still pending, so its file is open    *)
(* unless something fatal happened.                                        *)
LEMMA OutputFacts ==
  ASSUME ArchiveInv, NEW s \in ArchiveSessions, writer.pc = "output", s = writer.job.session
  PROVE  /\ ArchiveShape /\ ~Disconnected /\ ClientFits(s) /\ FileFits(s)
         /\ StartFits(s) /\ PendingFits(s) /\ IssuesFit(s) /\ AccountFits(s) /\ ChunksFit(s)
         /\ InHand(s) = 1 /\ ~Starting(s) /\ client[s].pc # "new"
         /\ archive[s].pending - 1 = Queued(s) + (IF client[s].pc = "send" THEN 1 ELSE 0) + 0
         /\ archive[s].pending - 1 \in Nat
         /\ client[s].pc = "send" => archive[s].pending - 1 > 0
         /\ file[s].exists => file[s].open
         /\ ~file[s].exists => ~file[s].open
         /\ file[s].footer = "none"
         /\ ~Kept(s) => "fatal" \in archive[s].issues
         /\ Kept(s) => /\ file[s].open /\ file[s].exists /\ ~archive[s].completed
                       /\ writer.job.chunk = Len(file[s].out) + 1
<1>1. ArchiveShape /\ ~Disconnected /\ ClientFits(s) /\ FileFits(s) /\ Connected(s)
  BY DEF ArchiveInv, Disconnected
<1>2. StartFits(s) /\ PendingFits(s) /\ IssuesFit(s) /\ AccountFits(s) /\ ChunksFit(s)
  BY <1>1 DEF Connected
<1>3. InHand(s) = 1 /\ ~Starting(s)
  BY DEF InHand, Starting
<1>4. Queued(s) \in Nat /\ archive[s].pending \in Nat
  BY <1>1, Fields, QueueFacts
<1>5. archive[s].pending = Queued(s) + (IF client[s].pc = "send" THEN 1 ELSE 0) + 1
  BY <1>2, <1>3 DEF PendingFits
<1>6. /\ archive[s].pending - 1 = Queued(s) + (IF client[s].pc = "send" THEN 1 ELSE 0) + 0
      /\ archive[s].pending - 1 \in Nat
      /\ client[s].pc = "send" => archive[s].pending - 1 > 0
      /\ archive[s].pending # 0
  BY <1>4, <1>5
<1>7. file[s].exists => file[s].open
  BY <1>1, <1>6 DEF FileFits
<1>8. ~file[s].exists => ~file[s].open /\ file[s].footer = "none"
  BY <1>1, NoFileFacts DEF FileFits
<1>9. file[s].footer = "none"
  BY <1>1, <1>7, <1>8 DEF FileFits
<1>10. client[s].pc # "new"
  BY <1>2, <1>6 DEF StartFits, NewArchive
<1>11. "fatal" \notin archive[s].issues => ~archive[s].completed
  BY <1>2, <1>6 DEF IssuesFit
<1>12. "fatal" \notin archive[s].issues =>
         file[s].open /\ writer.job.chunk = Len(file[s].out) + 1
  BY <1>2, <1>3, <1>11 DEF ChunksFit
<1> QED
  BY <1>1, <1>2, <1>3, <1>6, <1>7, <1>8, <1>9, <1>10, <1>11, <1>12 DEF Kept

(* A chunk that is not written is counted as lost, for a reason.           *)
LEMMA OutputDrops ==
  ASSUME ArchiveInv, NEW s \in ArchiveSessions, writer.pc = "output", s = writer.job.session,
         Goes("look", NoJob), client' = client, queue' = queue, stopping' = stopping,
         file' \in [ArchiveSessions -> FileStates],
         \A u \in ArchiveSessions \ {s} : FileAround(u),
         file'[s].exists = file[s].exists, file'[s].open = file[s].open,
         file'[s].out = file[s].out, file'[s].footer = file[s].footer,
         file'[s] = file[s] \/ file[s].exists,
         NEW d \in ArchiveStates, archive' = [archive EXCEPT ![s] = d],
         d.pending = archive[s].pending - 1, d.dropped = archive[s].dropped + 1,
         d.observed = archive[s].observed, d.final = archive[s].final,
         d.completed = archive[s].completed, "fatal" \in d.issues,
         d.issues \subseteq archive[s].issues \cup {"fatal"}
  PROVE  ArchiveInv'
<1>1. /\ ArchiveShape /\ ~Disconnected /\ ClientFits(s) /\ FileFits(s)
      /\ StartFits(s) /\ PendingFits(s) /\ IssuesFit(s) /\ AccountFits(s)
      /\ InHand(s) = 1 /\ ~Starting(s) /\ client[s].pc # "new"
      /\ archive[s].pending - 1 = Queued(s) + (IF client[s].pc = "send" THEN 1 ELSE 0) + 0
      /\ client[s].pc = "send" => archive[s].pending - 1 > 0
      /\ file[s].exists => file[s].open
      /\ file[s].footer = "none"
  BY OutputFacts
<1>2. /\ archive' \in [ArchiveSessions -> ArchiveStates] /\ archive'[s] = d
      /\ \A u \in ArchiveSessions \ {s} : archive'[u] = archive[u]
  BY <1>1 DEF ArchiveShape
<1>3. /\ Alone(s) /\ ArchiveShape' /\ WriterFits' /\ ~Disconnected'
      /\ ~Starting(s)' /\ InHand(s)' = 0
  BY <1>2, WriterAlone
<1>4. Queued(s)' = Queued(s) /\ StartQueued(s)' = StartQueued(s)
  BY QueueRests
<1>5. ClientFits(s)'
  BY <1>1, <1>2 DEF ClientFits
<1>6. FileFits(s)'
  BY <1>1 DEF FileFits
<1>7. StartFits(s)'
  BY <1>1, <1>2, <1>3, <1>4 DEF StartFits
<1>8. PendingFits(s)'
  BY <1>1, <1>2, <1>3, <1>4 DEF PendingFits
<1>9. IssuesFit(s)'
  BY <1>1, <1>2 DEF IssuesFit
<1>10. AccountFits(s)'
  <2> SUFFICES ASSUME ~archive[s].completed
               PROVE  Balance(Len(file[s].out), archive[s].dropped + 1, Queued(s), 0,
                              client[s].rest, archive[s].observed)
    BY <1>2, <1>3, <1>4 DEF AccountFits
  <2>1. Balance(Len(file[s].out), archive[s].dropped, Queued(s), 1,
                client[s].rest, archive[s].observed)
    BY <1>1 DEF AccountFits
  <2>2. /\ Len(file[s].out) \in Nat /\ archive[s].dropped \in Nat /\ Queued(s) \in Nat
        /\ client[s].rest \in Nat /\ archive[s].observed \in Nat
    BY <1>1, Fields, QueueFacts
  <2> QED BY <2>1, <2>2, BalanceMoves
<1>11. ChunksFit(s)'
  BY <1>2 DEF ChunksFit
<1> QED
  BY <1>3, <1>5, <1>6, <1>7, <1>8, <1>9, <1>10, <1>11, AloneKeeps DEF Connected

(* A file that holds the beginning of the output gets the next chunk.      *)
LEMMA PrefixGrows ==
  ASSUME NEW q \in Seq(Nat), q = [i \in 1 .. Len(q) |-> i], NEW n, n = Len(q) + 1,
         NEW r, r = Append(q, n)
  PROVE  r \in Seq(Nat) /\ Len(r) = n /\ r = [i \in 1 .. Len(r) |-> i]
<1>1. Len(q) \in Nat /\ n \in Nat
  BY LenProperties
<1>2. /\ r \in Seq(Nat) /\ Len(r) = n /\ r[n] = n /\ \A i \in 1 .. Len(q) : r[i] = q[i]
  BY <1>1, AppendProperties
<1>3. DOMAIN r = 1 .. n /\ r = [i \in 1 .. n |-> r[i]]
  BY <1>2, LenProperties
<1>4. \A i \in 1 .. Len(q) : q[i] = i
  <2> SUFFICES ASSUME NEW i \in 1 .. Len(q) PROVE q[i] = i
    OBVIOUS
  <2>1. [j \in 1 .. Len(q) |-> j][i] = i
    OBVIOUS
  <2> QED BY <2>1
<1>5. \A i \in 1 .. n : r[i] = i
  BY <1>1, <1>2, <1>4
<1> QED
  BY <1>2, <1>3, <1>5

(* The next chunk is written.                                              *)
LEMMA OutputWrites ==
  ASSUME ArchiveInv, NEW s \in ArchiveSessions, writer.pc = "output", s = writer.job.session,
         Goes("look", NoJob), client' = client, queue' = queue, stopping' = stopping, Kept(s),
         file' \in [ArchiveSessions -> FileStates],
         \A u \in ArchiveSessions \ {s} : FileAround(u),
         file'[s].exists = file[s].exists, file'[s].open = file[s].open,
         file'[s].out = Append(file[s].out, writer.job.chunk), file'[s].footer = file[s].footer,
         archive' = [archive EXCEPT ![s].pending = @ - 1]
  PROVE  ArchiveInv'
<1> DEFINE d == [archive[s] EXCEPT !.pending = archive[s].pending - 1]
<1>1. /\ ArchiveShape /\ ~Disconnected /\ ClientFits(s) /\ FileFits(s)
      /\ StartFits(s) /\ PendingFits(s) /\ IssuesFit(s) /\ AccountFits(s) /\ ChunksFit(s)
      /\ InHand(s) = 1 /\ ~Starting(s) /\ client[s].pc # "new"
      /\ archive[s].pending - 1 = Queued(s) + (IF client[s].pc = "send" THEN 1 ELSE 0) + 0
      /\ archive[s].pending - 1 \in Nat
      /\ client[s].pc = "send" => archive[s].pending - 1 > 0
      /\ file[s].footer = "none"
      /\ file[s].open /\ file[s].exists /\ ~archive[s].completed
      /\ writer.job.chunk = Len(file[s].out) + 1
  BY OutputFacts
<1>2. archive \in [ArchiveSessions -> ArchiveStates] /\ archive[s] \in ArchiveStates
  BY <1>1 DEF ArchiveShape
<1>3. archive' = [archive EXCEPT ![s] = d]
  BY <1>2
<1>4. /\ d \in ArchiveStates /\ d.pending = archive[s].pending - 1
      /\ d.issues = archive[s].issues /\ d.dropped = archive[s].dropped
      /\ d.observed = archive[s].observed /\ d.final = archive[s].final
      /\ d.completed = archive[s].completed
  BY <1>1, <1>2, SetPending
<1> HIDE DEF d
<1>5. /\ archive' \in [ArchiveSessions -> ArchiveStates] /\ archive'[s] = d
      /\ \A u \in ArchiveSessions \ {s} : archive'[u] = archive[u]
  BY <1>2, <1>3, <1>4, UpdateFacts
<1>6. /\ Alone(s) /\ ArchiveShape' /\ WriterFits' /\ ~Disconnected'
      /\ ~Starting(s)' /\ InHand(s)' = 0
  BY <1>5, WriterAlone
<1>7. Queued(s)' = Queued(s) /\ StartQueued(s)' = StartQueued(s)
  BY QueueRests
<1>8. /\ Len(file'[s].out) = Len(file[s].out) + 1
      /\ file'[s].out = [i \in 1 .. Len(file'[s].out) |-> i]
      /\ Len(file[s].out) \in Nat
  <2>1. file[s].out \in Seq(Nat) /\ Len(file[s].out) \in Nat
    BY <1>1, Fields
  <2>2. file[s].out = [i \in 1 .. Len(file[s].out) |-> i]
    BY <1>1 DEF FileFits
  <2>3. file'[s].out = Append(file[s].out, Len(file[s].out) + 1)
    BY <1>1
  <2> DEFINE q == file[s].out
             r == file'[s].out
             n == Len(q) + 1
  <2>4. q \in Seq(Nat) /\ q = [i \in 1 .. Len(q) |-> i] /\ r = Append(q, n) /\ n = Len(q) + 1
    BY <2>1, <2>2, <2>3
  <2> HIDE DEF q, r, n
  <2>5. r \in Seq(Nat) /\ Len(r) = n /\ r = [i \in 1 .. Len(r) |-> i]
    BY <2>4, PrefixGrows
  <2> QED BY <2>1, <2>5 DEF q, r, n
<1>9. ClientFits(s)'
  BY <1>1, <1>4, <1>5 DEF ClientFits
<1>10. FileFits(s)'
  BY <1>1, <1>8 DEF FileFits
<1>11. StartFits(s)'
  <2>1. ~StartQueued(s)
    BY <1>1 DEF StartFits
  <2>2. \A i \in DOMAIN queue' : ~IsStart(queue'[i], s)
    BY <2>1 DEF StartQueued
  <2> QED BY <1>1, <1>6, <1>7, <2>1, <2>2 DEF StartFits
<1>12. PendingFits(s)'
  BY <1>1, <1>4, <1>5, <1>6, <1>7 DEF PendingFits
<1>13. IssuesFit(s)'
  BY <1>1, <1>4, <1>5 DEF IssuesFit
<1>14. AccountFits(s)'
  <2> SUFFICES Balance(Len(file[s].out) + 1, archive[s].dropped, Queued(s), 0,
                       client[s].rest, archive[s].observed)
    BY <1>4, <1>5, <1>6, <1>7, <1>8 DEF AccountFits
  <2>1. Balance(Len(file[s].out), archive[s].dropped, Queued(s), 1,
                client[s].rest, archive[s].observed)
    BY <1>1 DEF AccountFits
  <2>2. /\ Len(file[s].out) \in Nat /\ archive[s].dropped \in Nat /\ Queued(s) \in Nat
        /\ client[s].rest \in Nat /\ archive[s].observed \in Nat
    BY <1>1, Fields, QueueFacts
  <2> QED BY <2>1, <2>2, BalanceMoves
<1>15. Len(file'[s].out) = Len(file[s].out) + 1 /\ Len(file[s].out) \in Nat
  BY <1>8
<1>16. ChunksFit(s)'
  <2>1. file'[s].open /\ InHand(s)' # 1 /\ InHand(s)' = 0 /\ d.issues = archive[s].issues
    BY <1>1, <1>4, <1>6
  <2>2. ASSUME "fatal" \notin archive[s].issues, NEW i \in DOMAIN queue, IsOutput(queue[i], s)
        PROVE  queue[i].chunk = Len(file'[s].out) + 0 + Cardinality(Chunks(queue, s, i))
    <3>1. queue[i].chunk = Len(file[s].out) + 1 + Cardinality(Chunks(queue, s, i))
      BY <1>1, <2>2 DEF ChunksFit
    <3>2. Cardinality(Chunks(queue, s, i)) \in Nat
      BY <1>1, QueueFacts
    <3>3. \A c, l, m \in Nat : m = l + 1 => l + 1 + c = m + 0 + c
      OBVIOUS
    <3>4. Len(file'[s].out) \in Nat
      BY <1>15
    <3> QED BY <1>15, <3>1, <3>2, <3>3, <3>4
  <2> QED BY <1>5, <2>1, <2>2 DEF ChunksFit
<1> QED
  BY <1>6, <1>9, <1>10, <1>11, <1>12, <1>13, <1>14, <1>16, AloneKeeps DEF Connected

(* What Drops does to the books.                                           *)
LEMMA DropsBooks ==
  ASSUME ArchiveShape, NEW s \in ArchiveSessions, archive[s].pending - 1 \in Nat,
         NEW flag, Drops(s, flag),
         flag \in Fatal \/ (flag = "none" /\ "fatal" \in archive[s].issues)
  PROVE  \E d \in ArchiveStates :
           /\ archive' = [archive EXCEPT ![s] = d]
           /\ d.pending = archive[s].pending - 1 /\ d.dropped = archive[s].dropped + 1
           /\ d.observed = archive[s].observed /\ d.final = archive[s].final
           /\ d.completed = archive[s].completed /\ "fatal" \in d.issues
           /\ d.issues \subseteq archive[s].issues \cup {"fatal"}
<1> DEFINE a == [archive[s] EXCEPT !.pending = archive[s].pending - 1]
           b == Loses(a, 1)
           d == IF flag = "none" THEN b ELSE issue(b, flag)
<1>1. archive[s] \in ArchiveStates
  BY DEF ArchiveShape
<1>2. archive' = [archive EXCEPT ![s] = d]
  BY DEF Drops
<1>3. /\ a \in ArchiveStates /\ a.pending = archive[s].pending - 1
      /\ a.issues = archive[s].issues /\ a.dropped = archive[s].dropped
      /\ a.observed = archive[s].observed /\ a.final = archive[s].final
      /\ a.completed = archive[s].completed
  BY <1>1, SetPending
<1> HIDE DEF a
<1>4. /\ b \in ArchiveStates /\ b.pending = a.pending /\ b.issues = a.issues
      /\ b.dropped = a.dropped + 1
      /\ b.observed = a.observed /\ b.final = a.final /\ b.completed = a.completed
  BY <1>3, LosesCounts
<1> HIDE DEF b
<1>5. /\ d \in ArchiveStates /\ d.pending = b.pending /\ d.dropped = b.dropped
      /\ d.observed = b.observed /\ d.final = b.final /\ d.completed = b.completed
      /\ "fatal" \in d.issues /\ d.issues \subseteq b.issues \cup {"fatal"}
  <2>1. CASE flag = "none"
    <3>1. "none" \notin Fatal
      BY DEF Fatal
    <3> QED BY <1>3, <1>4, <2>1, <3>1
  <2>2. CASE flag # "none"
    BY <1>4, <2>2, IssueSets
  <2> QED BY <2>1, <2>2
<1> HIDE DEF d
<1> QED
  BY <1>2, <1>3, <1>4, <1>5

(* Making room, or what is left of a failed write, is in no file's output. *)
LEMMA RoomFacts ==
  ASSUME ArchiveShape, NEW s \in ArchiveSessions, file[s].open,
         NEW removed \in SUBSET (Files \ Open), NEW f, f = Without(removed)
  PROVE  /\ f \in [ArchiveSessions -> FileStates] /\ f[s] = file[s]
         /\ \A u \in ArchiveSessions \ {s} :
              f[u] = file[u] \/ (file[u].exists /\ ~file[u].open /\ f[u] = NoFile)
BY WithoutKeeps

LEMMA LeftFacts ==
  ASSUME NEW f \in [ArchiveSessions -> FileStates], NEW s \in ArchiveSessions, NEW left \in Nat,
         NEW h, h = [f EXCEPT ![s].bytes = @ + left]
  PROVE  /\ h \in [ArchiveSessions -> FileStates]
         /\ \A u \in ArchiveSessions \ {s} : h[u] = f[u]
         /\ h[s].exists = f[s].exists /\ h[s].open = f[s].open
         /\ h[s].out = f[s].out /\ h[s].footer = f[s].footer
<1> DEFINE r == f[s]
           g == [r EXCEPT !.bytes = r.bytes + left]
<1>1. r \in FileStates /\ h = [f EXCEPT ![s] = g]
  OBVIOUS
<1>2. g \in FileStates /\ g.exists = r.exists /\ g.open = r.open /\ g.out = r.out /\ g.footer = r.footer
  <2> HIDE DEF r
  <2>1. r.bytes + left \in Nat
    BY <1>1 DEF FileStates
  <2> QED BY <1>1, <2>1 DEF FileStates
<1> HIDE DEF g
<1>3. h \in [ArchiveSessions -> FileStates] /\ h[s] = g /\ \A u \in ArchiveSessions \ {s} : h[u] = f[u]
  BY <1>1, <1>2, UpdateFacts
<1> QED
  BY <1>2, <1>3

LEMMA GrownIs ==
  ASSUME NEW f \in [ArchiveSessions -> FileStates], NEW s \in ArchiveSessions, NEW n, NEW size
  PROVE  [f EXCEPT ![s].out = Append(@, n), ![s].bytes = @ + size] =
           [f EXCEPT ![s] = [f[s] EXCEPT !.out = Append(f[s].out, n), !.bytes = f[s].bytes + size]]
BY DEF FileStates

LEMMA WriterOutputKeeps ==
  ASSUME ArchiveInv, WriterOutput
  PROVE  ArchiveInv'
<1> DEFINE s == writer.job.session
           size == writer.job.size
<1>1. /\ ArchiveShape /\ writer.pc = "output" /\ Goes("look", NoJob) /\ client' = client
      /\ queue' = queue /\ stopping' = stopping
  BY DEF ArchiveInv, WriterOutput, WriterFrame
<1>2. s \in ArchiveSessions /\ size \in Nat /\ writer.job.chunk \in Nat
  BY <1>1, JobSession, JobKinds, ArchiveAssumption
<1>3. Prunes(0, size) \subseteq SUBSET (Files \ Open) /\ {} \in SUBSET (Files \ Open)
  BY DEF Prunes
<1>4. {"session_limit", "total_limit", "disk_error"} \subseteq Fatal
  BY DEF Fatal
<1>5. \/ file' = file /\ \E flag : Drops(s, flag) /\ (flag \in Fatal \/ (flag = "none" /\ ~Kept(s)))
      \/ /\ Kept(s)
         /\ \E removed \in SUBSET (Files \ Open) :
              \/ file' = Without(removed) /\ \E flag \in Fatal : Drops(s, flag)
              \/ /\ \E left \in Nat : file' = [Without(removed) EXCEPT ![s].bytes = @ + left]
                 /\ \E flag \in Fatal : Drops(s, flag)
              \/ file' = Written(s, removed, size) /\ archive' = [archive EXCEPT ![s].pending = @ - 1]
  <2> HIDE DEF s, size
  <2>1. \/ ~Kept(s) /\ Drops(s, "none") /\ file' = file
        \/ Drops(s, "session_limit") /\ file' = file
        \/ Kept(s) /\ (WriteChunk(s, size) \/ RotateFails(s, size))
    BY DEF WriterOutput, s, size
  <2>2. ASSUME WriteChunk(s, size)
        PROVE  \E removed \in SUBSET (Files \ Open) :
              \/ file' = Without(removed) /\ \E flag \in Fatal : Drops(s, flag)
              \/ /\ \E left \in Nat : file' = [Without(removed) EXCEPT ![s].bytes = @ + left]
                 /\ \E flag \in Fatal : Drops(s, flag)
              \/ file' = Written(s, removed, size) /\ archive' = [archive EXCEPT ![s].pending = @ - 1]
    <3>1. PICK removed \in IF Fits({}, 0, size) THEN {{}} ELSE Prunes(0, size) :
            \/ file' = Without(removed) /\ Drops(s, "total_limit")
            \/ file' = Written(s, removed, size) /\ archive' = [archive EXCEPT ![s].pending = @ - 1]
            \/ /\ \E left \in {0, size} : file' = [Without(removed) EXCEPT ![s].bytes = @ + left]
               /\ Drops(s, "disk_error")
      BY <2>2 DEF WriteChunk
    <3>2. removed \in SUBSET (Files \ Open)
      BY <1>3
    <3>3. {0, size} \subseteq Nat
      BY <1>2
    <3> QED BY <1>4, <3>1, <3>2, <3>3
  <2>3. ASSUME RotateFails(s, size)
        PROVE  \E removed \in SUBSET (Files \ Open) :
                 file' = Without(removed) /\ \E flag \in Fatal : Drops(s, flag)
    BY <1>4, <2>3 DEF RotateFails
  <2> QED BY <1>4, <2>1, <2>2, <2>3
<1> HIDE DEF s
<1>6. /\ archive[s].pending - 1 \in Nat /\ (~Kept(s) => "fatal" \in archive[s].issues)
      /\ (Kept(s) => file[s].open /\ file[s].exists)
  BY <1>1, <1>2, OutputFacts DEF s
<1>7. \A flag : Drops(s, flag) /\ (flag \in Fatal \/ (flag = "none" /\ ~Kept(s))) =>
        \E d \in ArchiveStates :
           /\ archive' = [archive EXCEPT ![s] = d]
           /\ d.pending = archive[s].pending - 1 /\ d.dropped = archive[s].dropped + 1
           /\ d.observed = archive[s].observed /\ d.final = archive[s].final
           /\ d.completed = archive[s].completed /\ "fatal" \in d.issues
           /\ d.issues \subseteq archive[s].issues \cup {"fatal"}
  BY <1>1, <1>2, <1>6, DropsBooks
<1>8. ASSUME NEW flag, Drops(s, flag), flag \in Fatal \/ (flag = "none" /\ ~Kept(s)),
             file' \in [ArchiveSessions -> FileStates],
             \A u \in ArchiveSessions \ {s} : FileAround(u),
             file'[s].exists = file[s].exists, file'[s].open = file[s].open,
             file'[s].out = file[s].out, file'[s].footer = file[s].footer,
             file'[s] = file[s] \/ file[s].exists
      PROVE  ArchiveInv'
  <2>1. PICK d \in ArchiveStates :
           /\ archive' = [archive EXCEPT ![s] = d]
           /\ d.pending = archive[s].pending - 1 /\ d.dropped = archive[s].dropped + 1
           /\ d.observed = archive[s].observed /\ d.final = archive[s].final
           /\ d.completed = archive[s].completed /\ "fatal" \in d.issues
           /\ d.issues \subseteq archive[s].issues \cup {"fatal"}
    BY <1>7, <1>8
  <2> QED BY <1>1, <1>2, <1>8, <2>1, OutputDrops DEF s
<1>9. ASSUME file' = file, NEW flag, Drops(s, flag), flag \in Fatal \/ (flag = "none" /\ ~Kept(s))
      PROVE  ArchiveInv'
  <2>1. file' \in [ArchiveSessions -> FileStates] /\ \A u \in ArchiveSessions \ {s} : FileAround(u)
    BY <1>1, <1>9 DEF ArchiveShape, FileAround
  <2> QED BY <1>8, <1>9, <2>1
<1>10. ASSUME Kept(s), NEW removed \in SUBSET (Files \ Open)
       PROVE  /\ Without(removed) \in [ArchiveSessions -> FileStates]
              /\ Without(removed)[s] = file[s]
              /\ \A u \in ArchiveSessions \ {s} :
                   \/ Without(removed)[u] = file[u]
                   \/ file[u].exists /\ ~file[u].open /\ Without(removed)[u] = NoFile
  BY <1>1, <1>2, <1>6, <1>10, RoomFacts
<1>11. ASSUME Kept(s), NEW removed \in SUBSET (Files \ Open), file' = Without(removed),
              NEW flag \in Fatal, Drops(s, flag)
       PROVE  ArchiveInv'
  <2>1. file' \in [ArchiveSessions -> FileStates] /\ file'[s] = file[s]
        /\ \A u \in ArchiveSessions \ {s} : FileAround(u)
    BY <1>10, <1>11 DEF FileAround
  <2> QED BY <1>8, <1>11, <2>1
<1>12. ASSUME Kept(s), NEW removed \in SUBSET (Files \ Open), NEW left \in Nat,
              file' = [Without(removed) EXCEPT ![s].bytes = @ + left],
              NEW flag \in Fatal, Drops(s, flag)
       PROVE  ArchiveInv'
  <2> DEFINE f == Without(removed)
  <2>1. f \in [ArchiveSessions -> FileStates] /\ f[s] = file[s]
    BY <1>10, <1>12
  <2>2. \A u \in ArchiveSessions \ {s} : f[u] = file[u] \/ (file[u].exists /\ ~file[u].open /\ f[u] = NoFile)
    BY <1>10, <1>12
  <2>3. file' = [f EXCEPT ![s].bytes = @ + left]
    BY <1>12
  <2> HIDE DEF f
  <2>4. /\ file' \in [ArchiveSessions -> FileStates]
        /\ \A u \in ArchiveSessions \ {s} : file'[u] = f[u]
        /\ file'[s].exists = f[s].exists /\ file'[s].open = f[s].open
        /\ file'[s].out = f[s].out /\ file'[s].footer = f[s].footer
    BY <1>2, <2>1, <2>3, LeftFacts
  <2>5. \A u \in ArchiveSessions \ {s} : FileAround(u)
    BY <2>2, <2>4 DEF FileAround
  <2> QED BY <1>6, <1>8, <1>12, <2>1, <2>4, <2>5
<1>13. ASSUME Kept(s), NEW removed \in SUBSET (Files \ Open), file' = Written(s, removed, size),
              archive' = [archive EXCEPT ![s].pending = @ - 1]
       PROVE  ArchiveInv'
  <2> DEFINE f == Without(removed)
             n == writer.job.chunk
             g == [f[s] EXCEPT !.out = Append(f[s].out, n), !.bytes = f[s].bytes + size]
  <2>1. f \in [ArchiveSessions -> FileStates] /\ f[s] = file[s]
    BY <1>10, <1>13
  <2>2. \A u \in ArchiveSessions \ {s} : f[u] = file[u] \/ (file[u].exists /\ ~file[u].open /\ f[u] = NoFile)
    BY <1>10, <1>13
  <2>3. file' = [f EXCEPT ![s] = g]
    <3>1. file' = [f EXCEPT ![s].out = Append(@, n), ![s].bytes = @ + size]
      BY <1>13 DEF Written
    <3> HIDE DEF f, n, size
    <3> QED BY <1>2, <2>1, <3>1, GrownIs
  <2>4. /\ g \in FileStates /\ g.exists = f[s].exists /\ g.open = f[s].open
        /\ g.out = Append(f[s].out, n) /\ g.footer = f[s].footer
    <3>1. f[s] \in FileStates /\ n \in Nat /\ size \in Nat
      BY <1>2, <2>1
    <3>2. f[s].bytes + size \in Nat /\ f[s].out \in Seq(Nat)
      <4> HIDE DEF f, n, size
      <4> QED BY <3>1 DEF FileStates
    <3>3. Append(f[s].out, n) \in Seq(Nat)
      BY <3>1, <3>2, AppendProperties
    <3> DEFINE r == f[s]
               out == Append(f[s].out, n)
               bytes == f[s].bytes + size
    <3>4. r \in FileStates /\ out \in Seq(Nat) /\ bytes \in Nat
          /\ g = [r EXCEPT !.out = out, !.bytes = bytes]
      BY <3>1, <3>2, <3>3
    <3>5. out = Append(f[s].out, n) /\ r = f[s]
      OBVIOUS
    <3> HIDE DEF r, out, bytes, f, n, size, g
    <3>6. g \in FileStates /\ g.exists = r.exists /\ g.open = r.open /\ g.out = out /\ g.footer = r.footer
      BY <3>4 DEF FileStates
    <3> QED BY <3>5, <3>6
  <2> HIDE DEF f, n, size, g
  <2>5. /\ file' \in [ArchiveSessions -> FileStates] /\ file'[s] = g
        /\ \A u \in ArchiveSessions \ {s} : file'[u] = f[u]
    BY <1>2, <2>1, <2>3, <2>4, UpdateFacts
  <2>6. \A u \in ArchiveSessions \ {s} : FileAround(u)
    BY <2>2, <2>5 DEF FileAround
  <2>7. file'[s].out = Append(file[s].out, writer.job.chunk)
    BY <2>1, <2>4, <2>5 DEF n
  <2> QED BY <1>1, <1>2, <1>13, <2>1, <2>4, <2>6, <2>7, <2>5, OutputWrites DEF s
<1> HIDE DEF size
<1> QED
  BY <1>5, <1>9, <1>11, <1>12, <1>13

-----------------------------------------------------------------------------
(* The theorems.                                                           *)

LEMMA InitFits ==
  ASSUME ArchiveInit
  PROVE  ArchiveInv
<1>1. /\ queue = <<>> /\ queue \in Seq(Commands) /\ Len(queue) = 0 /\ DOMAIN queue = {}
      /\ writer.pc = "recv" /\ writer.sealed = {}
  <2>1. queue = <<>> /\ <<>> \in Seq(Commands) /\ Len(<<>>) = 0
    BY EmptySeq DEF ArchiveInit
  <2>2. DOMAIN queue = 1 .. Len(queue)
    BY <2>1, LenProperties
  <2>3. 1 .. 0 = {}
    OBVIOUS
  <2> QED BY <2>1, <2>2, <2>3 DEF ArchiveInit
<1>2. NewArchive \in ArchiveStates /\ NewArchive.pending = 0 /\ NewArchive.final = FALSE
      /\ NewArchive.completed = FALSE /\ NewArchive.observed = 0 /\ NewArchive.dropped = 0
      /\ NewArchive.issues = {}
  BY DEF NewArchive, ArchiveStates
<1>3. ArchiveShape
  BY <1>1, <1>2, NoFileFacts, CommandKinds
  DEF ArchiveInit, ArchiveShape, ClientStates, Writers
<1>4. WriterFits
  BY <1>1 DEF WriterFits
<1>5. ASSUME NEW s \in ArchiveSessions
      PROVE  ClientFits(s) /\ FileFits(s) /\ Connected(s)
  <2>1. /\ client[s].pc = "new" /\ client[s].rest = 0
        /\ archive[s] = NewArchive /\ file[s] = NoFile
    BY DEF ArchiveInit
  <2>2. ~Starting(s) /\ ~StartQueued(s) /\ InHand(s) = 0
    BY <1>1 DEF Starting, StartQueued, InHand
  <2>3. Queued(s) = 0
    BY <1>1, ChunksFirst DEF Queued
  <2>4. ClientFits(s)
    BY <1>2, <2>1 DEF ClientFits
  <2>5. FileFits(s)
    BY <2>1, NoFileFacts DEF FileFits
  <2>6. StartFits(s)
    BY <1>1, <1>2, <2>1, <2>2, NoFileFacts DEF StartFits
  <2>7. PendingFits(s) /\ IssuesFit(s)
    BY <1>2, <2>1, <2>2, <2>3, NoFileFacts DEF PendingFits, IssuesFit
  <2>8. AccountFits(s)
    <3>1. Balance(0, 0, 0, 0, 0, 0)
      BY DEF Balance
    <3> QED BY <3>1, <1>2, <2>1, <2>2, <2>3, NoFileFacts DEF AccountFits
  <2>9. ChunksFit(s)
    BY <1>1, <2>1, <2>2 DEF ChunksFit
  <2> QED BY <2>4, <2>5, <2>6, <2>7, <2>8, <2>9 DEF Connected
<1> QED
  BY <1>3, <1>4, <1>5 DEF ArchiveInv

LEMMA StepFits ==
  ASSUME ArchiveInv, [ArchiveNext]_archiveVars
  PROVE  ArchiveInv'
<1>1. CASE \E s \in ArchiveSessions : ArchiveSession(s)
  BY <1>1, StartSessionKeeps, PushNextKeeps, PushSendsKeeps, SealKeeps, WaitKeeps DEF ArchiveSession
<1>2. CASE WriterStep
  BY <1>2, ReceiveKeeps, TimesOutKeeps, LooksKeeps, FinishDoneKeeps, FinishArchiveKeeps,
     WriterStartKeeps, WriterOutputKeeps DEF WriterStep
<1>3. CASE Maintain \/ ShutdownArchive \/ WriterPanics
  BY <1>3, MaintainKeeps, ShutdownKeeps, PanicsKeeps
<1>4. CASE UNCHANGED archiveVars
  <2>1. /\ client' = client /\ archive' = archive /\ file' = file /\ queue' = queue
        /\ writer' = writer /\ stopping' = stopping
    BY <1>4 DEF archiveVars
  <2>2. ArchiveShape' /\ WriterFits'
    BY <2>1 DEF ArchiveInv, ArchiveShape, WriterFits
  <2>3. \A u \in ArchiveSessions : QueueAround(u) /\ WriterAround(u) /\ FileAround(u)
    BY <2>1 DEF QueueAround, WriterAround, FileAround, Starting, InHand
  <2>4. Disconnected' = Disconnected
    BY <2>1 DEF Disconnected
  <2> QED BY <2>1, <2>2, <2>3, <2>4, AllAround
<1> QED
  BY <1>1, <1>2, <1>3, <1>4 DEF ArchiveNext

(* diagnostics.rs: whatever the sizes of chunks, queue and files, and      *)
(* whenever something is lost, fails or panics, the books of every session *)
(* stay in balance, and the writer gets its chunks one by one until        *)
(* something fatal happens.                                                *)
THEOREM ArchiveInvariant == ArchiveSpec => []ArchiveInv
<1>1. ArchiveInit => ArchiveInv
  BY InitFits
<1>2. ArchiveInv /\ [ArchiveNext]_archiveVars => ArchiveInv'
  BY StepFits
<1> QED
  BY <1>1, <1>2, PTL DEF ArchiveSpec

(* Writer: what is in a file is the beginning of the output, a footer that *)
(* reports nothing missing stands behind all of it, any footer accounts    *)
(* for all of it, and pending counts what is queued.                       *)
THEOREM ArchivesAreTrue == ArchiveSpec => []ArchiveIsTrue
<1>1. ArchiveInv => ArchiveIsTrue
  <2> SUFFICES ASSUME ArchiveInv PROVE ArchiveIsTrue
    OBVIOUS
  <2>1. PendingAgrees
    <3> SUFFICES ASSUME NEW s \in ArchiveSessions, ~Disconnected
                 PROVE  archive[s].pending =
                          Cardinality({i \in DOMAIN queue : queue[i].cmd = "output" /\ queue[i].session = s})
                          + (IF client[s].pc = "send" THEN 1 ELSE 0)
                          + (IF writer.pc = "output" /\ writer.job.session = s THEN 1 ELSE 0)
      BY DEF PendingAgrees
    <3>1. ArchiveShape /\ PendingFits(s)
      BY DEF ArchiveInv, Connected
    <3>2. DOMAIN queue = 1 .. Len(queue) /\ Len(queue) \in Nat
      BY <3>1, QueueFacts
    <3>3. {i \in DOMAIN queue : queue[i].cmd = "output" /\ queue[i].session = s} =
            Chunks(queue, s, Len(queue))
      BY <3>2 DEF Chunks, IsOutput
    <3> QED BY <3>1, <3>3 DEF PendingFits, Queued, InHand
  <2>2. ArchivedIsPrefix /\ FooterIsTrue
    BY DEF ArchiveInv, FileFits, ArchivedIsPrefix, FooterIsTrue
  <2> QED BY <2>1, <2>2 DEF ArchiveIsTrue
<1> QED
  BY <1>1, ArchiveInvariant, PTL

-----------------------------------------------------------------------------
(* Counting the bytes of files.                                            *)

Places(f, S) == UNION {{s} \X (1 .. f[s].bytes) : s \in S}
Sum(f, S) == Cardinality(Places(f, S))

LEMMA OnePlaces ==
  ASSUME NEW x, NEW n \in Nat
  PROVE  IsFiniteSet({x} \X (1 .. n)) /\ Cardinality({x} \X (1 .. n)) = n
<1> DEFINE I == 1 .. n
           X == {x}
<1>1. n \in Int /\ 1 \in Int /\ n - 1 + 1 = n
  OBVIOUS
<1>2. IsFiniteSet(I) /\ Cardinality(I) = n
  BY <1>1, FS_Interval
<1>3. IsFiniteSet(X) /\ Cardinality(X) = 1
  BY FS_Singleton
<1> HIDE DEF I, X
<1>4. IsFiniteSet(X \X I) /\ Cardinality(X \X I) = Cardinality(X) * Cardinality(I)
  BY <1>2, <1>3, FS_Product
<1>5. Cardinality(X \X I) = n
  BY <1>2, <1>3, <1>4
<1> QED
  BY <1>4, <1>5 DEF I, X

LEMMA PlacesFinite ==
  ASSUME NEW S, IsFiniteSet(S), NEW f, \A s \in S : f[s].bytes \in Nat
  PROVE  IsFiniteSet(Places(f, S)) /\ Sum(f, S) \in Nat
<1> DEFINE Of(s) == {s} \X (1 .. f[s].bytes)
           T == {Of(s) : s \in S}
           h == [s \in S |-> Of(s)]
<1>1. \A s \in S : IsFiniteSet(Of(s))
  BY OnePlaces
<1>2. h \in Surjection(S, T)
  <2> HIDE DEF Of
  <2> QED BY DEF Surjection
<1>3. IsFiniteSet(T)
  BY <1>2, FS_Surjection
<1>4. \A P \in T : IsFiniteSet(P)
  BY <1>1
<1>5. Places(f, S) = UNION T
  BY DEF Places
<1> HIDE DEF T
<1>6. IsFiniteSet(Places(f, S))
  BY <1>3, <1>4, <1>5, FS_UNION
<1> QED
  BY <1>6, FS_CardinalityType DEF Sum

LEMMA SumShrinks ==
  ASSUME NEW S, IsFiniteSet(S), NEW f, \A s \in S : f[s].bytes \in Nat,
         NEW T, T \subseteq S
  PROVE  Sum(f, T) <= Sum(f, S)
<1>1. Places(f, T) \subseteq Places(f, S)
  BY DEF Places
<1> QED
  BY <1>1, PlacesFinite, FS_Subset DEF Sum

LEMMA SumAdds ==
  ASSUME NEW S, IsFiniteSet(S), NEW f, NEW x, x \notin S,
         \A s \in S \cup {x} : f[s].bytes \in Nat
  PROVE  Sum(f, S \cup {x}) = Sum(f, S) + f[x].bytes
<1> DEFINE n == f[x].bytes
           P == {x} \X (1 .. n)
<1>1. Places(f, S \cup {x}) = Places(f, S) \cup P
  BY DEF Places
<1>2. Places(f, S) \cap P = {}
  BY DEF Places
<1>3. IsFiniteSet(P) /\ Cardinality(P) = n
  BY OnePlaces
<1>4. IsFiniteSet(Places(f, S)) /\ Sum(f, S) \in Nat
  BY PlacesFinite
<1>5. Cardinality(Places(f, S) \cup P) = Cardinality(Places(f, S)) + Cardinality(P) - 0
  <2> DEFINE Q == Places(f, S)
  <2> HIDE DEF P, Q
  <2>1. IsFiniteSet(P) /\ IsFiniteSet(Q) /\ Cardinality(Q \cap P) = 0
    BY <1>2, <1>3, <1>4, FS_EmptySet DEF Q
  <2>2. Cardinality(Q \cup P) = Cardinality(Q) + Cardinality(P) - Cardinality(Q \cap P)
    BY <2>1, FS_Union
  <2> QED BY <2>1, <2>2 DEF Q
<1>6. n \in Nat
  OBVIOUS
<1>7. Cardinality(Places(f, S)) \in Nat
  BY <1>4 DEF Sum
<1> HIDE DEF P, n
<1>8. Cardinality(Places(f, S) \cup P) = Cardinality(Places(f, S)) + n
  BY <1>3, <1>5, <1>6, <1>7
<1> QED
  BY <1>1, <1>8 DEF Sum, n

LEMMA SumSame ==
  ASSUME NEW S, NEW f, NEW g, \A s \in S : f[s].bytes = g[s].bytes
  PROVE  Sum(f, S) = Sum(g, S)
<1>1. {{s} \X (1 .. f[s].bytes) : s \in S} = {{s} \X (1 .. g[s].bytes) : s \in S}
  OBVIOUS
<1> QED
  BY <1>1 DEF Sum, Places

(* One file of several grows.                                              *)
LEMMA SumGrows ==
  ASSUME NEW S, IsFiniteSet(S), NEW x \in S, NEW f, NEW g, NEW n \in Nat,
         \A s \in S : f[s].bytes \in Nat,
         \A s \in S \ {x} : g[s].bytes = f[s].bytes, g[x].bytes = f[x].bytes + n
  PROVE  Sum(g, S) = Sum(f, S) + n
<1> DEFINE R == S \ {x}
<1>1. IsFiniteSet(R) /\ x \notin R /\ R \cup {x} = S
  BY FS_RemoveElement
<1>2. \A s \in S : g[s].bytes \in Nat
  OBVIOUS
<1>3. Sum(f, R) = Sum(g, R)
  BY SumSame
<1>4. f[x].bytes \in Nat /\ g[x].bytes = f[x].bytes + n
  OBVIOUS
<1>5. Sum(f, R) \in Nat
  BY <1>1, PlacesFinite
<1> HIDE DEF R
<1>6. Sum(f, S) = Sum(f, R) + f[x].bytes
  <2>1. \A s \in R \cup {x} : f[s].bytes \in Nat
    BY <1>1
  <2>2. Sum(f, R \cup {x}) = Sum(f, R) + f[x].bytes
    BY ONLY <1>1, <2>1, SumAdds
  <2> QED BY <1>1, <2>2
<1>7. Sum(g, S) = Sum(g, R) + g[x].bytes
  <2>1. \A s \in R \cup {x} : g[s].bytes \in Nat
    BY <1>1, <1>2
  <2>2. Sum(g, R \cup {x}) = Sum(g, R) + g[x].bytes
    BY ONLY <1>1, <2>1, SumAdds
  <2> QED BY <1>1, <2>2
<1> QED
  BY <1>3, <1>4, <1>5, <1>6, <1>7

-----------------------------------------------------------------------------
(* The limits.                                                             *)

LEMMA BytesFacts ==
  ASSUME ArchiveInv, LimitsInv
  PROVE  /\ Open \subseteq Files /\ Files \subseteq ArchiveSessions
         /\ file \in [ArchiveSessions -> FileStates]
         /\ \A u \in ArchiveSessions : file[u].bytes \in Nat
         /\ IsFiniteSet(Files) /\ IsFiniteSet(Open) /\ Cardinality(Open) \in Nat
         /\ \A S : BytesOf(S) = Sum(file, S)
         /\ \A S \in SUBSET Files :
              /\ IsFiniteSet(S) /\ Cardinality(S) \in Nat /\ Cardinality(S) <= Cardinality(Files)
              /\ Sum(file, S) \in Nat /\ Sum(file, S) <= Sum(file, Files)
         /\ Sum(file, Files) + Cardinality(Open) <= MaxTotal
         /\ Cardinality(Files) <= MaxFiles /\ Cardinality(Files) \in Nat
         /\ \A u \in ArchiveSessions : file[u].bytes <= MaxPerSession
         /\ \A u \in Open : file[u].bytes + 1 <= MaxPerSession
         /\ MaxTotal \in Nat /\ MaxFiles \in Nat /\ MaxPerSession \in Nat /\ 2 <= MaxPerSession
<1>1. file \in [ArchiveSessions -> FileStates] /\ \A u \in ArchiveSessions : FileFits(u)
  BY DEF ArchiveInv, ArchiveShape
<1>2. \A u \in ArchiveSessions : file[u].bytes \in Nat
  BY <1>1 DEF FileStates
<1>3. Open \subseteq Files /\ Files \subseteq ArchiveSessions
  <2>1. ~NoFile.open
    BY DEF NoFile
  <2>2. \A u \in ArchiveSessions : ~file[u].exists => file[u] = NoFile
    BY <1>1 DEF FileFits
  <2> QED BY <2>1, <2>2 DEF Open, Files
<1>4. IsFiniteSet(Files) /\ WithinLimits /\ \A u \in Open : file[u].bytes + 1 <= MaxPerSession
  BY DEF LimitsInv
<1>5. \A S : BytesOf(S) = Sum(file, S)
  <2> TAKE S
  <2> QED BY ONLY TRUE DEF BytesOf, Sum, Places
<1>6. ASSUME NEW S \in SUBSET Files
      PROVE  /\ IsFiniteSet(S) /\ Cardinality(S) \in Nat /\ Cardinality(S) <= Cardinality(Files)
             /\ Sum(file, S) \in Nat /\ Sum(file, S) <= Sum(file, Files)
  <2>1. IsFiniteSet(S) /\ Cardinality(S) \in Nat /\ Cardinality(S) <= Cardinality(Files)
    BY <1>4, FS_Subset, FS_CardinalityType
  <2>2. \A u \in Files : file[u].bytes \in Nat
    BY <1>2, <1>3
  <2>3. Sum(file, S) \in Nat
    BY <2>1, <2>2, PlacesFinite
  <2>4. Sum(file, S) <= Sum(file, Files)
    BY <1>4, <2>2, SumShrinks
  <2> QED BY <2>1, <2>3, <2>4
<1>7. /\ MaxTotal \in Nat /\ MaxFiles \in Nat /\ MaxPerSession \in Nat /\ 2 <= MaxPerSession
  BY ArchiveAssumption
<1>8. /\ Sum(file, Files) + Cardinality(Open) <= MaxTotal /\ Cardinality(Files) <= MaxFiles
      /\ \A u \in ArchiveSessions : file[u].bytes <= MaxPerSession
  BY <1>4, <1>5 DEF WithinLimits
<1>9. IsFiniteSet(Open) /\ Cardinality(Open) \in Nat /\ Cardinality(Files) \in Nat
  BY <1>3, <1>6
<1>10. \A S \in SUBSET Files :
         /\ IsFiniteSet(S) /\ Cardinality(S) \in Nat /\ Cardinality(S) <= Cardinality(Files)
         /\ Sum(file, S) \in Nat /\ Sum(file, S) <= Sum(file, Files)
  BY <1>6
<1> QED
  BY ONLY <1>1, <1>2, <1>3, <1>4, <1>5, <1>10, <1>7, <1>8, <1>9

(* What has to be shown of a step.                                         *)
LEMMA LimitsFrom ==
  ASSUME NEW g, NEW F, NEW O, IsFiniteSet(F), file' = g, Files' = F, Open' = O,
         Sum(g, F) + Cardinality(O) <= MaxTotal, Cardinality(F) <= MaxFiles,
         \A u \in ArchiveSessions : g[u].bytes <= MaxPerSession,
         \A u \in O : g[u].bytes + 1 <= MaxPerSession
  PROVE  LimitsInv'
<1>1. BytesOf(Files)' = Sum(g, F)
  BY DEF BytesOf, Sum, Places
<1>2. WithinLimits'
  BY <1>1 DEF WithinLimits
<1> QED
  BY <1>2 DEF LimitsInv

LEMMA LimitsAlone ==
  ASSUME LimitsInv, file' = file
  PROVE  LimitsInv'
<1>1. Files' = Files /\ Open' = Open
  BY DEF Files, Open
<1>2. BytesOf(Files)' = BytesOf(Files)
  BY <1>1 DEF BytesOf
<1> QED
  BY <1>1, <1>2 DEF LimitsInv, WithinLimits

(* What a removal leaves.                                                  *)
LEMMA LeavesFacts ==
  ASSUME ArchiveInv, LimitsInv, NEW removed \in SUBSET (Files \ Open)
  PROVE  /\ Without(removed) \in [ArchiveSessions -> FileStates]
         /\ \A u \in ArchiveSessions : Without(removed)[u].exists <=> u \in Files \ removed
         /\ \A u \in ArchiveSessions : Without(removed)[u].open <=> u \in Open
         /\ \A u \in Files \ removed : Without(removed)[u] = file[u]
         /\ \A u \in ArchiveSessions : Without(removed)[u].bytes <= MaxPerSession
         /\ Sum(Without(removed), Files \ removed) = Sum(file, Files \ removed)
<1> DEFINE f == Without(removed)
<1>1. /\ file \in [ArchiveSessions -> FileStates] /\ Files \subseteq ArchiveSessions /\ Open \subseteq Files
      /\ \A u \in ArchiveSessions : file[u].bytes <= MaxPerSession
      /\ MaxPerSession \in Nat
  BY BytesFacts
<1>2. f \in [ArchiveSessions -> FileStates]
  BY WithoutKeeps DEF ArchiveInv
<1>3. \A u \in ArchiveSessions : f[u] = IF u \in removed THEN NoFile ELSE file[u]
  BY DEF Without
<1>4. ~NoFile.exists /\ ~NoFile.open /\ NoFile.bytes = 0
  BY DEF NoFile
<1>5. \A u \in ArchiveSessions : (u \in Files <=> file[u].exists) /\ (u \in Open <=> file[u].open)
  BY DEF Files, Open
<1> HIDE DEF f
<1>6. \A u \in Files \ removed : f[u] = file[u]
  BY <1>1, <1>3
<1>7. Sum(f, Files \ removed) = Sum(file, Files \ removed)
  BY <1>6, SumSame
<1>8. \A u \in ArchiveSessions : f[u].exists <=> u \in Files \ removed
  BY <1>3, <1>4, <1>5
<1>9. \A u \in ArchiveSessions : f[u].open <=> u \in Open
  BY <1>3, <1>4, <1>5
<1>10. \A u \in ArchiveSessions : f[u].bytes <= MaxPerSession
  BY <1>1, <1>3, <1>4
<1> QED
  BY <1>2, <1>6, <1>7, <1>8, <1>9, <1>10 DEF f

LEMMA RemovalFits ==
  ASSUME ArchiveInv, LimitsInv, NEW removed \in SUBSET (Files \ Open), file' = Without(removed)
  PROVE  LimitsInv'
<1> DEFINE R == Files \ removed
<1>1. /\ IsFiniteSet(R) /\ Sum(file, R) <= Sum(file, Files) /\ Cardinality(R) <= Cardinality(Files)
      /\ Sum(file, R) \in Nat /\ Sum(file, Files) \in Nat
      /\ Cardinality(R) \in Nat /\ Cardinality(Files) \in Nat /\ Cardinality(Open) \in Nat
      /\ Sum(file, Files) + Cardinality(Open) <= MaxTotal /\ Cardinality(Files) <= MaxFiles
      /\ MaxTotal \in Nat /\ MaxFiles \in Nat
      /\ R \subseteq ArchiveSessions /\ Open \subseteq R
      /\ \A u \in Open : file[u].bytes + 1 <= MaxPerSession
  BY BytesFacts
<1>2. /\ \A u \in ArchiveSessions : file'[u].exists <=> u \in R
      /\ \A u \in ArchiveSessions : file'[u].open <=> u \in Open
      /\ \A u \in R : file'[u] = file[u]
      /\ \A u \in ArchiveSessions : file'[u].bytes <= MaxPerSession
      /\ Sum(file', R) = Sum(file, R)
  <2>1. /\ \A u \in ArchiveSessions : Without(removed)[u].exists <=> u \in R
        /\ \A u \in ArchiveSessions : Without(removed)[u].open <=> u \in Open
        /\ \A u \in R : Without(removed)[u] = file[u]
        /\ \A u \in ArchiveSessions : Without(removed)[u].bytes <= MaxPerSession
        /\ Sum(Without(removed), R) = Sum(file, R)
    BY LeavesFacts
  <2> HIDE DEF R
  <2> QED BY <2>1
<1> HIDE DEF R
<1>3. Files' = R /\ Open' = Open
  BY <1>1, <1>2 DEF Files, Open
<1>4. Sum(file', R) + Cardinality(Open) <= MaxTotal /\ Cardinality(R) <= MaxFiles
  BY <1>1, <1>2
<1>5. \A u \in Open : file'[u].bytes + 1 <= MaxPerSession
  BY <1>1, <1>2
<1> QED
  BY <1>1, <1>2, <1>3, <1>4, <1>5, LimitsFrom

(* A file that is written to grows, once there is room for it.             *)
LEMMA GrowthFits ==
  ASSUME ArchiveInv, LimitsInv, NEW s \in Open, NEW removed \in SUBSET (Files \ Open),
         NEW n \in Nat,
         \A u \in ArchiveSessions \ {s} : file'[u] = Without(removed)[u],
         file'[s].exists, file'[s].open, file'[s].bytes = file[s].bytes + n,
         BytesOf(Files \ removed) + Cardinality(Open) + n <= MaxTotal,
         file[s].bytes + n + 1 <= MaxPerSession
  PROVE  LimitsInv'
<1> DEFINE R == Files \ removed
<1>1. /\ IsFiniteSet(R) /\ Cardinality(R) <= Cardinality(Files)
      /\ Sum(file, R) \in Nat /\ BytesOf(R) = Sum(file, R)
      /\ Cardinality(R) \in Nat /\ Cardinality(Files) \in Nat /\ Cardinality(Open) \in Nat
      /\ Cardinality(Files) <= MaxFiles /\ MaxTotal \in Nat /\ MaxFiles \in Nat
      /\ R \subseteq ArchiveSessions /\ Open \subseteq R
      /\ \A u \in Open : file[u].bytes + 1 <= MaxPerSession
      /\ \A u \in ArchiveSessions : file[u].bytes \in Nat
      /\ MaxPerSession \in Nat
  BY BytesFacts
<1>2. /\ \A u \in ArchiveSessions : Without(removed)[u].exists <=> u \in R
      /\ \A u \in ArchiveSessions : Without(removed)[u].open <=> u \in Open
      /\ \A u \in R : Without(removed)[u] = file[u]
      /\ \A u \in ArchiveSessions : Without(removed)[u].bytes <= MaxPerSession
  BY LeavesFacts
<1>3. BytesOf(R) + Cardinality(Open) + n <= MaxTotal
  OBVIOUS
<1> HIDE DEF R
<1>4. s \in R /\ s \in ArchiveSessions
  BY <1>1
<1>5. Files' = R /\ Open' = Open
  BY <1>1, <1>2, <1>4 DEF Files, Open
<1>6. Sum(file', R) = Sum(file, R) + n
  <2>1. \A u \in R \ {s} : file'[u].bytes = file[u].bytes
    BY <1>1, <1>2
  <2>2. \A u \in R : file[u].bytes \in Nat
    BY <1>1
  <2>3. file'[s].bytes = file[s].bytes + n /\ n \in Nat
    OBVIOUS
  <2> QED BY ONLY <1>1, <1>4, <2>1, <2>2, <2>3, SumGrows
<1>7. Sum(file', R) + Cardinality(Open) <= MaxTotal /\ Cardinality(R) <= MaxFiles
  BY <1>1, <1>3, <1>6
<1>8. \A u \in ArchiveSessions : file'[u].bytes <= MaxPerSession
  BY <1>1, <1>2, <1>4
<1>9. \A u \in Open : file'[u].bytes + 1 <= MaxPerSession
  BY <1>1, <1>2
<1> QED
  BY <1>1, <1>5, <1>7, <1>8, <1>9, LimitsFrom

(* A new file has room for its header and its footer.                      *)
LEMMA NewFileFits ==
  ASSUME ArchiveInv, LimitsInv, NEW s \in ArchiveSessions, s \notin Files,
         NEW removed \in SUBSET (Files \ Open),
         \A u \in ArchiveSessions \ {s} : file'[u] = Without(removed)[u],
         file'[s].exists, file'[s].open, file'[s].bytes = 1,
         BytesOf(Files \ removed) + Cardinality(Open) + 2 <= MaxTotal,
         Cardinality(Files \ removed) + 1 <= MaxFiles
  PROVE  LimitsInv'
<1> DEFINE R == Files \ removed
           F == R \cup {s}
           O == Open \cup {s}
<1>1. /\ IsFiniteSet(R) /\ IsFiniteSet(Open)
      /\ Sum(file, R) \in Nat /\ BytesOf(R) = Sum(file, R)
      /\ Cardinality(R) \in Nat /\ Cardinality(Open) \in Nat
      /\ MaxTotal \in Nat /\ MaxFiles \in Nat /\ MaxPerSession \in Nat /\ 2 <= MaxPerSession
      /\ R \subseteq ArchiveSessions /\ Open \subseteq R
      /\ \A u \in Open : file[u].bytes + 1 <= MaxPerSession
      /\ \A u \in ArchiveSessions : file[u].bytes \in Nat
  BY BytesFacts
<1>2. /\ \A u \in ArchiveSessions : Without(removed)[u].exists <=> u \in R
      /\ \A u \in ArchiveSessions : Without(removed)[u].open <=> u \in Open
      /\ \A u \in R : Without(removed)[u] = file[u]
      /\ \A u \in ArchiveSessions : Without(removed)[u].bytes <= MaxPerSession
  BY LeavesFacts
<1>3. /\ BytesOf(R) + Cardinality(Open) + 2 <= MaxTotal /\ Cardinality(R) + 1 <= MaxFiles
      /\ s \notin R
  OBVIOUS
<1> HIDE DEF R
<1>4. s \notin Open
  BY <1>1, <1>3
<1>5. Files' = F /\ Open' = O
  BY <1>1, <1>2 DEF Files, Open
<1>6. Sum(file', F) = Sum(file, R) + 1
  <2>1. \A u \in R : file'[u].bytes = file[u].bytes
    BY <1>1, <1>2, <1>3
  <2>2. \A u \in R \cup {s} : file'[u].bytes \in Nat
    BY <1>1, <2>1
  <2>3. Sum(file', F) = Sum(file', R) + file'[s].bytes
    <3>1. IsFiniteSet(R) /\ s \notin R
      BY <1>1, <1>3
    <3> QED BY ONLY <3>1, <2>2, SumAdds
  <2>4. Sum(file', R) = Sum(file, R)
    BY ONLY <2>1, SumSame
  <2> QED BY <2>3, <2>4
<1>7. IsFiniteSet(F) /\ Cardinality(F) = Cardinality(R) + 1 /\ Cardinality(O) = Cardinality(Open) + 1
  BY <1>1, <1>3, <1>4, FS_AddElement
<1>8. \A u \in ArchiveSessions : file'[u].bytes <= MaxPerSession
  BY <1>1, <1>2
<1>9. \A u \in O : file'[u].bytes + 1 <= MaxPerSession
  BY <1>1, <1>2
<1> HIDE DEF F, O
<1>10. Sum(file', F) + Cardinality(O) <= MaxTotal /\ Cardinality(F) <= MaxFiles
  BY <1>1, <1>3, <1>6, <1>7
<1> QED
  BY <1>5, <1>7, <1>8, <1>9, <1>10, LimitsFrom

(* A footer takes no more than was kept for it.                            *)
LEMMA ClosedFits ==
  ASSUME ArchiveInv, LimitsInv, NEW s \in Open, NEW n \in 0 .. 1,
         NEW footer \in {"none", "complete", "truncated"}, Closed(s, footer, n)
  PROVE  LimitsInv'
<1> DEFINE O == Open \ {s}
<1>1. /\ IsFiniteSet(Files) /\ IsFiniteSet(Open)
      /\ Sum(file, Files) \in Nat /\ Cardinality(Open) \in Nat
      /\ Sum(file, Files) + Cardinality(Open) <= MaxTotal /\ Cardinality(Files) <= MaxFiles
      /\ MaxTotal \in Nat /\ MaxPerSession \in Nat
      /\ Files \subseteq ArchiveSessions /\ Open \subseteq Files
      /\ \A u \in Open : file[u].bytes + 1 <= MaxPerSession
      /\ \A u \in ArchiveSessions : file[u].bytes \in Nat /\ file[u].bytes <= MaxPerSession
  BY BytesFacts
<1>2. /\ file \in [ArchiveSessions -> FileStates] /\ s \in ArchiveSessions /\ n \in Nat /\ n <= 1
  BY <1>1, BytesFacts
<1>3. /\ \A u \in ArchiveSessions \ {s} : file'[u] = file[u]
      /\ file'[s].exists = file[s].exists /\ file'[s].open = FALSE
  BY <1>2, ClosedFacts DEF ArchiveInv
<1>4. file'[s].bytes = file[s].bytes + n
  <2>1. file[s] \in FileStates
    BY <1>2
  <2> QED BY <1>2, <2>1 DEF Closed, FileStates
<1>5. Files' = Files /\ Open' = O
  BY <1>1, <1>3 DEF Files, Open
<1>6. Sum(file', Files) = Sum(file, Files) + n
  <2>1. /\ \A u \in Files \ {s} : file'[u].bytes = file[u].bytes
        /\ \A u \in Files : file[u].bytes \in Nat
        /\ s \in Files
    BY <1>1, <1>3
  <2> QED BY ONLY <1>1, <1>2, <1>4, <2>1, SumGrows
<1>7. Cardinality(O) = Cardinality(Open) - 1
  BY <1>1, FS_RemoveElement
<1>8. \A u \in ArchiveSessions : file'[u].bytes <= MaxPerSession
  BY <1>1, <1>2, <1>3, <1>4
<1>9. \A u \in O : file'[u].bytes + 1 <= MaxPerSession
  BY <1>1, <1>3
<1> HIDE DEF O
<1>10. Sum(file', Files) + Cardinality(O) <= MaxTotal
  BY <1>1, <1>2, <1>6, <1>7
<1> QED
  BY <1>1, <1>5, <1>8, <1>9, <1>10, LimitsFrom

LEMMA StartLimits ==
  ASSUME ArchiveInv, LimitsInv, WriterStart
  PROVE  LimitsInv'
<1> DEFINE s == writer.job.session
           g == [NoFile EXCEPT !.exists = TRUE, !.open = TRUE, !.bytes = 1]
<1>1. writer.pc = "start"
  BY DEF WriterStart
<1>2. s \in ArchiveSessions /\ s \notin Files
  BY <1>1, JobSession, StartFacts DEF Files
<1>3. g.exists /\ g.open /\ g.bytes = 1
  BY DEF NoFile
<1>4. \E removed \in SUBSET (Files \ Open) :
        \/ file' = Without(removed)
        \/ /\ removed \in Prunes(1, 1)
           /\ Fits(removed, 1, 1) /\ Cardinality(Open) < MaxFiles
           /\ file' = [Without(removed) EXCEPT ![s] = g]
  BY DEF WriterStart, Prunes
<1> HIDE DEF s, g
<1>5. ASSUME NEW removed \in SUBSET (Files \ Open), removed \in Prunes(1, 1),
             Fits(removed, 1, 1), Cardinality(Open) < MaxFiles,
             file' = [Without(removed) EXCEPT ![s] = g]
      PROVE  LimitsInv'
  <2>1. Without(removed) \in [ArchiveSessions -> FileStates]
    BY <1>5, LeavesFacts
  <2>2. file'[s] = g /\ \A u \in ArchiveSessions \ {s} : file'[u] = Without(removed)[u]
    BY <1>2, <1>5, <2>1
  <2>3. /\ Open \subseteq Files /\ Cardinality(Open) \in Nat /\ BytesOf(Files \ removed) \in Nat
        /\ Cardinality(Files \ removed) \in Nat
        /\ MaxTotal \in Nat /\ MaxFiles \in Nat
    BY BytesFacts
  <2>4. BytesOf(Files \ removed) + Cardinality(Open) + 2 <= MaxTotal
    BY <1>5, <2>3 DEF Fits, Reserve
  <2>5. Cardinality(Files \ removed) + 1 <= MaxFiles
    <3>1. removed = Files \ Open \/ Cardinality(Files \ removed) + 1 <= MaxFiles
      BY <1>5 DEF Prunes
    <3>2. CASE removed = Files \ Open
      <4>1. Files \ removed = Open
        BY <2>3, <3>2
      <4>2. Cardinality(Files \ removed) = Cardinality(Open)
        BY <4>1
      <4> QED BY <1>5, <2>3, <4>2
    <3> QED BY <3>1, <3>2
  <2> QED BY <1>2, <1>3, <2>2, <2>4, <2>5, NewFileFits
<1> QED
  BY <1>4, <1>5, RemovalFits

LEMMA OutputLimits ==
  ASSUME ArchiveInv, LimitsInv, WriterOutput
  PROVE  LimitsInv'
<1> DEFINE s == writer.job.session
           size == writer.job.size
           chunk == writer.job.chunk
<1>1. writer.pc = "output"
  BY DEF WriterOutput
<1>2. s \in ArchiveSessions /\ size \in Nat
  BY <1>1, JobSession, JobKinds, ArchiveAssumption
<1>3. Prunes(0, size) \subseteq SUBSET (Files \ Open) /\ {} \in SUBSET (Files \ Open)
  BY DEF Prunes
<1>4. \/ file' = file
      \/ /\ Kept(s) /\ ~(file[s].bytes + size + 1 > MaxPerSession)
         /\ WriteChunk(s, size) \/ RotateFails(s, size)
  BY DEF WriterOutput
<1> HIDE DEF s, size, chunk
<1>5. ASSUME Kept(s), ~(file[s].bytes + size + 1 > MaxPerSession),
             NEW removed \in SUBSET (Files \ Open), Fits(removed, 0, size),
             NEW f, f = Without(removed), NEW n \in {0, size},
             \/ file' = [f EXCEPT ![s].out = Append(@, chunk), ![s].bytes = @ + n]
             \/ file' = [f EXCEPT ![s].bytes = @ + n]
      PROVE  LimitsInv'
  <2>1. /\ s \in Open /\ file[s].bytes \in Nat /\ Open \subseteq Files
        /\ Cardinality(Open) \in Nat /\ BytesOf(Files \ removed) \in Nat
        /\ MaxTotal \in Nat /\ MaxPerSession \in Nat
    BY <1>2, <1>5, BytesFacts DEF Kept, Open
  <2>2. f \in [ArchiveSessions -> FileStates] /\ f[s] = file[s]
    BY <1>5, <2>1, LeavesFacts
  <2>3. f[s].exists /\ f[s].open
    BY <2>1, <2>2 DEF Open, Files
  <2>4. /\ \A u \in ArchiveSessions \ {s} : file'[u] = f[u]
        /\ file'[s].exists = f[s].exists /\ file'[s].open = f[s].open
        /\ file'[s].bytes = f[s].bytes + n
    <3> DEFINE r == f[s]
               g == [r EXCEPT !.out = Append(r.out, chunk), !.bytes = r.bytes + n]
               h == [r EXCEPT !.bytes = r.bytes + n]
    <3>1. file' = [f EXCEPT ![s] = g] \/ file' = [f EXCEPT ![s] = h]
      <4>1. CASE file' = [f EXCEPT ![s].out = Append(@, chunk), ![s].bytes = @ + n]
        <5>1. f \in [ArchiveSessions -> FileStates] /\ s \in ArchiveSessions
          BY <1>2, <2>2
        <5>2. [f EXCEPT ![s].out = Append(@, chunk), ![s].bytes = @ + n] =
                [f EXCEPT ![s] = [f[s] EXCEPT !.out = Append(f[s].out, chunk), !.bytes = f[s].bytes + n]]
          BY <5>1 DEF FileStates
        <5> QED BY <4>1, <5>2
      <4>2. CASE file' = [f EXCEPT ![s].bytes = @ + n]
        BY <4>2
      <4> QED BY <1>5, <4>1, <4>2
    <3>2. r \in FileStates
      BY <1>2, <2>2
    <3>3. /\ g.exists = r.exists /\ g.open = r.open /\ g.bytes = r.bytes + n
          /\ h.exists = r.exists /\ h.open = r.open /\ h.bytes = r.bytes + n
      <4> HIDE DEF r
      <4> QED BY ONLY <3>2 DEF FileStates
    <3> HIDE DEF r, g, h
    <3>4. /\ file'[s] = g \/ file'[s] = h
          /\ \A u \in ArchiveSessions \ {s} : file'[u] = f[u]
      BY <1>2, <2>2, <3>1
    <3> QED BY <3>3, <3>4 DEF r
  <2>5. n \in Nat /\ n <= size
    BY <1>2
  <2>6. BytesOf(Files \ removed) + Cardinality(Open) + n <= MaxTotal
    <3>1. BytesOf(Files \ removed) + (Cardinality(Open) + 0) + size <= MaxTotal
      BY <1>5 DEF Fits, Reserve
    <3> QED BY <1>2, <2>1, <2>5, <3>1
  <2>7. file[s].bytes + n + 1 <= MaxPerSession
    BY <1>2, <1>5, <2>1, <2>5
  <2>8. /\ \A u \in ArchiveSessions \ {s} : file'[u] = Without(removed)[u]
        /\ file'[s].exists /\ file'[s].open /\ file'[s].bytes = file[s].bytes + n
    BY <1>5, <2>2, <2>3, <2>4
  <2> QED BY <2>1, <2>5, <2>6, <2>7, <2>8, GrowthFits
<1>6. ASSUME Kept(s), ~(file[s].bytes + size + 1 > MaxPerSession), WriteChunk(s, size)
      PROVE  LimitsInv'
  <2>1. PICK removed \in IF Fits({}, 0, size) THEN {{}} ELSE Prunes(0, size) :
          \/ file' = Without(removed)
          \/ Fits(removed, 0, size) /\ file' = Written(s, removed, size)
          \/ /\ Fits(removed, 0, size)
             /\ \E left \in {0, size} : file' = [Without(removed) EXCEPT ![s].bytes = @ + left]
    BY <1>6 DEF WriteChunk
  <2>2. removed \in SUBSET (Files \ Open)
    BY <1>3
  <2>3. size \in {0, size}
    OBVIOUS
  <2>4. CASE Fits(removed, 0, size) /\ file' = Written(s, removed, size)
    BY <1>5, <1>6, <2>2, <2>3, <2>4 DEF Written, chunk
  <2>5. CASE /\ Fits(removed, 0, size)
             /\ \E left \in {0, size} : file' = [Without(removed) EXCEPT ![s].bytes = @ + left]
    BY <1>5, <1>6, <2>2, <2>5
  <2> QED BY <2>1, <2>2, <2>4, <2>5, RemovalFits
<1>7. ASSUME RotateFails(s, size) PROVE LimitsInv'
  BY <1>7, RemovalFits DEF RotateFails
<1> QED
  BY <1>4, <1>6, <1>7, LimitsAlone

LEMMA StepLimits ==
  ASSUME ArchiveInv, LimitsInv, [ArchiveNext]_archiveVars
  PROVE  LimitsInv'
<1>1. CASE UNCHANGED archiveVars \/ ShutdownArchive \/ WriterPanics
           \/ \E s \in ArchiveSessions : ArchiveSession(s)
  <2>1. CASE UNCHANGED archiveVars
    BY <2>1, LimitsAlone DEF archiveVars
  <2>2. CASE ShutdownArchive \/ WriterPanics
    BY <2>2, LimitsAlone DEF ShutdownArchive, WriterPanics
  <2>3. ASSUME NEW s \in ArchiveSessions, ArchiveSession(s) PROVE LimitsInv'
    <3>1. ClientFrame
      <4>1. PushNext(s) => ClientFrame
        BY ZenonT(30) DEF PushNext
      <4>2. StartSession(s) \/ PushSends(s) => ClientFrame
        BY DEF StartSession, PushSends
      <4>3. Seal(s) \/ Wait(s) => ClientFrame
        BY DEF Seal, Wait
      <4> QED BY <2>3, <4>1, <4>2, <4>3 DEF ArchiveSession
    <3> QED BY <3>1, LimitsAlone DEF ClientFrame
  <2> QED BY <1>1, <2>1, <2>2, <2>3
<1>2. CASE Receive \/ ReceiveTimesOut \/ FinishLooks \/ FinishDone
  <2>1. file' = file
    BY <1>2 DEF Receive, ReceiveTimesOut, FinishLooks, FinishDone
  <2> QED BY <2>1, LimitsAlone
<1>3. CASE Maintain
  <2>1. PICK removed \in SUBSET (Files \ Open) : file' = Without(removed)
    BY <1>3 DEF Maintain
  <2> QED BY <2>1, RemovalFits
<1>4. ASSUME NEW s \in ArchiveSessions, FinishArchive(s) PROVE LimitsInv'
  <2>1. s \in Open
    BY <1>4 DEF FinishArchive, ArchiveInv, WriterFits, Open
  <2>2. \/ file' = file
        \/ \E n \in 0 .. 1, footer \in {"none", "complete", "truncated"} : Closed(s, footer, n)
    <3>1. 1 \in 0 .. 1
      OBVIOUS
    <3> QED BY <1>4, <3>1 DEF FinishArchive
  <2> QED BY <2>1, <2>2, LimitsAlone, ClosedFits
<1> QED
  BY <1>1, <1>2, <1>3, <1>4, StartLimits, OutputLimits DEF ArchiveNext, WriterStep

LEMMA InitLimits ==
  ASSUME ArchiveInit
  PROVE  LimitsInv
<1>1. file = [s \in ArchiveSessions |-> NoFile]
  BY DEF ArchiveInit
<1>2. \A s \in ArchiveSessions : file[s].bytes = 0 /\ ~file[s].exists /\ ~file[s].open
  BY <1>1 DEF NoFile
<1>3. Files = {} /\ Open = {}
  BY <1>2 DEF Files, Open
<1>4. IsFiniteSet({}) /\ Cardinality({}) = 0
  BY FS_EmptySet
<1>5. UNION {{s} \X (1 .. file[s].bytes) : s \in {}} = {}
  OBVIOUS
<1>6. BytesOf(Files) = 0
  BY <1>3, <1>4, <1>5 DEF BytesOf
<1>7. MaxTotal \in Nat /\ MaxFiles \in Nat /\ MaxPerSession \in Nat
  BY ArchiveAssumption
<1> QED
  BY <1>2, <1>3, <1>4, <1>6, <1>7 DEF LimitsInv, WithinLimits

(* start, output and prune: whatever the sizes and limits, the files, with *)
(* the footers that are still to come, take no more than the total, there  *)
(* are no more of them than allowed, and none is longer than its limit.    *)
THEOREM LimitsAreKept == ArchiveSpec => []WithinLimits
<1>1. ArchiveInit => LimitsInv
  BY InitLimits
<1>2. ArchiveInv /\ LimitsInv /\ [ArchiveNext]_archiveVars => LimitsInv'
  BY StepLimits
<1>3. LimitsInv => WithinLimits
  BY DEF LimitsInv
<1> QED
  BY <1>1, <1>2, <1>3, ArchiveInvariant, PTL DEF ArchiveSpec

-----------------------------------------------------------------------------
(* SessionOutput: the bytes of texts and of chunks.                        *)

LEMMA LeastIs ==
  ASSUME NEW S \in SUBSET Nat, S # {}
  PROVE  Least(S) \in S /\ \A m \in S : Least(S) <= m
<1>1. \E n \in S : \A m \in S : n <= m
  BY LeastExists
<1> QED
  BY <1>1 DEF Least

LEMMA SuffixIs ==
  ASSUME NEW S, NEW s \in Seq(S), NEW n \in 0 .. Len(s)
  PROVE  /\ Suffix(s, n) \in Seq(S) /\ Len(Suffix(s, n)) = Len(s) - n
         /\ \A i \in 1 .. Len(s) - n : Suffix(s, n)[i] = s[n + i]
<1>1. Len(s) \in Nat /\ \A i \in 1 .. Len(s) : s[i] \in S
  BY LenProperties, ElementOfSeq
<1> DEFINE t == SubSeq(s, n + 1, Len(s))
<1>2. n + 1 \in Int /\ Len(s) \in Int /\ \A i \in n + 1 .. Len(s) : s[i] \in S
  BY <1>1
<1>3. /\ t \in Seq(S)
      /\ Len(t) = IF n + 1 <= Len(s) THEN Len(s) - (n + 1) + 1 ELSE 0
      /\ \A i \in 1 .. Len(s) - (n + 1) + 1 : t[i] = s[n + 1 + i - 1]
  BY <1>2, SubSeqProperties
<1> HIDE DEF t
<1>4. Len(t) = Len(s) - n
  BY <1>1, <1>3
<1>5. ASSUME NEW i \in 1 .. Len(s) - n PROVE t[i] = s[n + i]
  <2>1. i \in 1 .. Len(s) - (n + 1) + 1 /\ n + 1 + i - 1 = n + i
    BY <1>1
  <2> QED BY <1>3, <2>1
<1> QED
  BY <1>3, <1>4, <1>5 DEF Suffix, t

LEMMA TextBytesFinite ==
  ASSUME NEW text \in Texts
  PROVE  IsFiniteSet(BytesIn(text)) /\ Size(text) \in Nat
<1>1. DOMAIN text = 1 .. Len(text) /\ Len(text) \in Nat
  BY LenProperties DEF Texts
<1>2. IsFiniteSet(1 .. Len(text)) /\ IsFiniteSet(1 .. 3)
  <2>1. 1 \in Int /\ 3 \in Int /\ Len(text) \in Int
    BY <1>1
  <2> QED BY <2>1, FS_Interval
<1>3. IsFiniteSet((1 .. Len(text)) \X (1 .. 3))
  BY <1>2, FS_Product
<1>4. BytesIn(text) \in SUBSET ((1 .. Len(text)) \X (1 .. 3))
  BY <1>1 DEF BytesIn
<1>5. IsFiniteSet(BytesIn(text))
  BY <1>3, <1>4, FS_Subset
<1> QED
  BY <1>5, FS_CardinalityType DEF Size

LEMMA EmptyText == Size(<<>>) = 0 /\ SizeOf({}) = 0
<1>1. DOMAIN <<>> = {}
  <2>1. <<>> \in Seq(Chars) /\ Len(<<>>) = 0
    BY EmptySeq
  <2> QED BY <2>1, LenProperties
<1>2. BytesIn(<<>>) = {}
  BY <1>1 DEF BytesIn
<1>3. UNION {{c} \X BytesIn(c.text) : c \in {}} = {}
  OBVIOUS
<1> QED
  BY <1>2, <1>3, FS_EmptySet DEF Size, SizeOf

BytesOfChunks(S) == UNION {{c} \X BytesIn(c.text) : c \in S}

LEMMA ChunkBytesFinite ==
  ASSUME NEW S \in SUBSET TextChunks, IsFiniteSet(S)
  PROVE  /\ IsFiniteSet(BytesOfChunks(S))
         /\ SizeOf(S) = Cardinality(BytesOfChunks(S)) /\ SizeOf(S) \in Nat
<1> DEFINE f == [c \in S |-> {c} \X BytesIn(c.text)]
           T == {{c} \X BytesIn(c.text) : c \in S}
<1>1. f \in Surjection(S, T)
  BY DEF Surjection
<1>2. IsFiniteSet(T)
  BY <1>1, FS_Surjection
<1>3. \A x \in T : IsFiniteSet(x)
  <2> TAKE x \in T
  <2>1. PICK c \in S : x = {c} \X BytesIn(c.text)
    OBVIOUS
  <2>2. IsFiniteSet(BytesIn(c.text)) /\ IsFiniteSet({c})
    BY TextBytesFinite, FS_Singleton DEF TextChunks
  <2> QED BY <2>1, <2>2, FS_Product
<1>4. IsFiniteSet(UNION T)
  BY <1>2, <1>3, FS_UNION
<1>5. UNION T = BytesOfChunks(S)
  BY DEF BytesOfChunks
<1> QED
  BY <1>4, <1>5, FS_CardinalityType DEF SizeOf, BytesOfChunks

LEMMA SizeOfDisjoint ==
  ASSUME NEW S \in SUBSET TextChunks, NEW T \in SUBSET TextChunks,
         IsFiniteSet(S), IsFiniteSet(T), S \cap T = {}
  PROVE  SizeOf(S \cup T) = SizeOf(S) + SizeOf(T)
<1>1. BytesOfChunks(S \cup T) = BytesOfChunks(S) \cup BytesOfChunks(T)
  BY DEF BytesOfChunks
<1>2. BytesOfChunks(S) \cap BytesOfChunks(T) = {}
  BY DEF BytesOfChunks
<1>3. IsFiniteSet(BytesOfChunks(S)) /\ IsFiniteSet(BytesOfChunks(T))
  BY ChunkBytesFinite
<1>4. Cardinality(BytesOfChunks(S) \cup BytesOfChunks(T))
        = Cardinality(BytesOfChunks(S)) + Cardinality(BytesOfChunks(T))
  <2>1. Cardinality(BytesOfChunks(S)) \in Nat /\ Cardinality(BytesOfChunks(T)) \in Nat
    BY <1>3, FS_CardinalityType
  <2>2. Cardinality(BytesOfChunks(S) \cap BytesOfChunks(T)) = 0
    BY <1>2, FS_EmptySet
  <2>3. Cardinality(BytesOfChunks(S) \cup BytesOfChunks(T))
          = Cardinality(BytesOfChunks(S)) + Cardinality(BytesOfChunks(T))
              - Cardinality(BytesOfChunks(S) \cap BytesOfChunks(T))
    BY <1>3, FS_Union, Zenon
  <2> QED BY <2>1, <2>2, <2>3
<1>5. S \cup T \in SUBSET TextChunks /\ IsFiniteSet(S \cup T)
  BY FS_Union
<1>6. /\ SizeOf(S \cup T) = Cardinality(BytesOfChunks(S \cup T))
      /\ SizeOf(S) = Cardinality(BytesOfChunks(S))
      /\ SizeOf(T) = Cardinality(BytesOfChunks(T))
  BY <1>5, ChunkBytesFinite
<1> QED
  BY <1>1, <1>4, <1>6

LEMMA SizeOfChunk ==
  ASSUME NEW c \in TextChunks
  PROVE  SizeOf({c}) = Size(c.text)
<1>1. BytesOfChunks({c}) = {c} \X BytesIn(c.text)
  BY DEF BytesOfChunks
<1>2. IsFiniteSet({c}) /\ Cardinality({c}) = 1
  BY FS_Singleton
<1>3. IsFiniteSet(BytesIn(c.text)) /\ Cardinality(BytesIn(c.text)) \in Nat
  BY TextBytesFinite DEF TextChunks, Size
<1>4. Cardinality({c} \X BytesIn(c.text)) = 1 * Cardinality(BytesIn(c.text))
  BY <1>2, <1>3, FS_Product
<1>5. SizeOf({c}) = Cardinality(BytesOfChunks({c}))
  BY <1>2, ChunkBytesFinite
<1>6. Cardinality({c} \X BytesIn(c.text)) = Cardinality(BytesIn(c.text))
  BY <1>3, <1>4
<1> QED
  BY <1>1, <1>5, <1>6, Zenon DEF Size

-----------------------------------------------------------------------------
(* SessionOutput: a push keeps the ring exact.                             *)

LEMMA ClippedFits ==
  ASSUME NEW text \in Texts, MaxBytes \in Nat
  PROVE  Clipped(text) \in Texts /\ Size(Clipped(text)) \in 0 .. MaxBytes
<1> DEFINE S == {n \in 0 .. Len(text) : Size(Suffix(text, n)) <= MaxBytes}
<1>1. Len(text) \in Nat /\ \A i \in 1 .. Len(text) : text[i] \in Chars
  BY LenProperties, ElementOfSeq DEF Texts
<1>2. \A n \in 0 .. Len(text) : Suffix(text, n) \in Texts
  BY SuffixIs DEF Texts
<1>3. Len(text) \in S
  <2>1. Suffix(text, Len(text)) = <<>>
    <3>1. Len(text) + 1 \in Int /\ Len(text) \in Int /\ Len(text) < Len(text) + 1
      BY <1>1
    <3> QED BY <3>1, SubSeqEmpty DEF Suffix
  <2> QED BY <1>1, <2>1, EmptyText
<1>4. S \in SUBSET Nat /\ S # {}
  BY <1>1, <1>3
<1>5. Least(S) \in S
  BY <1>4, LeastIs
<1>6. Clipped(text) = Suffix(text, Least(S))
  BY DEF Clipped
<1>7. Size(Clipped(text)) \in Nat
  BY <1>2, <1>5, <1>6, TextBytesFinite
<1> QED
  BY <1>2, <1>5, <1>6, <1>7

LEMMA RingKept ==
  ASSUME RingInv, NEW text \in Texts \ {<<>>},
         ring' = push(text), pushed' = Append(pushed, text)
  PROVE  RingInv'
<1> DEFINE kept == Clipped(text)
           N == ring.next_seq
           m == Len(ring.chunks)
           c == [seq |-> N, text |-> kept]
           all == Append(ring.chunks, c)
           bytes == ring.bytes + Size(kept)
           left(n) == bytes - SizeOf({all[i] : i \in 1 .. n})
           S == {n \in 0 .. Len(all) : /\ left(n) <= MaxBytes \/ n = Len(all)
                                       /\ Len(all) - n <= MaxChunks}
           e == Least(S)
<1>1. MaxBytes \in Nat \ {0} /\ MaxChunks \in Nat \ {0}
  BY OutputAssumption
<1>2. /\ ring.chunks \in Seq(TextChunks) /\ ring.bytes \in Nat /\ N \in Nat
      /\ ring.truncated_seq \in Int /\ pushed \in Seq(Texts \ {<<>>}) /\ N = Len(pushed)
      /\ m \in Nat /\ DOMAIN ring.chunks = 1 .. m
      /\ \A i \in 1 .. m : ring.chunks[i].seq = N - 1 - m + i
      /\ ring.truncated_seq \in -1 .. N - 1
  BY LenProperties DEF RingInv, RingShape, Consecutive, Truncations
<1>n. N \in Nat /\ m \in Nat
  BY <1>2
<1>3. kept \in Texts /\ Size(kept) \in 0 .. MaxBytes
  BY <1>1, ClippedFits
<1>4. c \in TextChunks
  BY <1>2, <1>3 DEF TextChunks
<1>5. /\ all \in Seq(TextChunks) /\ Len(all) = m + 1 /\ all[m + 1] = c
      /\ \A i \in 1 .. m : all[i] = ring.chunks[i]
  <2> HIDE DEF c
  <2> QED BY <1>2, <1>4, AppendProperties
<1>6. \A i \in 1 .. m + 1 : all[i] \in TextChunks /\ all[i].seq = N - m - 1 + i
  <2> TAKE i \in 1 .. m + 1
  <2>1. all[i] \in TextChunks
    <3> HIDE DEF all
    <3> QED BY <1>5, ElementOfSeq
  <2>2. CASE i = m + 1
    <3>1. all[i].seq = N
      BY <1>5, <2>2
    <3> HIDE DEF all, N, m
    <3> QED BY <1>n, <2>1, <2>2, <3>1
  <2>3. CASE i \in 1 .. m
    <3>1. all[i] = ring.chunks[i] /\ ring.chunks[i].seq = N - 1 - m + i
      BY <1>2, <1>5, <2>3
    <3>2. all[i].seq = N - 1 - m + i
      BY <3>1
    <3> HIDE DEF all, N, m
    <3> QED BY <1>n, <2>1, <2>3, <3>2
  <2> QED BY <1>n, <2>2, <2>3
<1>7. /\ pushed' \in Seq(Texts \ {<<>>}) /\ Len(pushed') = N + 1 /\ pushed'[N + 1] = text
      /\ \A i \in 1 .. N : pushed'[i] = pushed[i]
  BY <1>2, AppendProperties
<1>8. /\ ring'.chunks = Suffix(all, e) /\ ring'.bytes = left(e) /\ ring'.next_seq = N + 1
      /\ ring'.truncated_seq = (IF kept # text THEN N ELSE ring.truncated_seq)
      /\ ring' = [chunks |-> ring'.chunks, bytes |-> ring'.bytes, next_seq |-> ring'.next_seq,
                  truncated_seq |-> ring'.truncated_seq]
  BY DEF push
<1> HIDE DEF N, m, all, kept, c
<1>a. \A i, j \in 1 .. m + 1 : all[i] = all[j] => i = j
  <2> SUFFICES ASSUME NEW i \in 1 .. m + 1, NEW j \in 1 .. m + 1, all[i] = all[j] PROVE i = j
    OBVIOUS
  <2>1. N - m - 1 + i = N - m - 1 + j
    BY <1>6
  <2> QED BY <1>2, <2>1
<1>b. Retained = {all[i] : i \in 1 .. m}
  <2>1. ASSUME NEW x \in Retained PROVE x \in {all[i] : i \in 1 .. m}
    <3>1. PICK i \in 1 .. m : x = ring.chunks[i]
      BY <1>2 DEF Retained
    <3> QED BY <1>5, <3>1
  <2>2. ASSUME NEW i \in 1 .. m PROVE all[i] \in Retained
    BY <1>2, <1>5 DEF Retained
  <2> QED BY <2>1, <2>2
<1>c. \A i \in 1 .. m + 1 : all[i] \in TextChunks
  BY <1>6
<1>9. \A n \in 0 .. m + 1 : left(n) = SizeOf({all[i] : i \in n + 1 .. m + 1}) /\ left(n) \in Nat
  <2> TAKE n \in 0 .. m + 1
  <2> DEFINE A == {all[i] : i \in 1 .. n}
             B == {all[i] : i \in n + 1 .. m + 1}
  <2>1. A \cup B = Retained \cup {c}
    <3>1. A \cup B = {all[i] : i \in 1 .. m + 1}
      BY <1>2
    <3>2. {all[i] : i \in 1 .. m + 1} = {all[i] : i \in 1 .. m} \cup {all[m + 1]}
      BY <1>2
    <3> QED BY <1>5, <1>b, <3>1, <3>2
  <2>2. A \cap B = {} /\ Retained \cap {c} = {}
    <3>1. A \cap B = {}
      <4> SUFFICES ASSUME NEW x \in A, x \in B PROVE FALSE
        OBVIOUS
      <4>1. PICK i \in 1 .. n : x = all[i]
        OBVIOUS
      <4>2. PICK j \in n + 1 .. m + 1 : x = all[j]
        OBVIOUS
      <4>3. i \in 1 .. m + 1 /\ j \in 1 .. m + 1 /\ i # j
        BY <1>n
      <4> QED BY <1>a, <4>1, <4>2, <4>3
    <3>2. \A i \in 1 .. m : all[i] # c
      <4> SUFFICES ASSUME NEW i \in 1 .. m, all[i] = all[m + 1] PROVE FALSE
        BY <1>5
      <4> QED BY <1>2, <1>a
    <3> QED BY <1>b, <3>1, <3>2
  <2>3. A \in SUBSET TextChunks /\ B \in SUBSET TextChunks /\ Retained \in SUBSET TextChunks
    <3>1. A \in SUBSET TextChunks
      BY <1>2, <1>c
    <3>2. B \in SUBSET TextChunks
      BY <1>2, <1>c
    <3> QED BY <1>2, <1>b, <1>c, <3>1, <3>2
  <2>4. IsFiniteSet(A) /\ IsFiniteSet(B) /\ IsFiniteSet(Retained) /\ IsFiniteSet({c})
    <3>1. 1 \in Int /\ n \in Int /\ n + 1 \in Int /\ m + 1 \in Int /\ m \in Int
      BY <1>2
    <3>2. IsFiniteSet(1 .. n) /\ IsFiniteSet(n + 1 .. m + 1) /\ IsFiniteSet(1 .. m)
      BY <3>1, FS_Interval
    <3>3. [i \in 1 .. n |-> all[i]] \in Surjection(1 .. n, A)
      BY DEF Surjection
    <3>4. [i \in n + 1 .. m + 1 |-> all[i]] \in Surjection(n + 1 .. m + 1, B)
      BY DEF Surjection
    <3>5. [i \in 1 .. m |-> all[i]] \in Surjection(1 .. m, Retained)
      BY <1>b DEF Surjection
    <3>6. IsFiniteSet(A)
      BY <3>2, <3>3, FS_Surjection
    <3>7. IsFiniteSet(B)
      BY <3>2, <3>4, FS_Surjection
    <3>8. IsFiniteSet(Retained)
      BY <3>2, <3>5, FS_Surjection
    <3> QED BY <3>6, <3>7, <3>8, FS_Singleton
  <2> HIDE DEF A, B
  <2>5. SizeOf(A \cup B) = SizeOf(A) + SizeOf(B)
    BY <2>2, <2>3, <2>4, SizeOfDisjoint
  <2>6. SizeOf(Retained \cup {c}) = SizeOf(Retained) + SizeOf({c})
    <3>1. {c} \in SUBSET TextChunks
      BY <1>4
    <3> QED BY <2>2, <2>3, <2>4, <3>1, SizeOfDisjoint
  <2>7. SizeOf({c}) = Size(kept) /\ SizeOf(Retained) = ring.bytes
    <3>1. c.text = kept
      BY DEF c
    <3> QED BY <1>4, <3>1, SizeOfChunk DEF RingInv, Bounded
  <2>8. SizeOf(A) \in Nat /\ SizeOf(B) \in Nat
    BY <2>3, <2>4, ChunkBytesFinite
  <2>9. left(n) = bytes - SizeOf(A)
    BY DEF A
  <2>10. bytes = SizeOf(A) + SizeOf(B)
    BY <2>1, <2>5, <2>6, <2>7
  <2>11. left(n) = SizeOf(B)
    <3> HIDE DEF bytes
    <3> QED BY <2>8, <2>9, <2>10
  <2> QED BY <2>8, <2>11 DEF B
<1> HIDE DEF left
<1>10. e \in S
  <2>1. m + 1 \in S
    BY <1>1, <1>2, <1>5
  <2>2. S \in SUBSET Nat
    BY <1>2, <1>5
  <2> QED BY <2>1, <2>2, LeastIs
<1> HIDE DEF e
<1>11. /\ e \in 0 .. m + 1 /\ m + 1 - e <= MaxChunks /\ (left(e) <= MaxBytes \/ e = m + 1)
  <2>1. /\ e \in 0 .. Len(all) /\ Len(all) - e <= MaxChunks
        /\ (left(e) <= MaxBytes \/ e = Len(all))
    BY <1>10
  <2>2. ASSUME NEW k, k = m + 1, e \in 0 .. k, k - e <= MaxChunks, left(e) <= MaxBytes \/ e = k
        PROVE  /\ e \in 0 .. m + 1 /\ m + 1 - e <= MaxChunks
               /\ (left(e) <= MaxBytes \/ e = m + 1)
    BY <2>2, <1>n
  <2>3. Len(all) = m + 1
    BY <1>5
  <2> QED BY <2>1, <2>2, <2>3, Zenon
<1>12. /\ ring'.chunks \in Seq(TextChunks) /\ Len(ring'.chunks) = m + 1 - e
       /\ \A i \in 1 .. m + 1 - e : ring'.chunks[i] = all[e + i]
  <2>1. /\ Suffix(all, e) \in Seq(TextChunks) /\ Len(Suffix(all, e)) = Len(all) - e
        /\ \A i \in 1 .. Len(all) - e : Suffix(all, e)[i] = all[e + i]
    <3>1. e \in 0 .. Len(all)
      BY <1>5, <1>11
    <3> QED BY <1>5, <3>1, SuffixIs
  <2>2. ring'.chunks = Suffix(all, e)
    BY <1>8
  <2>3. /\ ring'.chunks \in Seq(TextChunks) /\ Len(ring'.chunks) = Len(all) - e
        /\ \A i \in 1 .. Len(all) - e : ring'.chunks[i] = all[e + i]
    BY <2>1, <2>2, Zenon
  <2>4. ASSUME NEW k, k = m + 1, Len(ring'.chunks) = k - e,
               \A i \in 1 .. k - e : ring'.chunks[i] = all[e + i]
        PROVE  /\ Len(ring'.chunks) = m + 1 - e
               /\ \A i \in 1 .. m + 1 - e : ring'.chunks[i] = all[e + i]
    BY <2>4, <1>n, <1>11
  <2>5. Len(all) = m + 1
    BY <1>5
  <2> QED BY <2>3, <2>4, <2>5, Zenon
<1>13. DOMAIN ring'.chunks = 1 .. m + 1 - e
  BY <1>12, LenProperties
<1>14. Retained' = {all[i] : i \in e + 1 .. m + 1}
  <2>1. Retained' = {ring'.chunks[i] : i \in 1 .. m + 1 - e}
    BY <1>13 DEF Retained
  <2>2. ASSUME NEW x \in Retained' PROVE x \in {all[i] : i \in e + 1 .. m + 1}
    <3>1. PICK i \in 1 .. m + 1 - e : x = all[e + i]
      BY <1>12, <2>1
    <3> QED BY <1>n, <1>11, <3>1
  <2>3. ASSUME NEW i \in e + 1 .. m + 1 PROVE all[i] \in Retained'
    <3>1. i - e \in 1 .. m + 1 - e /\ ring'.chunks[i - e] = all[e + (i - e)] /\ e + (i - e) = i
      BY <1>n, <1>11, <1>12
    <3> QED BY <2>1, <3>1
  <2> QED BY <2>2, <2>3
<1>15. left(e) = SizeOf(Retained') /\ left(e) \in Nat
  BY <1>9, <1>11, <1>14
<1>16. RingShape'
  <2>1. ring'.truncated_seq \in Int /\ N + 1 \in Nat
    BY <1>2, <1>8
  <2> QED BY <1>7, <1>8, <1>12, <1>15, <2>1 DEF RingShape
<1>17. Consecutive'
  <2>1. ASSUME NEW i \in 1 .. m + 1 - e
        PROVE  ring'.chunks[i].seq = ring'.next_seq - 1 - (m + 1 - e) + i
    <3>1. e + i \in 1 .. m + 1 /\ ring'.chunks[i] = all[e + i]
      BY <1>n, <1>11, <1>12
    <3>2. all[e + i].seq = N - m - 1 + (e + i)
      BY <1>6, <3>1
    <3> QED BY <1>2, <1>8, <1>11, <3>1, <3>2
  <2> QED BY <1>7, <1>8, <1>12, <1>13, <2>1 DEF Consecutive
<1>18. Bounded'
  <2>1. left(e) <= MaxBytes
    <3>1. CASE e = m + 1
      <4>1. Retained' = {}
        BY <1>2, <1>14, <3>1
      <4> QED BY <1>1, <1>15, <4>1, EmptyText
    <3> QED BY <1>11, <3>1
  <2> QED BY <1>8, <1>11, <1>12, <1>15, <2>1 DEF Bounded
<1>19. Truncations'
  <2>1. ring.truncated_seq \in -1 .. N - 1
    BY <1>2
  <2>2. ring'.truncated_seq \in -1 .. ring'.next_seq - 1
    BY <1>2, <1>8, <2>1
  <2>3. ASSUME NEW x \in Retained'
        PROVE  /\ x.seq > ring'.truncated_seq => x.text = pushed'[x.seq + 1]
               /\ x.seq = ring'.truncated_seq => x.text # pushed'[x.seq + 1]
    <3>1. PICK i \in e + 1 .. m + 1 : x = all[i]
      BY <1>14
    <3>2. i \in 1 .. m + 1
      BY <1>2, <1>11
    <3>3. CASE i = m + 1
      <4>1. x.seq = N /\ x.text = kept
        BY <1>5, <3>1, <3>3 DEF c
      <4> QED BY <1>2, <1>7, <1>8, <2>1, <4>1
    <3>4. CASE i \in 1 .. m
      <4>1. x = ring.chunks[i] /\ x \in Retained
        BY <1>2, <1>5, <3>1, <3>4 DEF Retained
      <4>2. x.seq = N - m - 1 + i /\ x.seq \in Nat /\ x.seq < N
        <5>1. x.seq = N - m - 1 + i /\ x \in TextChunks
          BY <1>6, <3>1, <3>2
        <5> QED BY <1>2, <3>4, <5>1 DEF TextChunks
      <4>3. pushed'[x.seq + 1] = pushed[x.seq + 1]
        BY <1>2, <1>7, <4>2
      <4>4. /\ x.seq > ring.truncated_seq => x.text = pushed[x.seq + 1]
            /\ x.seq = ring.truncated_seq => x.text # pushed[x.seq + 1]
        BY <4>1 DEF RingInv, Truncations
      <4> QED BY <1>2, <1>8, <2>1, <4>2, <4>3, <4>4
    <3>5. i = m + 1 \/ i \in 1 .. m
      BY <1>n, <3>2
    <3> QED BY <3>3, <3>4, <3>5, Zenon
  <2> QED BY <2>2, <2>3 DEF Truncations
<1> QED
  BY <1>16, <1>17, <1>18, <1>19 DEF RingInv

(* A ring of which the invariant holds answers every client with the truth.*)
LEMMA AnswersAreExact ==
  ASSUME RingInv
  PROVE  OverrunIsExact
<1> DEFINE N == ring.next_seq
           m == Len(ring.chunks)
<1>1. /\ N \in Nat /\ m \in Nat /\ DOMAIN ring.chunks = 1 .. m
      /\ ring.truncated_seq \in -1 .. N - 1
      /\ \A i \in 1 .. m : ring.chunks[i] \in TextChunks /\ ring.chunks[i].seq = N - 1 - m + i
  BY LenProperties, ElementOfSeq DEF RingInv, RingShape, Consecutive, Truncations
<1>a. ring.chunks = <<>> <=> m = 0
    BY EmptySeq DEF RingInv, RingShape
<1>b. FirstSeq = IF ring.chunks = <<>> THEN N ELSE ring.chunks[1].seq
  BY DEF FirstSeq
<1>c. \A k : since(k).overrun <=> k < FirstSeq \/ k <= ring.truncated_seq
  BY DEF since
<1>d. \A k : since(k).chunks = {c \in Retained : c.seq >= k}
  BY DEF since
<1> HIDE DEF N, m
<1>e. \A c \in Retained : c.seq > ring.truncated_seq => c.text = pushed[c.seq + 1]
  BY DEF RingInv, Truncations
<1>n. N \in Nat /\ m \in Nat /\ ring.truncated_seq \in -1 .. N - 1
  BY <1>1
<1>2. FirstSeq = N - m
  BY <1>1, <1>a, <1>b
<1>3. \A c \in Retained : c \in TextChunks /\ c.seq \in N - m .. N - 1
  BY <1>1 DEF Retained
<1> SUFFICES ASSUME NEW cursor \in 0 .. N
             PROVE  LET r == since(cursor) IN
                    r.overrun <=> r.chunks # {[seq |-> n, text |-> pushed[n + 1]] : n \in cursor .. N - 1}
  BY DEF OverrunIsExact, N
<1> DEFINE all == {[seq |-> n, text |-> pushed[n + 1]] : n \in cursor .. N - 1}
           got == {c \in Retained : c.seq >= cursor}
<1>4. /\ since(cursor).overrun <=> cursor < N - m \/ cursor <= ring.truncated_seq
      /\ since(cursor).chunks = got
  BY <1>2, <1>c, <1>d
<1>5. CASE cursor < N - m
  <2>1. [seq |-> cursor, text |-> pushed[cursor + 1]] \in all
    BY <1>n, <1>5
  <2>2. [seq |-> cursor, text |-> pushed[cursor + 1]] \notin Retained
    BY <1>1, <1>3, <1>5
  <2> QED BY <1>4, <1>5, <2>1, <2>2
<1>6. CASE cursor <= ring.truncated_seq
  <2> DEFINE t == ring.truncated_seq
             c == [seq |-> t, text |-> pushed[t + 1]]
  <2>1. c \in all
    BY <1>n, <1>6
  <2>2. c \notin Retained
    <3> SUFFICES ASSUME c \in Retained PROVE FALSE
      OBVIOUS
    <3>1. c.seq = t /\ c.text = pushed[c.seq + 1]
      OBVIOUS
    <3> HIDE DEF c
    <3> QED BY <3>1 DEF RingInv, Truncations
  <2> QED BY <1>4, <1>6, <2>1, <2>2
<1>7. CASE ~ (cursor < N - m) /\ ~ (cursor <= ring.truncated_seq)
  <2>1. ASSUME NEW c \in got PROVE c \in all
    <3>1. c \in Retained /\ c \in TextChunks /\ c.seq \in cursor .. N - 1
      BY <1>1, <1>3
    <3>2. c.text = pushed[c.seq + 1]
      BY <1>1, <1>7, <3>1 DEF RingInv, Truncations
    <3>3. c = [seq |-> c.seq, text |-> c.text]
      BY <3>1 DEF TextChunks
    <3> QED BY <3>1, <3>2, <3>3
  <2>2. ASSUME NEW n \in cursor .. N - 1 PROVE [seq |-> n, text |-> pushed[n + 1]] \in got
    <3> DEFINE i == n - (N - m) + 1
    <3>1. i \in 1 .. m /\ N - 1 - m + i = n
      BY <1>n, <1>7
    <3> HIDE DEF i
    <3>2. /\ ring.chunks[i] \in Retained /\ ring.chunks[i] \in TextChunks
          /\ ring.chunks[i].seq = n
      BY <1>1, <3>1 DEF Retained
    <3>3. ring.chunks[i].text = pushed[n + 1]
      <4>1. n > ring.truncated_seq
        BY <1>n, <1>7
      <4> QED BY <1>e, <3>2, <4>1
    <3>4. ring.chunks[i] = [seq |-> n, text |-> pushed[n + 1]]
      BY <3>2, <3>3 DEF TextChunks
    <3> QED BY <3>2, <3>4
  <2>3. got = all
    BY <2>1, <2>2
  <2> QED BY <1>4, <1>7, <2>3
<1> QED
  BY <1>5, <1>6, <1>7

-----------------------------------------------------------------------------
(* SessionOutput: what the decoder does in one round of its loop.          *)

(* Induction from the end of a sequence to its beginning.                  *)
LEMMA DownInduction ==
  ASSUME NEW n \in Nat, NEW S, \A i \in 1 .. n + 1 : (\A j \in i + 1 .. n + 1 : j \in S) => i \in S
  PROVE  1 .. n + 1 \subseteq S
<1> DEFINE T == {m \in Nat : \A j \in 1 .. n + 1 : j >= n + 2 - m => j \in S}
<1>1. 0 \in T
  OBVIOUS
<1>2. \A m \in Nat : m \in T => m + 1 \in T
  <2> SUFFICES ASSUME NEW m \in Nat, m \in T, NEW j \in 1 .. n + 1, j >= n + 2 - (m + 1)
               PROVE  j \in S
    OBVIOUS
  <2>1. \A k \in j + 1 .. n + 1 : k \in S
    <3> TAKE k \in j + 1 .. n + 1
    <3>1. k \in 1 .. n + 1 /\ k >= n + 2 - m
      OBVIOUS
    <3> QED BY <3>1
  <2> QED BY <2>1
<1> HIDE DEF T
<1>3. Nat \subseteq T
  BY <1>1, <1>2, SetInduction
<1>4. n + 1 \in T
  BY <1>3
<1> QED
  BY <1>4 DEF T

LEMMA NeedIs ==
  ASSUME NEW b \in Bytes
  PROVE  /\ Need(b) \in 0 .. 3 /\ (Need(b) = 0 <=> b = "C")
         /\ b # "C" => CharOf[b] \in Chars
  BY DEF Bytes, Need, CharOf, Chars

Ends(bytes, i, j) ==
  /\ j \in i + 1 .. Len(bytes) + 1
  /\ j >= i + Need(bytes[i]) \/ j = Len(bytes) + 1 \/ bytes[j] # "C"
  /\ \A k \in i + 1 .. j - 1 : k < i + Need(bytes[i]) /\ bytes[k] = "C"

LEMMA BehindIs ==
  ASSUME NEW bytes \in Seq(Bytes), NEW i \in 1 .. Len(bytes)
  PROVE  Ends(bytes, i, Behind(bytes, i))
<1> DEFINE S == {j \in i + 1 .. Len(bytes) + 1 :
                   j >= i + Need(bytes[i]) \/ j = Len(bytes) + 1 \/ bytes[j] # "C"}
<1>1. Len(bytes) \in Nat
  BY LenProperties
<1>2. bytes[i] \in Bytes /\ Need(bytes[i]) \in 0 .. 3
  BY ElementOfSeq, NeedIs
<1>3. Len(bytes) + 1 \in S /\ S \in SUBSET Nat
  BY <1>1
<1>4. Least(S) \in S /\ \A m \in S : Least(S) <= m
  BY <1>3, LeastIs
<1>5. Behind(bytes, i) = Least(S)
  BY DEF Behind
<1>6. ASSUME NEW k \in i + 1 .. Least(S) - 1
      PROVE  k < i + Need(bytes[i]) /\ bytes[k] = "C"
  <2>1. k \in i + 1 .. Len(bytes) + 1 /\ k < Least(S)
    BY <1>1, <1>4
  <2>2. k \notin S
    BY <1>1, <1>4, <2>1
  <2> QED BY <1>2, <2>1, <2>2
<1> QED
  BY <1>4, <1>5, <1>6 DEF Ends

LEMMA BehindUnique ==
  ASSUME NEW bytes \in Seq(Bytes), NEW i \in 1 .. Len(bytes), NEW j, Ends(bytes, i, j)
  PROVE  Behind(bytes, i) = j
<1> DEFINE b == Behind(bytes, i)
<1>1. Ends(bytes, i, b)
  BY BehindIs
<1>2. Len(bytes) \in Nat /\ Need(bytes[i]) \in 0 .. 3
  BY LenProperties, ElementOfSeq, NeedIs
<1>3. b \in i + 1 .. Len(bytes) + 1 /\ j \in i + 1 .. Len(bytes) + 1
  BY <1>1 DEF Ends
<1> HIDE DEF b
<1>4. ~ (b < j)
  <2> SUFFICES ASSUME b < j PROVE FALSE
    OBVIOUS
  <2>1. b \in i + 1 .. j - 1 /\ b # Len(bytes) + 1
    BY <1>2, <1>3
  <2>2. b < i + Need(bytes[i]) /\ bytes[b] = "C"
    BY <2>1 DEF Ends
  <2> QED BY <1>1, <1>2, <1>3, <2>1, <2>2 DEF Ends
<1>5. ~ (j < b)
  <2> SUFFICES ASSUME j < b PROVE FALSE
    OBVIOUS
  <2>1. j \in i + 1 .. b - 1 /\ j # Len(bytes) + 1
    BY <1>2, <1>3
  <2>2. j < i + Need(bytes[i]) /\ bytes[j] = "C"
    BY <1>1, <2>1 DEF Ends
  <2> QED BY <1>2, <1>3, <2>1, <2>2 DEF Ends
<1>6. b = j
  BY <1>2, <1>3, <1>4, <1>5
<1> QED
  BY <1>6 DEF b

LEMMA CharAtIs ==
  ASSUME NEW bytes \in Seq(Bytes), NEW i \in 1 .. Len(bytes)
  PROVE  CharAt(bytes, i) \in Chars
<1>1. bytes[i] \in Bytes /\ Behind(bytes, i) \in i + 1 .. Len(bytes) + 1
  BY BehindIs, ElementOfSeq DEF Ends
<1>2. Need(bytes[i]) \in 0 .. 3 /\ (Need(bytes[i]) = 0 <=> bytes[i] = "C")
      /\ (bytes[i] # "C" => CharOf[bytes[i]] \in Chars)
  BY <1>1, NeedIs
<1>3. CASE Behind(bytes, i) = i + Need(bytes[i])
  <2>1. bytes[i] # "C"
    BY <1>1, <1>2, <1>3
  <2> QED BY <1>2, <1>3, <2>1 DEF CharAt
<1>4. CASE Behind(bytes, i) # i + Need(bytes[i])
  BY <1>4 DEF CharAt, Chars
<1> QED
  BY <1>3, <1>4

Decodings == [text : Texts, pending : Seq(Bytes)]

(* A round that ends the loop, and one that takes a character.             *)
Stops(bytes, i) == i > Len(bytes) \/ Waits(bytes, i)
Stopped(bytes, i) == [text |-> <<>>, pending |-> SubSeq(bytes, i, Len(bytes))]
Taken(bytes, i, rest) == [rest EXCEPT !.text = <<CharAt(bytes, i)>> \o @]
Round(bytes, f, i) ==
  IF Stops(bytes, i) THEN Stopped(bytes, i) ELSE Taken(bytes, i, f[Behind(bytes, i)])

LEMMA StoppedIs ==
  ASSUME NEW bytes \in Seq(Bytes), NEW i \in 1 .. Len(bytes) + 1
  PROVE  /\ Stopped(bytes, i) \in Decodings
         /\ Stopped(bytes, i) = [text |-> <<>>, pending |-> Suffix(bytes, i - 1)]
<1>1. Len(bytes) \in Nat
  BY LenProperties
<1>2. i - 1 \in 0 .. Len(bytes) /\ i - 1 + 1 = i
  BY <1>1
<1>3. Suffix(bytes, i - 1) \in Seq(Bytes)
  BY <1>2, SuffixIs
<1>4. Suffix(bytes, i - 1) = SubSeq(bytes, i, Len(bytes))
  BY <1>2 DEF Suffix
<1>5. <<>> \in Texts
  BY EmptySeq DEF Texts
<1> QED
  BY <1>3, <1>4, <1>5 DEF Stopped, Decodings

LEMMA TakenIs ==
  ASSUME NEW bytes \in Seq(Bytes), NEW i \in 1 .. Len(bytes), NEW rest \in Decodings
  PROVE  /\ Taken(bytes, i, rest) \in Decodings
         /\ Taken(bytes, i, rest) = [text |-> <<CharAt(bytes, i)>> \o rest.text, pending |-> rest.pending]
<1>1. CharAt(bytes, i) \in Chars
  BY CharAtIs
<1>2. <<CharAt(bytes, i)>> \in Seq(Chars)
  BY <1>1
<1>3. rest.text \in Seq(Chars) /\ rest.pending \in Seq(Bytes)
  BY DEF Decodings, Texts
<1>4. <<CharAt(bytes, i)>> \o rest.text \in Texts
  BY <1>2, <1>3, ConcatProperties DEF Texts
<1>5. Taken(bytes, i, rest) = [text |-> <<CharAt(bytes, i)>> \o rest.text, pending |-> rest.pending]
  <2> DEFINE new == <<CharAt(bytes, i)>> \o rest.text
  <2>1. Taken(bytes, i, rest) = [rest EXCEPT !.text = new]
    BY DEF Taken
  <2> HIDE DEF new
  <2>2. ASSUME NEW T, NEW P, NEW r \in [text : T, pending : P]
        PROVE  [r EXCEPT !.text = new] = [text |-> new, pending |-> r.pending]
    OBVIOUS
  <2>3. [rest EXCEPT !.text = new] = [text |-> new, pending |-> rest.pending]
    BY <2>2 DEF Decodings
  <2> QED BY <2>1, <2>3 DEF new
<1> QED
  BY <1>3, <1>4, <1>5 DEF Decodings

-----------------------------------------------------------------------------
(* SessionOutput: the loop as a whole.                                     *)

IsDecoding(bytes, f) == f = [i \in 1 .. Len(bytes) + 1 |-> Round(bytes, f, i)]

(* A round depends on what f is behind it only.                            *)
LEMMA RoundIs ==
  ASSUME NEW bytes \in Seq(Bytes), NEW i \in 1 .. Len(bytes) + 1, NEW f, NEW g,
         ~ Stops(bytes, i) => /\ f[Behind(bytes, i)] \in Decodings
                              /\ g[Behind(bytes, i)] = f[Behind(bytes, i)]
  PROVE  Round(bytes, f, i) \in Decodings /\ Round(bytes, g, i) = Round(bytes, f, i)
<1>1. CASE Stops(bytes, i)
  BY <1>1, StoppedIs DEF Round
<1>2. CASE ~ Stops(bytes, i)
  <2>1. i \in 1 .. Len(bytes)
    BY <1>2, LenProperties DEF Stops
  <2> QED BY <1>2, <2>1, TakenIs DEF Round
<1> QED
  BY <1>1, <1>2

LEMMA BehindInside ==
  ASSUME NEW bytes \in Seq(Bytes), NEW i \in 1 .. Len(bytes) + 1, ~ Stops(bytes, i)
  PROVE  i \in 1 .. Len(bytes) /\ Behind(bytes, i) \in i + 1 .. Len(bytes) + 1
<1>1. i \in 1 .. Len(bytes)
  BY LenProperties DEF Stops
<1> QED
  BY <1>1, BehindIs DEF Ends

LEMMA DecodingExists ==
  ASSUME NEW bytes \in Seq(Bytes)
  PROVE  \E f : IsDecoding(bytes, f)
<1> DEFINE n == Len(bytes)
           From(m, g) == /\ g \in [m .. n + 1 -> Decodings]
                         /\ \A i \in m .. n + 1 : g[i] = Round(bytes, g, i)
           S == {m \in 1 .. n + 1 : \E g : From(m, g)}
<1>1. n \in Nat
  BY LenProperties
<1>2. ASSUME NEW i \in 1 .. n + 1, \A j \in i + 1 .. n + 1 : j \in S
      PROVE  i \in S
  <2>1. PICK f : i = n + 1 \/ From(i + 1, f)
    <3>1. CASE i = n + 1
      BY <3>1
    <3>2. CASE i # n + 1
      <4>1. i + 1 \in S
        BY <1>1, <1>2, <3>2
      <4> QED BY <4>1
    <3> QED BY <3>1, <3>2
  <2>2. /\ \A k \in i + 1 .. n + 1 : f[k] \in Decodings /\ f[k] = Round(bytes, f, k)
    <3>1. CASE i = n + 1
      BY <1>1, <3>1
    <3>2. CASE From(i + 1, f)
      BY <3>2
    <3> QED BY <2>1, <3>1, <3>2
  <2> DEFINE g == [k \in i .. n + 1 |-> IF k = i THEN Round(bytes, f, i) ELSE f[k]]
  <2>3. \A k \in i .. n + 1 : ~ Stops(bytes, k) => Behind(bytes, k) \in i + 1 .. n + 1
    <3> TAKE k \in i .. n + 1
    <3> HAVE ~ Stops(bytes, k)
    <3>1. k \in 1 .. n + 1
      BY <1>1
    <3>2. Behind(bytes, k) \in k + 1 .. n + 1
      BY <3>1, BehindInside
    <3> QED BY <1>1, <3>1, <3>2
  <2>4. \A k \in i + 1 .. n + 1 : g[k] = f[k] /\ g[k] \in Decodings
    BY <1>1, <2>2
  <2>5. \A k \in i .. n + 1 : /\ Round(bytes, f, k) \in Decodings
                              /\ Round(bytes, g, k) = Round(bytes, f, k)
    <3> TAKE k \in i .. n + 1
    <3>1. k \in 1 .. Len(bytes) + 1
      BY <1>1
    <3>2. ~ Stops(bytes, k) => /\ f[Behind(bytes, k)] \in Decodings
                               /\ g[Behind(bytes, k)] = f[Behind(bytes, k)]
      <4> HIDE DEF g, n
      <4> QED BY <2>3, <2>4
    <3> HIDE DEF g
    <3> QED BY <3>1, <3>2, RoundIs
  <2>6. \A k \in i .. n + 1 : g[k] = Round(bytes, f, k)
    <3> TAKE k \in i .. n + 1
    <3>1. CASE k = i
      BY <3>1
    <3>2. CASE k # i
      <4>1. k \in i + 1 .. n + 1
        BY <1>1, <3>2
      <4> QED BY <2>2, <2>4, <4>1
    <3> QED BY <3>1, <3>2
  <2>7. g \in [i .. n + 1 -> Decodings]
    <3>1. \A k \in i .. n + 1 : g[k] \in Decodings
      BY <2>5, <2>6
    <3> QED BY <3>1
  <2>8. \A k \in i .. n + 1 : g[k] = Round(bytes, g, k)
    BY <2>5, <2>6
  <2>9. From(i, g)
    BY <2>7, <2>8
  <2> HIDE DEF From
  <2> QED BY <2>9
<1> HIDE DEF S, n
<1>3. 1 .. n + 1 \subseteq S
  BY <1>1, <1>2, DownInduction
<1>4. 1 \in S
  BY <1>1, <1>3
<1>5. PICK g : From(1, g)
  BY <1>4 DEF S
<1>6. g = [i \in 1 .. n + 1 |-> Round(bytes, g, i)]
  BY <1>5
<1> QED
  BY <1>6 DEF n, IsDecoding

(* The loop and its rounds.                                                *)
LEMMA DecodingIs ==
  ASSUME NEW bytes \in Seq(Bytes)
  PROVE  /\ \A i \in 1 .. Len(bytes) + 1 : Decoding(bytes)[i] = Round(bytes, Decoding(bytes), i)
         /\ \A i \in 1 .. Len(bytes) + 1 : Decoding(bytes)[i] \in Decodings
<1> DEFINE n == Len(bytes)
           F == Decoding(bytes)
           S == {i \in 1 .. n + 1 : F[i] \in Decodings}
<1>1. n \in Nat
  BY LenProperties
<1>2. F = CHOOSE f : IsDecoding(bytes, f)
  BY DEF Decoding, IsDecoding, Round, Stops, Stopped, Taken
<1>3. IsDecoding(bytes, F)
  <2>1. \E f : IsDecoding(bytes, f)
    BY DecodingExists
  <2> HIDE DEF F
  <2> QED BY <1>2, <2>1, Zenon
<1> HIDE DEF F
<1>4. \A i \in 1 .. n + 1 : F[i] = Round(bytes, F, i)
  BY <1>3 DEF IsDecoding
<1>5. ASSUME NEW i \in 1 .. n + 1, \A j \in i + 1 .. n + 1 : j \in S
      PROVE  i \in S
  <2>1. ~ Stops(bytes, i) => F[Behind(bytes, i)] \in Decodings
    BY <1>1, <1>5, BehindInside
  <2>2. Round(bytes, F, i) \in Decodings
    <3>1. i \in 1 .. Len(bytes) + 1
      OBVIOUS
    <3> QED BY <2>1, <3>1, RoundIs
  <2> QED BY <1>4, <2>2
<1> HIDE DEF S, n
<1>6. 1 .. n + 1 \subseteq S
  BY <1>1, <1>5, DownInduction
<1>7. \A i \in 1 .. n + 1 : F[i] \in Decodings
  BY <1>6 DEF S
<1> QED
  BY <1>4, <1>7 DEF F, n

-----------------------------------------------------------------------------
(* SessionOutput: a stream that is cut is decoded as if it were whole.     *)

LEMMA SuffixOfSuffix ==
  ASSUME NEW S, NEW x \in Seq(S), NEW s \in 0 .. Len(x), NEW k \in 0 .. Len(x) - s
  PROVE  Suffix(Suffix(x, s), k) = Suffix(x, s + k)
<1> DEFINE z == Suffix(x, s)
           u == Suffix(z, k)
           q == s + k
           v == Suffix(x, q)
<1>1. Len(x) \in Nat /\ q \in 0 .. Len(x) /\ q = s + k
  BY LenProperties
<1> HIDE DEF q
<1>2. z \in Seq(S) /\ Len(z) = Len(x) - s /\ \A i \in 1 .. Len(x) - s : z[i] = x[s + i]
  BY SuffixIs
<1>3. v \in Seq(S) /\ Len(v) = Len(x) - q /\ \A i \in 1 .. Len(x) - q : v[i] = x[q + i]
  BY <1>1, SuffixIs
<1> HIDE DEF z
<1>4. u \in Seq(S) /\ Len(u) = Len(z) - k /\ \A i \in 1 .. Len(z) - k : u[i] = z[k + i]
  <2>1. k \in 0 .. Len(z)
    BY <1>2
  <2> QED BY <1>2, <2>1, SuffixIs
<1> HIDE DEF u, v
<1>5. Len(u) = Len(v)
  <2>1. Len(u) = Len(z) - k /\ Len(z) = Len(x) - s /\ Len(v) = Len(x) - q
    BY <1>2, <1>3, <1>4
  <2> QED BY <1>1, <2>1
<1>6. ASSUME NEW i \in 1 .. Len(u) PROVE u[i] = v[i]
  <2>1. i \in 1 .. Len(z) - k /\ k + i \in 1 .. Len(x) - s /\ i \in 1 .. Len(x) - q
    BY <1>1, <1>2, <1>4
  <2>2. u[i] = z[k + i] /\ z[k + i] = x[s + (k + i)] /\ v[i] = x[q + i]
    BY <1>2, <1>3, <1>4, <2>1
  <2>3. s + (k + i) = q + i
    BY <1>1, <2>1
  <2> QED BY <2>2, <2>3
<1>7. u = v
  BY <1>3, <1>4, <1>5, <1>6, SeqEqual
<1> QED
  BY <1>7 DEF u, v, z, q

LEMMA SuffixOfConcat ==
  ASSUME NEW S, NEW a \in Seq(S), NEW b \in Seq(S), NEW s \in 0 .. Len(a)
  PROVE  Suffix(a, s) \o b = Suffix(a \o b, s)
<1> DEFINE x == a \o b
           z == Suffix(a, s)
           u == z \o b
           v == Suffix(x, s)
<1>1. Len(a) \in Nat /\ Len(b) \in Nat
  BY LenProperties
<1>2. /\ x \in Seq(S) /\ Len(x) = Len(a) + Len(b)
      /\ \A i \in 1 .. Len(a) + Len(b) : x[i] = IF i <= Len(a) THEN a[i] ELSE b[i - Len(a)]
  BY ConcatProperties
<1>3. z \in Seq(S) /\ Len(z) = Len(a) - s /\ \A i \in 1 .. Len(a) - s : z[i] = a[s + i]
  BY SuffixIs
<1> HIDE DEF x, z
<1>4. /\ u \in Seq(S) /\ Len(u) = Len(z) + Len(b)
      /\ \A i \in 1 .. Len(z) + Len(b) : u[i] = IF i <= Len(z) THEN z[i] ELSE b[i - Len(z)]
  BY <1>3, ConcatProperties
<1>5. v \in Seq(S) /\ Len(v) = Len(x) - s /\ \A i \in 1 .. Len(x) - s : v[i] = x[s + i]
  <2>1. s \in 0 .. Len(x)
    BY <1>1, <1>2
  <2> QED BY <1>2, <2>1, SuffixIs
<1> HIDE DEF u, v
<1>6. Len(u) = Len(v)
  BY <1>1, <1>2, <1>3, <1>4, <1>5
<1>7. ASSUME NEW i \in 1 .. Len(u) PROVE u[i] = v[i]
  <2>1. i \in 1 .. Len(z) + Len(b) /\ i \in 1 .. Len(x) - s /\ s + i \in 1 .. Len(a) + Len(b)
    BY <1>1, <1>2, <1>3, <1>4
  <2>2. v[i] = x[s + i]
    BY <1>5, <2>1
  <2>3. CASE i <= Len(z)
    <3>1. i \in 1 .. Len(a) - s /\ s + i <= Len(a)
      BY <1>1, <1>3, <2>1, <2>3
    <3>2. u[i] = z[i] /\ z[i] = a[s + i] /\ x[s + i] = a[s + i]
      BY <1>2, <1>3, <1>4, <2>1, <2>3, <3>1
    <3> QED BY <2>2, <3>2
  <2>4. CASE ~ (i <= Len(z))
    <3>1. ~ (s + i <= Len(a)) /\ s + i - Len(a) = i - Len(z)
      BY <1>1, <1>3, <2>1, <2>4
    <3>2. u[i] = b[i - Len(z)]
      BY <1>4, <2>1, <2>4
    <3>3. x[s + i] = b[s + i - Len(a)]
      <4> DEFINE k == s + i
      <4>1. k \in 1 .. Len(a) + Len(b) /\ ~ (k <= Len(a))
        BY <2>1, <3>1
      <4> HIDE DEF k
      <4>2. x[k] = b[k - Len(a)]
        BY <1>2, <4>1
      <4> QED BY <4>2 DEF k
    <3> QED BY <2>2, <3>1, <3>2, <3>3
  <2> QED BY <2>3, <2>4
<1>8. u = v
  BY <1>4, <1>5, <1>6, <1>7, SeqEqual
<1> QED
  BY <1>8 DEF u, v, z, x

(* What is decoded from a place on depends on the bytes from there on.     *)
LEMMA DecodingShifts ==
  ASSUME NEW x \in Seq(Bytes), NEW s \in 0 .. Len(x)
  PROVE  \A i \in 1 .. Len(x) - s + 1 : Decoding(x)[s + i] = Decoding(Suffix(x, s))[i]
<1> DEFINE z == Suffix(x, s)
           n == Len(x) - s
           S == {i \in 1 .. n + 1 : Decoding(x)[s + i] = Decoding(z)[i]}
<1>1. Len(x) \in Nat /\ n \in Nat
  BY LenProperties
<1>2. z \in Seq(Bytes) /\ Len(z) = n /\ \A i \in 1 .. n : z[i] = x[s + i]
  BY SuffixIs
<1>a. \A k \in 0 .. n : Suffix(z, k) = Suffix(x, s + k)
  BY SuffixOfSuffix
<1> HIDE DEF z
<1>3. ASSUME NEW i \in 1 .. n + 1, \A j \in i + 1 .. n + 1 : j \in S
      PROVE  i \in S
  <2>1. /\ s + i \in 1 .. Len(x) + 1 /\ i \in 1 .. Len(z) + 1
        /\ (s + i \in 1 .. Len(x) <=> i \in 1 .. n) /\ (i > Len(z) <=> s + i > Len(x))
    BY <1>1, <1>2
  <2>2. /\ Decoding(x)[s + i] = Round(x, Decoding(x), s + i)
        /\ Decoding(z)[i] = Round(z, Decoding(z), i)
    BY <1>2, <2>1, DecodingIs
  <2>3. ASSUME i \in 1 .. n
        PROVE  /\ Behind(x, s + i) = s + Behind(z, i)
               /\ Behind(z, i) \in i + 1 .. n + 1 /\ x[s + i] = z[i] /\ Need(z[i]) \in 0 .. 3
    <3> DEFINE j == Behind(z, i)
    <3>1. Ends(z, i, j) /\ z[i] = x[s + i] /\ z[i] \in Bytes
      BY <1>2, <2>3, BehindIs, ElementOfSeq
    <3>2. j \in i + 1 .. n + 1 /\ Need(z[i]) \in 0 .. 3
      BY <1>2, <3>1, NeedIs DEF Ends
    <3> DEFINE d == Need(z[i])
    <3>n. Need(x[s + i]) = d /\ d \in 0 .. 3
      BY <3>1, <3>2
    <3> HIDE DEF j, d
    <3>3. s + j \in s + i + 1 .. Len(x) + 1
      BY <1>1, <3>2
    <3>4. s + j >= s + i + d \/ s + j = Len(x) + 1 \/ x[s + j] # "C"
      <4>1. CASE j >= i + d
        BY <3>2, <3>n, <4>1
      <4>2. CASE j = Len(z) + 1
        BY <1>1, <1>2, <3>2, <4>2
      <4>3. CASE z[j] # "C" /\ j # Len(z) + 1
        <5>1. j \in 1 .. n
          <6>1. j # n + 1
            BY <1>2, <4>3
          <6> QED BY <1>1, <3>2, <6>1
        <5>2. x[s + j] = z[j]
          BY <1>2, <5>1
        <5> QED BY <4>3, <5>2
      <4>4. j >= i + d \/ j = Len(z) + 1 \/ z[j] # "C"
        BY <3>1 DEF Ends, d
      <4> QED BY <4>1, <4>2, <4>3, <4>4
    <3>5. ASSUME NEW k \in s + i + 1 .. (s + j) - 1
          PROVE  k < s + i + d /\ x[k] = "C"
      <4>1. k - s \in i + 1 .. j - 1 /\ k - s \in 1 .. n /\ s + (k - s) = k
        BY <1>1, <3>2
      <4>2. k - s < i + d /\ z[k - s] = "C"
        BY <3>1, <4>1 DEF Ends, d
      <4>3. x[k] = "C"
        BY <1>2, <4>1, <4>2
      <4> QED BY <3>n, <4>1, <4>2, <4>3
    <3>6. Ends(x, s + i, s + j)
      <4>1. s + j >= s + i + Need(x[s + i]) \/ s + j = Len(x) + 1 \/ x[s + j] # "C"
        BY <3>4, <3>n, Zenon
      <4>2. \A k \in s + i + 1 .. (s + j) - 1 : k < s + i + Need(x[s + i]) /\ x[k] = "C"
        BY <3>5, <3>n, Zenon
      <4>3. Ends(x, s + i, s + j) <=>
              /\ s + j \in s + i + 1 .. Len(x) + 1
              /\ s + j >= s + i + Need(x[s + i]) \/ s + j = Len(x) + 1 \/ x[s + j] # "C"
              /\ \A k \in s + i + 1 .. (s + j) - 1 : k < s + i + Need(x[s + i]) /\ x[k] = "C"
        BY DEF Ends
      <4> QED BY <3>3, <4>1, <4>2, <4>3, Zenon
    <3>7. Behind(x, s + i) = s + j
      BY <2>1, <2>3, <3>6, BehindUnique
    <3> QED BY <3>1, <3>2, <3>7 DEF j
  <2>4. Stops(x, s + i) <=> Stops(z, i)
    <3>1. CASE i \in 1 .. n
      <4>1. Waits(x, s + i) <=> Waits(z, i)
        <5> DEFINE j == Behind(z, i)
                   d == Need(z[i])
        <5>1. /\ Behind(x, s + i) = s + j /\ Need(x[s + i]) = d
              /\ j \in i + 1 .. n + 1 /\ d \in 0 .. 3
          BY <2>3, <3>1
        <5> HIDE DEF j, d
        <5>2. s + j = Len(x) + 1 /\ Len(x) + 1 < s + i + d <=> j = n + 1 /\ n + 1 < i + d
          BY <1>1, <5>1
        <5>3. Waits(x, s + i) <=> s + j = Len(x) + 1 /\ Len(x) + 1 < s + i + d
          BY <5>1, Zenon DEF Waits
        <5>4. Waits(z, i) <=> j = n + 1 /\ n + 1 < i + d
          BY <1>2, Zenon DEF Waits, j, d
        <5> QED BY <5>2, <5>3, <5>4
      <4> QED BY <2>1, <4>1 DEF Stops
    <3>2. CASE i \notin 1 .. n
      BY <1>1, <1>2, <2>1, <3>2 DEF Stops
    <3> QED BY <3>1, <3>2
  <2>5. CASE Stops(z, i)
    <3>1. i - 1 \in 0 .. n /\ s + (i - 1) = s + i - 1
      BY <1>1
    <3>2. Suffix(z, i - 1) = Suffix(x, s + i - 1)
      BY <1>a, <3>1
    <3>3. Stopped(x, s + i) = Stopped(z, i)
      <4>1. Stopped(z, i) = [text |-> <<>>, pending |-> Suffix(z, i - 1)]
        BY <1>2, <2>1, StoppedIs
      <4>2. Stopped(x, s + i) = [text |-> <<>>, pending |-> Suffix(x, s + i - 1)]
        BY <2>1, StoppedIs
      <4> QED BY <3>2, <4>1, <4>2
    <3> QED BY <2>2, <2>4, <2>5, <3>3 DEF Round
  <2>6. CASE ~ Stops(z, i)
    <3>1. i \in 1 .. n
      BY <1>2, <2>6, BehindInside
    <3>2. Behind(z, i) \in S
      BY <1>3, <2>3, <3>1
    <3>3. Decoding(x)[Behind(x, s + i)] = Decoding(z)[Behind(z, i)]
      BY <2>3, <3>1, <3>2
    <3>4. CharAt(x, s + i) = CharAt(z, i)
      <4>1. Behind(x, s + i) = s + i + Need(x[s + i]) <=> Behind(z, i) = i + Need(z[i])
        <5> DEFINE j == Behind(z, i)
                   d == Need(z[i])
        <5>1. /\ Behind(x, s + i) = s + j /\ Need(x[s + i]) = d
              /\ j \in i + 1 .. n + 1 /\ d \in 0 .. 3
          BY <2>3, <3>1
        <5> HIDE DEF j, d
        <5>2. s + j = s + i + d <=> j = i + d
          BY <5>1
        <5> QED BY <5>1, <5>2, Zenon DEF j, d
      <4> QED BY <2>3, <3>1, <4>1 DEF CharAt
    <3> QED BY <2>2, <2>4, <2>6, <3>3, <3>4 DEF Round, Taken
  <2> QED BY <2>5, <2>6
<1> HIDE DEF S, n
<1>4. 1 .. n + 1 \subseteq S
  BY <1>1, <1>3, DownInduction
<1> QED
  BY <1>4 DEF S, n, z

LEMMA DecodingFields ==
  ASSUME NEW t, NEW p, NEW r, r = [text |-> t, pending |-> p]
  PROVE  r.text = t /\ r.pending = p
  OBVIOUS

(* The cut: what is decoded before it, then what still waits with what     *)
(* comes after it.                                                         *)
LEMMA CutDecoding ==
  ASSUME NEW a \in Seq(Bytes), NEW b \in Seq(Bytes)
  PROVE  LET d == Decoded(a)
             e == Decoded(d.pending \o b)
         IN Decoded(a \o b) = [text |-> d.text \o e.text, pending |-> e.pending]
<1> DEFINE x == a \o b
           n == Len(a)
           After(d) == Decoded(d.pending \o b)
           Both(d) == [text |-> d.text \o After(d).text, pending |-> After(d).pending]
           S == {i \in 1 .. n + 1 : Decoding(x)[i] = Both(Decoding(a)[i])}
<1>1. n \in Nat /\ Len(b) \in Nat
  BY LenProperties
<1>2. /\ x \in Seq(Bytes) /\ Len(x) = n + Len(b)
      /\ \A i \in 1 .. n : x[i] = a[i]
  BY <1>1, ConcatProperties
<1>c. Len(x) = n + Len(b)
  BY <1>2
<1>a. \A s \in 0 .. n : Suffix(a, s) \o b = Suffix(x, s)
  BY SuffixOfConcat
<1>b. \A d \in Decodings : After(d) \in Decodings
  <2> TAKE d \in Decodings
  <2>1. d.pending \o b \in Seq(Bytes)
    BY ConcatProperties DEF Decodings
  <2>2. 1 \in 1 .. Len(d.pending \o b) + 1
    BY <2>1, LenProperties
  <2> QED BY <2>1, <2>2, DecodingIs DEF Decoded
<1> HIDE DEF x, After
<1>3. ASSUME NEW i \in 1 .. n + 1, \A j \in i + 1 .. n + 1 : j \in S
      PROVE  i \in S
  <2>1. i \in 1 .. Len(a) + 1 /\ i \in 1 .. Len(x) + 1
    BY <1>1, <1>2
  <2>2. /\ Decoding(x)[i] = Round(x, Decoding(x), i)
        /\ Decoding(a)[i] = Round(a, Decoding(a), i)
        /\ Decoding(a)[i] \in Decodings
    BY <1>2, <2>1, DecodingIs
  <2>3. CASE Stops(a, i)
    <3>1. i - 1 \in 0 .. n /\ i - 1 \in 0 .. Len(x) /\ i - 1 + 1 = i
      BY <1>1, <1>2
    <3>2. Decoding(a)[i] = [text |-> <<>>, pending |-> Suffix(a, i - 1)]
      BY <2>1, <2>2, <2>3, StoppedIs DEF Round
    <3>3. After(Decoding(a)[i]) = Decoded(Suffix(x, i - 1))
      <4>1. Suffix(a, i - 1) \o b = Suffix(x, i - 1)
        BY <1>a, <3>1
      <4>2. Decoding(a)[i].pending = Suffix(a, i - 1)
        BY <3>2, DecodingFields
      <4> QED BY <4>1, <4>2, Zenon DEF After
    <3>4. Decoding(x)[i] = Decoding(Suffix(x, i - 1))[1]
      <4>1. 1 \in 1 .. Len(x) - (i - 1) + 1
        BY <1>1, <1>2, <3>1
      <4>2. Decoding(x)[(i - 1) + 1] = Decoding(Suffix(x, i - 1))[1]
        BY <1>2, <3>1, <4>1, DecodingShifts
      <4> QED BY <3>1, <4>2
    <3>5. Decoding(x)[i] = After(Decoding(a)[i])
      BY <3>3, <3>4 DEF Decoded
    <3> DEFINE e == After(Decoding(a)[i])
    <3>6. e \in Decodings
      BY <1>b, <2>2
    <3> HIDE DEF e
    <3>7. <<>> \o e.text = e.text
      BY <3>6, ConcatEmptySeq DEF Decodings, Texts
    <3>8. e = [text |-> e.text, pending |-> e.pending]
      BY <3>6 DEF Decodings
    <3>9. Both(Decoding(a)[i]) = [text |-> <<>> \o e.text, pending |-> e.pending]
      BY <3>2 DEF e
    <3> QED BY <3>5, <3>7, <3>8, <3>9 DEF e
  <2>4. CASE ~ Stops(a, i)
    <3> DEFINE j == Behind(a, i)
               d == Need(a[i])
    <3>1. i \in 1 .. n /\ j \in i + 1 .. n + 1
      BY <2>1, <2>4, BehindInside
    <3>2. Ends(a, i, j) /\ a[i] \in Bytes /\ d \in 0 .. 3
      BY <3>1, BehindIs, ElementOfSeq, NeedIs
    <3>3. x[i] = a[i] /\ i \in 1 .. Len(x) /\ Need(x[i]) = d
      BY <1>1, <1>2, <3>1
    <3>4. j >= i + d \/ (j # n + 1 /\ a[j] # "C")
      <4>1. j >= i + d \/ j = n + 1 \/ a[j] # "C"
        BY <3>2 DEF Ends
      <4>2. ~ (j = n + 1 /\ n + 1 < i + d)
        BY <2>4 DEF Stops, Waits
      <4> QED BY <1>1, <3>1, <3>2, <4>1, <4>2
    <3>5. \A k \in i + 1 .. j - 1 : k < i + d /\ a[k] = "C"
      BY <3>2 DEF Ends
    <3> HIDE DEF j, d
    <3>6. Behind(x, i) = j
      <4>1. j \in i + 1 .. Len(x) + 1
        BY <1>1, <1>2, <3>1
      <4>2. j >= i + d \/ j = Len(x) + 1 \/ x[j] # "C"
        <5>1. CASE j >= i + d
          BY <5>1
        <5>2. CASE j # n + 1 /\ a[j] # "C"
          <6>1. j \in 1 .. n
            BY <1>1, <3>1, <5>2
          <6> QED BY <1>2, <5>2, <6>1
        <5> QED BY <3>4, <5>1, <5>2
      <4>3. ASSUME NEW k \in i + 1 .. j - 1 PROVE k < i + d /\ x[k] = "C"
        <5>1. k \in 1 .. n
          BY <1>1, <3>1
        <5>2. x[k] = a[k]
          BY <1>2, <5>1
        <5> QED BY <3>5, <5>2
      <4>4. Ends(x, i, j) <=>
              /\ j \in i + 1 .. Len(x) + 1
              /\ j >= i + Need(x[i]) \/ j = Len(x) + 1 \/ x[j] # "C"
              /\ \A k \in i + 1 .. j - 1 : k < i + Need(x[i]) /\ x[k] = "C"
        BY DEF Ends
      <4>5. Need(x[i]) = d
        BY <3>3
      <4>6. Ends(x, i, j)
        BY <4>1, <4>2, <4>3, <4>4, <4>5, Zenon
      <4> QED BY <1>2, <3>3, <4>6, BehindUnique
    <3>7. ~ Stops(x, i)
      <4>1. i <= Len(x)
        BY <1>1, <1>2, <3>3
      <4>2. ~ Waits(x, i)
        <5> SUFFICES ASSUME j = Len(x) + 1, Len(x) + 1 < i + d PROVE FALSE
          BY <3>3, <3>6 DEF Waits
        <5>1. n = Len(x) /\ j = n + 1 /\ j < i + d
          BY <1>1, <1>c, <3>1
        <5> QED BY <3>1, <3>2, <3>4, <5>1
      <4> QED BY <1>1, <1>2, <4>1, <4>2 DEF Stops
    <3>8. CharAt(x, i) = CharAt(a, i)
      BY <3>3, <3>6 DEF CharAt, j
    <3> DEFINE dj == Decoding(a)[j]
               e == After(dj)
               c == CharAt(a, i)
    <3>9. dj \in Decodings /\ Decoding(x)[j] \in Decodings
      <4>1. j \in 1 .. Len(a) + 1 /\ j \in 1 .. Len(x) + 1
        BY <1>1, <1>2, <3>1
      <4> QED BY <1>2, <4>1, DecodingIs
    <3>10. Decoding(a)[i] = [text |-> <<c>> \o dj.text, pending |-> dj.pending]
      <4>1. Decoding(a)[i] = Taken(a, i, dj)
        BY <2>2, <2>4 DEF Round, j
      <4> HIDE DEF dj
      <4> QED BY <3>1, <3>9, <4>1, TakenIs
    <3>11. Decoding(x)[i] = [text |-> <<c>> \o Decoding(x)[j].text, pending |-> Decoding(x)[j].pending]
      <4>1. Decoding(x)[i] = Taken(x, i, Decoding(x)[j])
        BY <2>2, <3>6, <3>7 DEF Round
      <4>2. Taken(x, i, Decoding(x)[j]) =
              [text |-> <<CharAt(x, i)>> \o Decoding(x)[j].text, pending |-> Decoding(x)[j].pending]
        BY <1>2, <3>3, <3>9, TakenIs
      <4> QED BY <3>8, <4>1, <4>2
    <3>12. Decoding(x)[j] = [text |-> dj.text \o e.text, pending |-> e.pending]
      BY <1>3, <3>1
    <3>14. After(Decoding(a)[i]) = e
      <4>1. Decoding(a)[i].pending = dj.pending
        BY <3>10, DecodingFields
      <4> QED BY <4>1 DEF After
    <3>15. e \in Decodings /\ c \in Chars
      BY <1>b, <3>1, <3>9, CharAtIs
    <3> HIDE DEF dj, e, c
    <3>13. Decoding(x)[j].text = dj.text \o e.text /\ Decoding(x)[j].pending = e.pending
      <4> DEFINE r == Decoding(x)[j]
                 t == dj.text \o e.text
      <4>1. r = [text |-> t, pending |-> e.pending]
        BY <3>12
      <4> HIDE DEF r, t
      <4>2. r.text = t /\ r.pending = e.pending
        BY <4>1, DecodingFields
      <4> QED BY <4>2 DEF r, t
    <3>16. (<<c>> \o dj.text) \o e.text = <<c>> \o (dj.text \o e.text)
      <4>1. <<c>> \in Seq(Chars) /\ dj.text \in Seq(Chars) /\ e.text \in Seq(Chars)
        BY <3>9, <3>15 DEF Decodings, Texts
      <4>2. ASSUME NEW s \in Seq(Chars), NEW t \in Seq(Chars), NEW u \in Seq(Chars)
            PROVE  (s \o t) \o u = s \o (t \o u)
        BY ConcatAssociative
      <4> QED BY <4>1, <4>2
    <3>17. Decoding(a)[i].text = <<c>> \o dj.text
      BY <3>10, DecodingFields
    <3>18. Both(Decoding(a)[i]) = [text |-> (<<c>> \o dj.text) \o e.text, pending |-> e.pending]
      BY <3>14, <3>17
    <3>19. Decoding(x)[i] = [text |-> <<c>> \o (dj.text \o e.text), pending |-> e.pending]
      BY <3>11, <3>13
    <3> QED BY <3>16, <3>18, <3>19
  <2> QED BY <2>3, <2>4
<1> HIDE DEF S, n
<1>4. 1 .. n + 1 \subseteq S
  BY <1>1, <1>3, DownInduction
<1>5. 1 \in S
  BY <1>1, <1>4
<1> QED
  BY <1>5 DEF S, After, x, Decoded

(* At most two bytes of a character wait for the others.                   *)
LEMMA DecodedIs ==
  ASSUME NEW bytes \in Seq(Bytes)
  PROVE  Decoded(bytes) \in Decodings /\ Len(Decoded(bytes).pending) <= 2
<1> DEFINE n == Len(bytes)
           S == {i \in 1 .. n + 1 : Len(Decoding(bytes)[i].pending) <= 2}
<1>1. n \in Nat
  BY LenProperties
<1>2. ASSUME NEW i \in 1 .. n + 1, \A j \in i + 1 .. n + 1 : j \in S
      PROVE  i \in S
  <2>1. Decoding(bytes)[i] = Round(bytes, Decoding(bytes), i)
    BY DecodingIs
  <2>2. CASE Stops(bytes, i)
    <3>1. Decoding(bytes)[i].pending = Suffix(bytes, i - 1)
      BY <2>1, <2>2, StoppedIs DEF Round
    <3>2. Len(Suffix(bytes, i - 1)) = n - (i - 1)
      <4>1. i - 1 \in 0 .. Len(bytes)
        BY <1>1
      <4> QED BY <4>1, SuffixIs
    <3>3. n - (i - 1) <= 2
      <4>1. CASE i = n + 1
        BY <1>1, <4>1
      <4>2. CASE i # n + 1
        <5>1. i \in 1 .. Len(bytes)
          BY <1>1, <4>2
        <5>2. bytes[i] \in Bytes
          BY <5>1, ElementOfSeq
        <5>3. Need(bytes[i]) \in 0 .. 3
          BY <5>2, NeedIs
        <5>4. n + 1 < i + Need(bytes[i])
          BY <1>1, <2>2, <5>1 DEF Stops, Waits
        <5> QED BY <1>1, <5>3, <5>4
      <4> QED BY <4>1, <4>2
    <3> QED BY <3>1, <3>2, <3>3
  <2>3. CASE ~ Stops(bytes, i)
    <3>1. i \in 1 .. n /\ Behind(bytes, i) \in i + 1 .. n + 1
      BY <2>3, BehindInside
    <3>2. Decoding(bytes)[Behind(bytes, i)] \in Decodings
      BY <1>1, <3>1, DecodingIs
    <3>3. Decoding(bytes)[i].pending = Decoding(bytes)[Behind(bytes, i)].pending
      <4>1. Decoding(bytes)[i] = Taken(bytes, i, Decoding(bytes)[Behind(bytes, i)])
        BY <2>1, <2>3 DEF Round
      <4> DEFINE rest == Decoding(bytes)[Behind(bytes, i)]
      <4>2. Taken(bytes, i, rest) = [text |-> <<CharAt(bytes, i)>> \o rest.text, pending |-> rest.pending]
        BY <3>1, <3>2, TakenIs
      <4> QED BY <4>1, <4>2, DecodingFields
    <3>4. Behind(bytes, i) \in S
      BY <1>2, <3>1
    <3> QED BY <3>3, <3>4
  <2> QED BY <2>2, <2>3
<1> HIDE DEF S, n
<1>3. 1 .. n + 1 \subseteq S
  BY <1>1, <1>2, DownInduction
<1>4. 1 \in S
  BY <1>1, <1>3
<1> QED
  BY <1>1, <1>4, DecodingIs DEF S, n, Decoded

-----------------------------------------------------------------------------
(* SessionOutput: what is decoded is the text of the bytes.                *)

LEMMA StartsIs ==
  ASSUME NEW bytes \in Seq(Bytes)
  PROVE  /\ Starts(bytes) \in SUBSET (1 .. Len(bytes))
         /\ Len(bytes) > 0 => 1 \in Starts(bytes)
<1>1. DOMAIN bytes = 1 .. Len(bytes) /\ Len(bytes) \in Nat
  BY LenProperties
<1> QED
  BY <1>1 DEF Starts

(* The continuations of what begins at i begin nothing, and behind them    *)
(* something begins.                                                       *)
LEMMA NextStart ==
  ASSUME NEW bytes \in Seq(Bytes), NEW i \in 1 .. Len(bytes), NEW j, Ends(bytes, i, j)
  PROVE  /\ \A k \in i + 1 .. j - 1 : k \notin Starts(bytes)
         /\ i \in Starts(bytes) => j = Len(bytes) + 1 \/ j \in Starts(bytes)
<1> DEFINE n == Len(bytes)
           N(k) == Need(bytes[k])
           Covers(h, k) == h < k /\ k - h < N(h) /\ \A m \in h + 1 .. k : bytes[m] = "C"
<1>1. DOMAIN bytes = 1 .. n /\ n \in Nat
  BY LenProperties
<1>2. j \in i + 1 .. n + 1
  BY DEF Ends
<1>3. \A k \in i + 1 .. j - 1 : k < i + N(i) /\ bytes[k] = "C"
  BY DEF Ends
<1>4. j >= i + N(i) \/ j = n + 1 \/ bytes[j] # "C"
  BY DEF Ends
<1>5. \A k \in 1 .. n : N(k) \in 0 .. 3 /\ (N(k) = 0 <=> bytes[k] = "C")
  BY ElementOfSeq, NeedIs
<1>6. \A k \in 1 .. n : k \in Starts(bytes) <=> ~ \E h \in 1 .. n : Covers(h, k)
  BY <1>1 DEF Starts
<1> HIDE DEF N, n
<1>7. ASSUME NEW k \in i + 1 .. j - 1 PROVE k \notin Starts(bytes)
  <2>1. k \in 1 .. n /\ i \in 1 .. n
    BY <1>1, <1>2 DEF n
  <2>2. k - i < N(i)
    BY <1>3, <1>5, <2>1
  <2>3. \A m \in i + 1 .. k : bytes[m] = "C"
    <3> TAKE m \in i + 1 .. k
    <3>1. m \in i + 1 .. j - 1
      BY <1>2
    <3> QED BY <1>3, <3>1
  <2>4. Covers(i, k)
    BY <2>2, <2>3
  <2> QED BY <1>6, <2>1, <2>4
<1>8. ASSUME i \in Starts(bytes), j # n + 1 PROVE j \in Starts(bytes)
  <2>1. j \in 1 .. n /\ i \in 1 .. n
    BY <1>1, <1>2, <1>8 DEF n
  <2>2. ASSUME NEW h \in 1 .. n, Covers(h, j) PROVE FALSE
    <3>1. h < j /\ j - h < N(h) /\ bytes[j] = "C"
      BY <2>1, <2>2
    <3>2. \A m \in h + 1 .. j : bytes[m] = "C"
      BY <2>2
    <3>3. j >= i + N(i)
      BY <1>4, <1>8, <3>1
    <3>4. CASE h = i
      BY <1>5, <2>1, <3>1, <3>3, <3>4
    <3>5. CASE h > i
      <4>1. h \in i + 1 .. j - 1
        BY <2>1, <3>1, <3>5
      <4>2. bytes[h] = "C"
        BY <1>3, <4>1
      <4>3. N(h) = 0
        BY <1>5, <4>2
      <4> QED BY <2>1, <3>1, <4>3
    <3>6. CASE h < i
      <4>1. i - h < N(h)
        BY <1>2, <1>5, <2>1, <3>1
      <4>2. \A m \in h + 1 .. i : bytes[m] = "C"
        <5> TAKE m \in h + 1 .. i
        <5>1. m \in h + 1 .. j
          BY <1>2
        <5> QED BY <3>2, <5>1
      <4>3. Covers(h, i)
        BY <3>6, <4>1, <4>2
      <4> QED BY <1>6, <1>8, <2>1, <4>3
    <3> QED BY <2>1, <3>4, <3>5, <3>6
  <2> QED BY <1>6, <2>1, <2>2
<1> QED
  BY <1>7, <1>8 DEF n

(* A whole character, as the loop and as the reference see it.             *)
LEMMA WholeIs ==
  ASSUME NEW bytes \in Seq(Bytes), NEW i \in 1 .. Len(bytes)
  PROVE  Whole(bytes, i) <=> Behind(bytes, i) = i + Need(bytes[i])
<1> DEFINE n == Len(bytes)
           d == Need(bytes[i])
           j == Behind(bytes, i)
<1>1. n \in Nat /\ d \in 0 .. 3 /\ Ends(bytes, i, j)
  BY LenProperties, ElementOfSeq, NeedIs, BehindIs
<1>2. j \in i + 1 .. n + 1 /\ \A k \in i + 1 .. j - 1 : bytes[k] = "C"
  BY <1>1 DEF Ends
<1>3. Whole(bytes, i) <=> d > 0 /\ i + d - 1 <= n /\ \A k \in i + 1 .. i + d - 1 : bytes[k] = "C"
  BY DEF Whole
<1>4. Ends(bytes, i, i + d) <=>
        /\ i + d \in i + 1 .. n + 1
        /\ i + d >= i + d \/ i + d = n + 1 \/ bytes[i + d] # "C"
        /\ \A k \in i + 1 .. (i + d) - 1 : k < i + d /\ bytes[k] = "C"
  BY DEF Ends
<1>5. Ends(bytes, i, i + d) => j = i + d
  BY BehindUnique
<1> HIDE DEF n, d, j
<1>6. ASSUME Whole(bytes, i) PROVE j = i + d
  <2>1. i + d \in i + 1 .. n + 1
    BY <1>1, <1>3, <1>6 DEF n
  <2>2. \A k \in i + 1 .. (i + d) - 1 : k < i + d /\ bytes[k] = "C"
    <3> TAKE k \in i + 1 .. (i + d) - 1
    <3>1. k \in i + 1 .. i + d - 1 /\ k < i + d
      BY <1>1
    <3> QED BY <1>3, <1>6, <3>1
  <2>3. i + d >= i + d
    BY <1>1
  <2> QED BY <1>4, <1>5, <2>1, <2>2, <2>3
<1>7. ASSUME j = i + d PROVE Whole(bytes, i)
  <2>1. d > 0 /\ i + d - 1 <= n
    BY <1>1, <1>2, <1>7
  <2>2. \A k \in i + 1 .. i + d - 1 : bytes[k] = "C"
    <3> TAKE k \in i + 1 .. i + d - 1
    <3>1. k \in i + 1 .. j - 1
      BY <1>1, <1>7
    <3> QED BY <1>2, <3>1
  <2> QED BY <1>3, <2>1, <2>2
<1> QED
  BY <1>6, <1>7 DEF j, d

LEMMA OnePrepended ==
  ASSUME NEW S, NEW c \in S, NEW t \in Seq(S)
  PROVE  /\ <<c>> \o t \in Seq(S) /\ Len(<<c>> \o t) = 1 + Len(t) /\ (<<c>> \o t)[1] = c
         /\ \A i \in 1 .. Len(t) : (<<c>> \o t)[1 + i] = t[i]
<1> DEFINE s == <<c>>
<1>1. s \in Seq(S) /\ Len(s) = 1 /\ s[1] = c /\ Len(t) \in Nat
  BY LenProperties
<1> HIDE DEF s
<1>2. /\ s \o t \in Seq(S) /\ Len(s \o t) = Len(s) + Len(t)
      /\ \A i \in 1 .. Len(s) + Len(t) : (s \o t)[i] = IF i <= Len(s) THEN s[i] ELSE t[i - Len(s)]
  BY <1>1, ConcatProperties
<1>3. (s \o t)[1] = c
  BY <1>1, <1>2
<1>4. ASSUME NEW i \in 1 .. Len(t) PROVE (s \o t)[1 + i] = t[i]
  <2> DEFINE k == 1 + i
  <2>1. k \in 1 .. Len(s) + Len(t) /\ ~ (k <= Len(s)) /\ k - Len(s) = i
    BY <1>1
  <2> HIDE DEF k
  <2>2. (s \o t)[k] = t[i]
    BY <1>2, <2>1
  <2> QED BY <2>2 DEF k
<1> QED
  BY <1>1, <1>2, <1>3, <1>4 DEF s

LEMMA RestIs ==
  ASSUME NEW p \in Seq(Bytes)
  PROVE  Rest(p) \in Texts /\ (Len(p) = 0 => Rest(p) = <<>>) /\ (Len(p) > 0 => Rest(p) = <<Replacement>>)
<1>1. <<>> \in Texts /\ (Len(p) = 0 <=> p = <<>>)
  BY EmptySeq DEF Texts
<1>2. Replacement \in Chars
  BY DEF Chars
<1>3. <<Replacement>> \in Texts
  BY <1>2 DEF Texts
<1>4. Len(p) \in Nat
  BY LenProperties
<1> QED
  BY <1>1, <1>3, <1>4 DEF Rest

LEMMA DecodedIsLossy ==
  ASSUME NEW bytes \in Seq(Bytes)
  PROVE  IsLossy(Decoded(bytes).text \o Rest(Decoded(bytes).pending), bytes)
<1> DEFINE n == Len(bytes)
           F == Decoding(bytes)
           ST == Starts(bytes)
           T(i) == {j \in ST : j >= i}
           Rank(i, k) == Cardinality({j \in T(i) : j <= k})
           Code(i) == IF Whole(bytes, i) THEN CharOf[bytes[i]] ELSE Replacement
           Text(i) == F[i].text \o Rest(F[i].pending)
           Right(i) == /\ Len(Text(i)) = Cardinality(T(i))
                       /\ \A k \in T(i) : Text(i)[Rank(i, k)] = Code(k)
           S == {i \in 1 .. n + 1 : i \in ST \/ i = n + 1 => Right(i)}
<1>1. n \in Nat /\ ST \in SUBSET (1 .. n) /\ (n > 0 => 1 \in ST)
  BY LenProperties, StartsIs
<1>2. \A U \in SUBSET ST : IsFiniteSet(U) /\ Cardinality(U) \in Nat
  <2>1. 1 \in Int /\ n \in Int
    BY <1>1
  <2>2. IsFiniteSet(1 .. n)
    BY <2>1, FS_Interval
  <2> QED BY <1>1, <2>2, FS_Subset, FS_CardinalityType
<1>3. \A i \in 1 .. n + 1 : F[i] = Round(bytes, F, i) /\ F[i] \in Decodings
  BY DecodingIs
<1>4. \A i \in 1 .. n + 1 : Text(i) \in Seq(Chars) /\ F[i].text \in Seq(Chars) /\ F[i].pending \in Seq(Bytes)
  <2> TAKE i \in 1 .. n + 1
  <2>1. F[i].text \in Seq(Chars) /\ F[i].pending \in Seq(Bytes)
    BY <1>3 DEF Decodings, Texts
  <2>2. Rest(F[i].pending) \in Seq(Chars)
    BY <2>1, RestIs DEF Texts
  <2> QED BY <2>1, <2>2, ConcatProperties
<1> HIDE DEF F, ST
<1>t. /\ \A j \in ST : j \in 1 .. n
      /\ \A i : T(i) \in SUBSET ST /\ \A j \in ST : j \in T(i) <=> j >= i
  BY <1>1
<1>5. ASSUME NEW i \in 1 .. n + 1, \A j \in i + 1 .. n + 1 : j \in S, i \in ST \/ i = n + 1
      PROVE  Right(i)
  <2>1. CASE Stops(bytes, i)
    <3>1. F[i] = [text |-> <<>>, pending |-> Suffix(bytes, i - 1)]
      BY <1>3, <2>1, StoppedIs DEF Round
    <3>2. Len(Suffix(bytes, i - 1)) = n - (i - 1)
      <4>1. i - 1 \in 0 .. Len(bytes)
        BY <1>1
      <4> QED BY <4>1, SuffixIs
    <3>3. F[i].text = <<>> /\ F[i].pending = Suffix(bytes, i - 1)
      BY <3>1, DecodingFields
    <3>4. Rest(F[i].pending) \in Seq(Chars)
      BY <1>4, RestIs DEF Texts
    <3>5. Text(i) = Rest(F[i].pending)
      BY <3>3, <3>4, ConcatEmptySeq
    <3>6. Len(F[i].pending) = n - (i - 1)
      BY <3>2, <3>3
    <3>7. CASE i = n + 1
      <4>1. Text(i) = <<>>
        BY <1>1, <1>4, <3>5, <3>6, <3>7, RestIs
      <4>2. T(i) = {}
        <5> HIDE DEF T, n
        <5>1. ASSUME NEW j \in T(i) PROVE FALSE
          <6>1. j \in 1 .. n /\ j >= n + 1
            BY <1>t, <3>7
          <6> QED BY <1>1, <6>1
        <5> QED BY <5>1
      <4>3. Len(Text(i)) = 0 /\ Cardinality(T(i)) = 0
        BY <4>1, <4>2, EmptySeq, FS_EmptySet
      <4> QED BY <4>2, <4>3
    <3>8. CASE i # n + 1
      <4>1. i \in 1 .. n /\ i \in ST
        BY <1>1, <1>5, <3>8
      <4>2. Behind(bytes, i) = n + 1 /\ n + 1 < i + Need(bytes[i])
        BY <1>1, <2>1, <4>1 DEF Stops, Waits
      <4>3. Ends(bytes, i, n + 1)
        BY <4>1, <4>2, BehindIs
      <4>4. \A k \in i + 1 .. n : k \notin ST
        <5>1. \A k \in i + 1 .. (n + 1) - 1 : k \notin ST
          BY <4>1, <4>3, NextStart DEF ST
        <5> QED BY <1>1, <5>1
      <4>5. T(i) = {i}
        <5> HIDE DEF T, n
        <5>1. ASSUME NEW j \in T(i) PROVE j = i
          <6>1. j \in 1 .. n /\ j >= i /\ j \in ST
            BY <1>t
          <6>2. ~ (j \in i + 1 .. n)
            BY <4>4, <6>1
          <6> QED BY <1>1, <4>1, <6>1, <6>2
        <5>2. i \in T(i)
          BY <1>t, <4>1
        <5> QED BY <5>1, <5>2
      <4>6. {j \in T(i) : j <= i} = {i}
        BY <1>1, <4>1, <4>5
      <4>7. Rank(i, i) = 1 /\ Cardinality(T(i)) = 1
        BY <4>5, <4>6, FS_Singleton
      <4>8. ~ Whole(bytes, i)
        <5>1. Behind(bytes, i) # i + Need(bytes[i])
          <6>1. Need(bytes[i]) \in 0 .. 3
            BY <4>1, ElementOfSeq, NeedIs
          <6> QED BY <1>1, <4>2, <6>1
        <5> QED BY <4>1, <5>1, WholeIs
      <4>9. Text(i) = <<Replacement>>
        <5>1. Len(F[i].pending) > 0
          BY <1>1, <3>6, <4>1
        <5> QED BY <1>4, <3>5, <5>1, RestIs
      <4>10. Len(Text(i)) = 1 /\ Text(i)[1] = Replacement
        BY <4>9
      <4> HIDE DEF Text, Rank, Whole
      <4> QED BY <4>5, <4>7, <4>8, <4>10
    <3> QED BY <3>7, <3>8
  <2>2. CASE ~ Stops(bytes, i)
    <3> DEFINE b == Behind(bytes, i)
               c == CharAt(bytes, i)
    <3>1. i \in 1 .. n /\ b \in i + 1 .. n + 1 /\ i \in ST
      BY <1>1, <1>5, <2>2, BehindInside
    <3>2. Ends(bytes, i, b) /\ c \in Chars
      BY <3>1, BehindIs, CharAtIs
    <3>3. \A k \in i + 1 .. b - 1 : k \notin ST
      BY <3>1, <3>2, NextStart DEF ST
    <3>4. b = n + 1 \/ b \in ST
      BY <3>1, <3>2, NextStart DEF ST
    <3>5. F[i] = [text |-> <<c>> \o F[b].text, pending |-> F[b].pending]
      <4>1. F[i] = Taken(bytes, i, F[b])
        BY <1>3, <2>2 DEF Round
      <4>2. F[b] \in Decodings
        BY <1>1, <1>3, <3>1
      <4> HIDE DEF b
      <4> QED BY <3>1, <4>1, <4>2, TakenIs
    <3>6. c = Code(i)
      BY <3>1, WholeIs DEF CharAt
    <3> HIDE DEF b, c
    <3>7. b \in 1 .. n + 1
      BY <1>1, <3>1
    <3>8. Text(b) \in Seq(Chars) /\ F[b].text \in Seq(Chars) /\ F[b].pending \in Seq(Bytes)
      BY <1>4, <3>7
    <3>9. Text(i) = <<c>> \o Text(b)
      <4> DEFINE t == F[b].text
                 r == Rest(F[b].pending)
      <4>1. <<c>> \in Seq(Chars) /\ t \in Seq(Chars) /\ r \in Seq(Chars)
        BY <3>2, <3>8, RestIs DEF Texts
      <4>2. F[i].text = <<c>> \o t /\ F[i].pending = F[b].pending
        BY <3>5, DecodingFields
      <4>3. Text(i) = (<<c>> \o t) \o r
        BY <4>2
      <4> HIDE DEF t, r
      <4>4. ASSUME NEW x \in Seq(Chars), NEW y \in Seq(Chars), NEW z \in Seq(Chars)
            PROVE  (x \o y) \o z = x \o (y \o z)
        BY ConcatAssociative
      <4>5. (<<c>> \o t) \o r = <<c>> \o (t \o r)
        BY <4>1, <4>4
      <4> QED BY <4>3, <4>5 DEF t, r
    <3>10. Right(b)
      <4>1. b \in S
        BY <1>5, <3>1
      <4> QED BY <3>4, <4>1
    <3>11. T(i) = T(b) \cup {i} /\ i \notin T(b)
      <4> HIDE DEF T, n
      <4>1. i \in T(i) /\ i \notin T(b)
        BY <1>t, <3>1
      <4>2. ASSUME NEW j \in T(b) PROVE j \in T(i)
        <5>1. j \in ST /\ j >= b /\ j \in 1 .. n
          BY <1>t
        <5> QED BY <1>t, <3>1, <5>1
      <4>3. ASSUME NEW j \in T(i), j # i PROVE j \in T(b)
        <5>1. j \in ST /\ j >= i /\ j \in 1 .. n
          BY <1>t
        <5>2. ~ (j \in i + 1 .. b - 1)
          BY <3>3, <5>1
        <5>3. j >= b
          BY <3>1, <4>3, <5>1, <5>2
        <5> QED BY <1>t, <5>1, <5>3
      <4> QED BY <4>1, <4>2, <4>3
    <3>12. Cardinality(T(i)) = Cardinality(T(b)) + 1
      <4>1. IsFiniteSet(T(b))
        BY <1>2
      <4> QED BY <3>11, <4>1, FS_AddElement
    <3> DEFINE u == Text(b)
    <3>13. u \in Seq(Chars) /\ Len(u) = Cardinality(T(b)) /\ Len(u) \in Nat
      BY <3>8, <3>10, LenProperties
    <3>14. \A k \in T(b) : u[Rank(b, k)] = Code(k)
      BY <3>10
    <3>15. Text(i) = <<c>> \o u
      BY <3>9
    <3> HIDE DEF u, Text
    <3>16. /\ Len(Text(i)) = 1 + Len(u) /\ Text(i)[1] = c
           /\ \A m \in 1 .. Len(u) : Text(i)[1 + m] = u[m]
      <4>1. /\ Len(<<c>> \o u) = 1 + Len(u) /\ (<<c>> \o u)[1] = c
            /\ \A m \in 1 .. Len(u) : (<<c>> \o u)[1 + m] = u[m]
        <5>1. ASSUME NEW x \in Chars, NEW y \in Seq(Chars)
              PROVE  /\ Len(<<x>> \o y) = 1 + Len(y) /\ (<<x>> \o y)[1] = x
                     /\ \A m \in 1 .. Len(y) : (<<x>> \o y)[1 + m] = y[m]
          BY OnePrepended
        <5> QED BY <3>2, <3>13, <5>1, Zenon
      <4> QED BY <3>15, <4>1, Zenon
    <3>17. Len(Text(i)) = Cardinality(T(i))
      BY <3>12, <3>13, <3>16
    <3>18. Rank(i, i) = 1
      <4>1. {j \in T(i) : j <= i} = {i}
        <5> HIDE DEF T, n
        <5>1. ASSUME NEW j \in T(i), j <= i PROVE j = i
          <6>1. j \in 1 .. n /\ j >= i
            BY <1>t
          <6> QED BY <3>1, <5>1, <6>1
        <5>2. i \in T(i) /\ i <= i
          BY <1>t, <3>1
        <5> QED BY <5>1, <5>2
      <4> QED BY <4>1, FS_Singleton
    <3>19. ASSUME NEW k \in T(b)
           PROVE  Rank(i, k) = 1 + Rank(b, k) /\ Rank(b, k) \in 1 .. Len(u)
      <4> DEFINE V == {j \in T(b) : j <= k}
      <4>1. {j \in T(i) : j <= k} = V \cup {i} /\ i \notin V
        BY <1>1, <3>1, <3>11
      <4>2. IsFiniteSet(V) /\ Cardinality(V) \in Nat /\ IsFiniteSet(T(b))
        BY <1>2
      <4>3. k \in V
        BY <1>1
      <4>4. Cardinality(V) # 0
        BY <4>2, <4>3, FS_EmptySet
      <4>5. Cardinality(V) <= Cardinality(T(b))
        BY <4>2, FS_Subset
      <4>6. Cardinality(V \cup {i}) = Cardinality(V) + 1
        BY <4>1, <4>2, FS_AddElement
      <4>7. Rank(i, k) = Cardinality(V \cup {i}) /\ Rank(b, k) = Cardinality(V)
        BY <4>1
      <4> HIDE DEF V, Rank
      <4> QED BY <3>13, <4>2, <4>4, <4>5, <4>6, <4>7
    <3>20. ASSUME NEW k \in T(i) PROVE Text(i)[Rank(i, k)] = Code(k)
      <4>1. CASE k = i
        <5> HIDE DEF Rank, Code
        <5> QED BY <3>6, <3>16, <3>18, <4>1
      <4>2. CASE k \in T(b)
        <5> HIDE DEF Rank, Code, T
        <5>1. Text(i)[1 + Rank(b, k)] = u[Rank(b, k)]
          BY <3>16, <3>19, <4>2
        <5> QED BY <3>14, <3>19, <4>2, <5>1
      <4> QED BY <3>11, <4>1, <4>2
    <3> QED BY <3>17, <3>20
  <2> QED BY <2>1, <2>2
<1>6. ASSUME NEW i \in 1 .. n + 1, \A j \in i + 1 .. n + 1 : j \in S PROVE i \in S
  BY <1>5, <1>6
<1> HIDE DEF S
<1>7. 1 .. n + 1 \subseteq S
  <2> HIDE DEF n
  <2> QED BY <1>1, <1>6, DownInduction
<1>8. 1 \in 1 .. n + 1 /\ (1 \in ST \/ 1 = n + 1)
  BY <1>1
<1>9. Right(1)
  BY <1>7, <1>8 DEF S
<1>10. T(1) = ST
  <2> HIDE DEF T, n
  <2>1. \A j \in ST : j >= 1
    BY <1>t
  <2> QED BY <1>t, <2>1
<1>11. IsLossy(Text(1), bytes)
  <2>1. Len(Text(1)) = Cardinality(ST)
    BY <1>9, <1>10
  <2>2. \A i \in ST : Text(1)[Cardinality({j \in ST : j <= i})] = Code(i)
    <3> TAKE i \in ST
    <3>1. {j \in T(1) : j <= i} = {j \in ST : j <= i}
      BY <1>10
    <3>2. Text(1)[Rank(1, i)] = Code(i)
      BY <1>9, <1>10
    <3> QED BY <3>1, <3>2
  <2> HIDE DEF Text
  <2> QED BY <2>1, <2>2 DEF IsLossy, ST
<1> QED
  BY <1>11 DEF F, Decoded

-----------------------------------------------------------------------------
(* SessionOutput: the text that was pushed.                                *)

FlatRound(q, f, i) == IF i = 1 THEN q[i] ELSE f[i - 1] \o q[i]
IsFlat(q, n, f) == f = [i \in 1 .. n |-> FlatRound(q, f, i)]

LEMMA FlatExists ==
  ASSUME NEW q \in Seq(Texts)
  PROVE  \E f : IsFlat(q, Len(q), f)
<1> DEFINE S == {m \in Nat : \E f : IsFlat(q, m, f)}
<1>1. 0 \in S
  <2> DEFINE f == [i \in 1 .. 0 |-> <<>>]
  <2>1. \A g : [i \in 1 .. 0 |-> FlatRound(q, g, i)] = [i \in 1 .. 0 |-> <<>>]
    OBVIOUS
  <2>2. IsFlat(q, 0, f)
    BY <2>1 DEF IsFlat
  <2> HIDE DEF f
  <2> QED BY <2>2
<1>2. \A m \in Nat : m \in S => m + 1 \in S
  <2> SUFFICES ASSUME NEW m \in Nat, m \in S PROVE \E g : IsFlat(q, m + 1, g)
    OBVIOUS
  <2>1. PICK f : IsFlat(q, m, f)
    OBVIOUS
  <2> DEFINE g == [i \in 1 .. m + 1 |-> FlatRound(q, f, i)]
  <2>2. \A i \in 1 .. m : f[i] = FlatRound(q, f, i)
    BY <2>1 DEF IsFlat
  <2>3. \A i \in 1 .. m : g[i] = f[i]
    BY <2>2
  <2>4. \A i \in 1 .. m + 1 : FlatRound(q, g, i) = FlatRound(q, f, i)
    <3> HIDE DEF g
    <3> TAKE i \in 1 .. m + 1
    <3>1. i # 1 => g[i - 1] = f[i - 1]
      BY <2>3
    <3> QED BY <3>1 DEF FlatRound
  <2>5. g = [i \in 1 .. m + 1 |-> FlatRound(q, g, i)]
    BY <2>4
  <2> HIDE DEF g
  <2> QED BY <2>5 DEF IsFlat
<1> HIDE DEF S
<1>3. Nat \subseteq S
  BY <1>1, <1>2, SetInduction
<1>4. Len(q) \in S
  BY <1>3, LenProperties
<1> QED
  BY <1>4 DEF S

LEMMA FlatUnique ==
  ASSUME NEW q \in Seq(Texts), NEW r \in Seq(Texts), NEW f, NEW g,
         IsFlat(q, Len(q), f), IsFlat(r, Len(r), g),
         Len(q) <= Len(r), \A i \in 1 .. Len(q) : r[i] = q[i]
  PROVE  \A i \in 1 .. Len(q) : g[i] = f[i] /\ f[i] \in Texts
<1> DEFINE S == {m \in Nat : m \in 1 .. Len(q) => g[m] = f[m] /\ f[m] \in Texts}
<1>1. Len(q) \in Nat /\ Len(r) \in Nat /\ \A i \in 1 .. Len(q) : q[i] \in Texts
  BY LenProperties, ElementOfSeq
<1>2. \A i \in 1 .. Len(q) : f[i] = FlatRound(q, f, i) /\ g[i] = FlatRound(r, g, i)
  <2>1. \A i \in 1 .. Len(q) : f[i] = FlatRound(q, f, i)
    BY DEF IsFlat
  <2>2. \A i \in 1 .. Len(r) : g[i] = FlatRound(r, g, i)
    BY DEF IsFlat
  <2>3. \A i \in 1 .. Len(q) : i \in 1 .. Len(r)
    BY <1>1
  <2> QED BY <2>1, <2>2, <2>3
<1>3. 0 \in S
  OBVIOUS
<1>4. \A m \in Nat : m \in S => m + 1 \in S
  <2> SUFFICES ASSUME NEW m \in Nat, m \in S, m + 1 \in 1 .. Len(q)
               PROVE  g[m + 1] = f[m + 1] /\ f[m + 1] \in Texts
    OBVIOUS
  <2>1. r[m + 1] = q[m + 1] /\ q[m + 1] \in Texts
    BY <1>1
  <2>2. CASE m = 0
    BY <1>2, <2>1, <2>2 DEF FlatRound
  <2>3. CASE m # 0
    <3>1. m \in 1 .. Len(q) /\ m + 1 # 1 /\ (m + 1) - 1 = m
      BY <1>1, <2>3
    <3>2. g[m] = f[m] /\ f[m] \in Texts
      BY <3>1
    <3>3. f[m + 1] = f[m] \o q[m + 1] /\ g[m + 1] = g[m] \o r[m + 1]
      <4>1. f[m + 1] = FlatRound(q, f, m + 1) /\ g[m + 1] = FlatRound(r, g, m + 1)
        BY <1>2
      <4>2. /\ FlatRound(q, f, m + 1) = f[(m + 1) - 1] \o q[m + 1]
            /\ FlatRound(r, g, m + 1) = g[(m + 1) - 1] \o r[m + 1]
        BY <3>1, Zenon DEF FlatRound
      <4> QED BY <3>1, <4>1, <4>2
    <3>4. f[m] \o q[m + 1] \in Texts
      BY <2>1, <3>2, ConcatProperties DEF Texts
    <3> QED BY <2>1, <3>2, <3>3, <3>4
  <2> QED BY <2>2, <2>3
<1> HIDE DEF S
<1>5. Nat \subseteq S
  BY <1>3, <1>4, SetInduction
<1>6. ASSUME NEW i \in 1 .. Len(q) PROVE g[i] = f[i] /\ f[i] \in Texts
  <2>1. i \in S
    BY <1>5
  <2> QED BY <2>1 DEF S
<1> QED
  BY <1>6

LEMMA FlattenIs ==
  ASSUME NEW q \in Seq(Texts), q # <<>>
  PROVE  \E f : IsFlat(q, Len(q), f) /\ FlattenSeq(q) = f[Len(q)]
<1> DEFINE F == CHOOSE f : IsFlat(q, Len(q), f)
<1>1. Len(q) # 0
  BY EmptySeq
<1>2. FlattenSeq(q) = F[Len(q)]
  BY <1>1 DEF FlattenSeq, IsFlat, FlatRound
<1>3. IsFlat(q, Len(q), F)
  <2>1. \E f : IsFlat(q, Len(q), f)
    BY FlatExists
  <2> QED BY <2>1, Zenon
<1> HIDE DEF F
<1> QED
  BY <1>2, <1>3

LEMMA FlattenAppend ==
  /\ FlattenSeq(<<>>) = <<>>
  /\ \A q \in Seq(Texts) : FlattenSeq(q) \in Texts
  /\ \A q \in Seq(Texts), t \in Texts : FlattenSeq(Append(q, t)) = FlattenSeq(q) \o t
<1>1. FlattenSeq(<<>>) = <<>>
  <2>1. Len(<<>>) = 0
    BY EmptySeq
  <2> QED BY <2>1 DEF FlattenSeq
<1>2. ASSUME NEW q \in Seq(Texts) PROVE FlattenSeq(q) \in Texts
  <2>1. CASE q = <<>>
    <3>1. <<>> \in Texts
      BY EmptySeq DEF Texts
    <3> QED BY <1>1, <2>1, <3>1
  <2>2. CASE q # <<>>
    <3>1. PICK f : IsFlat(q, Len(q), f) /\ FlattenSeq(q) = f[Len(q)]
      BY <2>2, FlattenIs
    <3>2. Len(q) \in 1 .. Len(q)
      BY <2>2, EmptySeq
    <3>3. Len(q) <= Len(q)
      BY <3>2
    <3> QED BY <3>1, <3>2, <3>3, FlatUnique
  <2> QED BY <2>1, <2>2
<1>3. ASSUME NEW q \in Seq(Texts), NEW t \in Texts
      PROVE  FlattenSeq(Append(q, t)) = FlattenSeq(q) \o t
  <2> DEFINE r == Append(q, t)
  <2>1. /\ r \in Seq(Texts) /\ r # <<>> /\ Len(r) = Len(q) + 1 /\ r[Len(q) + 1] = t
        /\ \A i \in 1 .. Len(q) : r[i] = q[i]
    BY AppendProperties
  <2>2. Len(q) \in Nat
    BY LenProperties
  <2> HIDE DEF r
  <2>3. PICK g : IsFlat(r, Len(r), g) /\ FlattenSeq(r) = g[Len(r)]
    BY <2>1, FlattenIs
  <2>4. g[Len(q) + 1] = FlatRound(r, g, Len(q) + 1)
    <3>1. Len(q) + 1 \in 1 .. Len(r)
      BY <2>1, <2>2
    <3> QED BY <2>3, <3>1 DEF IsFlat
  <2>5. CASE q = <<>>
    <3>1. Len(q) = 0
      BY <2>5, EmptySeq
    <3>2. FlattenSeq(r) = t
      BY <2>1, <2>3, <2>4, <3>1 DEF FlatRound
    <3>3. <<>> \o t = t
      BY ConcatEmptySeq DEF Texts
    <3> QED BY <1>1, <2>5, <3>2, <3>3 DEF r
  <2>6. CASE q # <<>>
    <3>1. PICK f : IsFlat(q, Len(q), f) /\ FlattenSeq(q) = f[Len(q)]
      BY <2>6, FlattenIs
    <3>2. Len(q) \in 1 .. Len(q) /\ Len(q) + 1 # 1 /\ (Len(q) + 1) - 1 = Len(q) /\ Len(q) <= Len(r)
      BY <2>1, <2>2, <2>6, EmptySeq
    <3>3. g[Len(q)] = f[Len(q)]
      BY <2>1, <2>3, <3>1, <3>2, FlatUnique
    <3>4. g[Len(q) + 1] = g[Len(q)] \o r[Len(q) + 1]
      <4>1. FlatRound(r, g, Len(q) + 1) = g[(Len(q) + 1) - 1] \o r[Len(q) + 1]
        BY <3>2, Zenon DEF FlatRound
      <4> QED BY <2>4, <3>2, <4>1
    <3>5. FlattenSeq(r) = g[Len(q) + 1]
      BY <2>1, <2>3
    <3> QED BY <2>1, <3>1, <3>3, <3>4, <3>5 DEF r
  <2> QED BY <2>5, <2>6
<1> QED
  BY <1>1, <1>2, <1>3

-----------------------------------------------------------------------------
(* SessionOutput: the invariant and the properties of the runs.            *)

LEMMA PushOutput ==
  ASSUME RingInv, NEW text \in Texts, NEW next, push_output(text, next)
  PROVE  /\ RingInv' /\ FlattenSeq(pushed') = FlattenSeq(pushed) \o text
         /\ sup' = next \/ sup' = Notifying[next]
<1>1. pushed \in Seq(Texts \ {<<>>}) /\ pushed \in Seq(Texts)
  <2>1. pushed \in Seq(Texts \ {<<>>})
    BY DEF RingInv, RingShape
  <2> QED BY <2>1, SeqMonotonic
<1>2. FlattenSeq(pushed) \in Texts
  BY <1>1, FlattenAppend
<1>3. CASE text = <<>> /\ sup' = next /\ UNCHANGED <<ring, pushed>>
  <2>1. RingInv'
    BY <1>3 DEF RingInv, RingShape, Consecutive, Bounded, Truncations, Retained
  <2>2. FlattenSeq(pushed) \o <<>> = FlattenSeq(pushed)
    BY <1>2, ConcatEmptySeq DEF Texts
  <2> QED BY <1>3, <2>1, <2>2
<1>4. CASE text # <<>> /\ ring' = push(text) /\ pushed' = Append(pushed, text) /\ sup' = Notifying[next]
  <2>1. RingInv'
    BY <1>4, RingKept
  <2>2. FlattenSeq(Append(pushed, text)) = FlattenSeq(pushed) \o text
    BY <1>1, FlattenAppend
  <2> QED BY <1>4, <2>1, <2>2
<1> QED
  BY <1>3, <1>4 DEF push_output

LEMMA OutputInitially == Init => OutputInv
<1> SUFFICES ASSUME Init PROVE OutputInv
  OBVIOUS
<1>1. ring = [chunks |-> <<>>, bytes |-> 0, next_seq |-> 0, truncated_seq |-> -1] /\ pushed = <<>>
  BY DEF Init
<1>2. input = <<>> /\ pending = <<>> /\ sup = "read"
  BY DEF Init
<1>3. /\ <<>> \in Seq(TextChunks) /\ <<>> \in Seq(Texts \ {<<>>}) /\ <<>> \in Seq(Bytes)
      /\ Len(<<>>) = 0
  BY EmptySeq
<1>4. Retained = {}
  <2>1. DOMAIN ring.chunks = {}
    BY <1>1, <1>3, LenProperties
  <2> QED BY <2>1 DEF Retained
<1>5. RingInv
  <2>1. RingShape
    BY <1>1, <1>3 DEF RingShape
  <2>2. Consecutive
    <3>1. DOMAIN ring.chunks = {}
      BY <1>1, <1>3, LenProperties
    <3> QED BY <1>1, <1>3, <3>1 DEF Consecutive
  <2>3. Bounded
    BY <1>1, <1>3, <1>4, EmptyText, OutputAssumption DEF Bounded
  <2>4. Truncations
    BY <1>1, <1>4 DEF Truncations
  <2> QED BY <2>1, <2>2, <2>3, <2>4 DEF RingInv
<1>6. DecodeInv
  <2> DEFINE e == <<>>
  <2>1. e \in Seq(Bytes) /\ Len(e) = 0
    BY <1>3
  <2>2. Stops(e, 1) /\ 1 \in 1 .. Len(e) + 1
    BY <2>1 DEF Stops
  <2>3. Decoding(e)[1] = Stopped(e, 1)
    BY <2>1, <2>2, DecodingIs DEF Round
  <2>4. SubSeq(e, 1, Len(e)) = <<>>
    BY <2>1, SubSeqEmpty
  <2>5. Decoded(e) = [text |-> <<>>, pending |-> <<>>]
    BY <2>3, <2>4 DEF Decoded, Stopped
  <2>6. Decoded(e).text = <<>> /\ Decoded(e).pending = <<>>
    BY <2>5
  <2>7. FlattenSeq(pushed) = <<>>
    BY <1>1, FlattenAppend
  <2> QED BY <1>2, <2>1, <2>6, <2>7 DEF DecodeInv, Reading
<1> QED
  BY <1>5, <1>6 DEF OutputInv

LEMMA OutputStep == OutputInv /\ [Next]_vars => OutputInv'
<1> SUFFICES ASSUME OutputInv, [Next]_vars PROVE OutputInv'
  OBVIOUS
<1> DEFINE d == Decoded(input)
           Ring == <<ring, pushed>>
<1>1. RingInv /\ DecodeInv /\ input \in Seq(Bytes)
  BY DEF OutputInv, DecodeInv
<1>2. d \in Decodings /\ d.text \in Texts /\ d.pending \in Seq(Bytes)
  BY <1>1, DecodedIs DEF Decodings
<1>3. ASSUME UNCHANGED Ring PROVE RingInv'
  BY <1>1, <1>3 DEF RingInv, RingShape, Consecutive, Bounded, Truncations, Retained
<1>4. ASSUME ReadTerminal PROVE OutputInv'
  <2>1. sup = "read" /\ pending = d.pending /\ FlattenSeq(pushed) = d.text
    BY <1>1, <1>4 DEF ReadTerminal, DecodeInv, Reading
  <2>2. PICK n \in 1 .. MaxInput - Len(input) : \E bytes \in [1 .. n -> Bytes] :
          /\ input' = input \o bytes /\ pending' = decode(bytes).pending
          /\ push_output(decode(bytes).text, "read")
    BY <1>4 DEF ReadTerminal
  <2>3. PICK bytes \in [1 .. n -> Bytes] :
          /\ input' = input \o bytes /\ pending' = decode(bytes).pending
          /\ push_output(decode(bytes).text, "read")
    BY <2>2
  <2>4. bytes \in Seq(Bytes)
    <3>1. n \in Nat
      BY <1>1, OutputAssumption, LenProperties
    <3> QED BY <3>1, SeqDef
  <2> DEFINE e == Decoded(d.pending \o bytes)
  <2>5. d.pending \o bytes \in Seq(Bytes)
    BY <1>2, <2>4, ConcatProperties
  <2>6. e \in Decodings /\ e.text \in Texts /\ e.pending \in Seq(Bytes)
    BY <2>5, DecodedIs DEF Decodings
  <2>7. decode(bytes) = e
    BY <2>1 DEF decode
  <2>8. Decoded(input \o bytes) = [text |-> d.text \o e.text, pending |-> e.pending]
    BY <1>1, <2>4, CutDecoding
  <2> HIDE DEF d, e
  <2>9. /\ RingInv' /\ FlattenSeq(pushed') = d.text \o e.text
        /\ sup' = "read" \/ sup' = "notify_read"
    <3>1. push_output(e.text, "read")
      BY <2>3, <2>7
    <3>2. /\ RingInv' /\ FlattenSeq(pushed') = FlattenSeq(pushed) \o e.text
          /\ sup' = "read" \/ sup' = Notifying["read"]
      BY <1>1, <2>6, <3>1, PushOutput
    <3>3. Notifying["read"] = "notify_read"
      BY DEF Notifying
    <3> QED BY <2>1, <3>2, <3>3
  <2>10. Decoded(input').text = d.text \o e.text /\ Decoded(input').pending = e.pending
    <3> DEFINE r == Decoded(input')
               t == d.text \o e.text
    <3>1. r = [text |-> t, pending |-> e.pending]
      BY <2>3, <2>8
    <3> HIDE DEF r, t
    <3>2. r.text = t /\ r.pending = e.pending
      BY <3>1, DecodingFields
    <3> QED BY <3>2 DEF r, t
  <2>11. input' \in Seq(Bytes)
    BY <1>1, <2>3, <2>4, ConcatProperties
  <2>12. pending' = e.pending
    BY <2>3, <2>7
  <2>13. DecodeInv'
    BY <2>9, <2>10, <2>11, <2>12 DEF DecodeInv, Reading
  <2> QED BY <2>9, <2>13 DEF OutputInv
<1>5. ASSUME SealOutput PROVE OutputInv'
  <2>1. sup = "read" /\ pending = d.pending /\ FlattenSeq(pushed) = d.text
    BY <1>1, <1>5 DEF SealOutput, DecodeInv, Reading
  <2>2. Rest(pending) \in Texts
    BY <1>2, <2>1, RestIs
  <2>3. /\ RingInv' /\ FlattenSeq(pushed') = d.text \o Rest(d.pending)
        /\ sup' = "finish" \/ sup' = "notify_finish"
    <3>1. push_output(Rest(pending), "finish")
      BY <1>5 DEF SealOutput
    <3>2. /\ RingInv' /\ FlattenSeq(pushed') = FlattenSeq(pushed) \o Rest(pending)
          /\ sup' = "finish" \/ sup' = Notifying["finish"]
      BY <1>1, <2>2, <3>1, PushOutput
    <3>3. Notifying["finish"] = "notify_finish"
      BY DEF Notifying
    <3> QED BY <2>1, <3>2, <3>3
  <2>4. pending' = <<>> /\ input' = input
    BY <1>5 DEF SealOutput
  <2>5. DecodeInv'
    BY <1>1, <2>3, <2>4 DEF DecodeInv, Reading
  <2> QED BY <2>3, <2>5 DEF OutputInv
<1>6. ASSUME Finish PROVE OutputInv'
  <2>1. /\ sup = "finish" /\ sup' = "notify_over"
        /\ input' = input /\ pending' = pending /\ UNCHANGED Ring
    BY <1>6 DEF Finish, Notifying
  <2>2. DecodeInv'
    BY <1>1, <2>1 DEF DecodeInv, Reading
  <2> QED BY <1>3, <2>1, <2>2 DEF OutputInv
<1>7. ASSUME Notify PROVE OutputInv'
  <2>1. input' = input /\ pending' = pending /\ UNCHANGED Ring
    BY <1>7 DEF Notify
  <2>2. \/ sup = "notify_read" /\ sup' = "read"
        \/ sup = "notify_finish" /\ sup' = "finish"
        \/ sup = "notify_over" /\ sup' = "over"
    BY <1>7 DEF Notify, Notifying
  <2>3. DecodeInv'
    BY <1>1, <2>1, <2>2 DEF DecodeInv, Reading
  <2> QED BY <1>3, <2>1, <2>3 DEF OutputInv
<1>8. ASSUME input' = input, pending' = pending, sup' = sup, UNCHANGED Ring PROVE OutputInv'
  <2>1. DecodeInv'
    BY <1>1, <1>8 DEF DecodeInv
  <2> QED BY <1>3, <1>8, <2>1 DEF OutputInv
<1>9. ASSUME Read \/ ReaderTimesOut PROVE OutputInv'
  <2>1. input' = input /\ pending' = pending /\ sup' = sup /\ UNCHANGED Ring
    BY <1>9 DEF Read, ReaderArms, ReaderLooks, ReaderWaits, ReaderTimesOut, ReaderFrame
  <2> QED BY <1>8, <2>1
<1>10. CASE UNCHANGED vars
  BY <1>8, <1>10 DEF vars
<1> QED
  BY <1>4, <1>5, <1>6, <1>7, <1>9, <1>10 DEF Next

(* The ring and the decoder, for every output and every cut of it into     *)
(* reads.                                                                  *)
THEOREM OutputInvariant == Spec => []OutputInv
<1>1. Init => OutputInv
  BY OutputInitially
<1>2. OutputInv /\ [Next]_vars => OutputInv'
  BY OutputStep
<1> QED
  BY <1>1, <1>2, PTL DEF Spec

(* OutputBuffer: the ring stays within its limits, its counters are right  *)
(* and an answer admits a loss exactly when something was lost.            *)
THEOREM RingIsKept == Spec => []RingIsExact
<1>1. OutputInv => RingIsExact
  <2> SUFFICES ASSUME OutputInv PROVE RingIsExact
    OBVIOUS
  <2>1. RingInv /\ DecodeInv
    BY DEF OutputInv
  <2>2. OverrunIsExact
    BY <2>1, AnswersAreExact
  <2>3. pending \in Seq(Bytes) /\ Len(pending) <= 2
    <3>1. Decoded(input).pending \in Seq(Bytes) /\ Len(Decoded(input).pending) <= 2
      BY <2>1, DecodedIs DEF DecodeInv, Decodings
    <3>2. <<>> \in Seq(Bytes) /\ Len(<<>>) = 0
      BY EmptySeq
    <3>3. CASE sup \in Reading
      <4>1. pending = Decoded(input).pending
        BY <2>1, <3>3 DEF DecodeInv
      <4> QED BY <3>1, <4>1
    <3>4. CASE sup \notin Reading
      <4>1. pending = <<>>
        BY <2>1, <3>4 DEF DecodeInv
      <4> QED BY <3>2, <4>1
    <3> QED BY <3>3, <3>4
  <2>4. RingAgrees
    BY <2>1, <2>3 DEF RingAgrees, RingInv, Consecutive, Bounded
  <2> QED BY <2>2, <2>4 DEF RingIsExact
<1>2. Spec => []OutputInv
  BY OutputInvariant
<1> QED
  BY <1>1, <1>2, PTL

(* Utf8StreamDecoder: what was pushed, and a replacement for what waits,   *)
(* is the text of all the bytes that were read, however they were cut.     *)
THEOREM NothingIsGarbled == Spec => []DecodesAll
<1>1. OutputInv => DecodesAll
  <2> SUFFICES ASSUME OutputInv PROVE DecodesAll
    OBVIOUS
  <2> DEFINE d == Decoded(input)
             whole == d.text \o Rest(d.pending)
  <2>1. DecodeInv /\ input \in Seq(Bytes)
    BY DEF OutputInv, DecodeInv
  <2>2. IsLossy(whole, input)
    BY <2>1, DecodedIsLossy
  <2>3. d.text \in Texts /\ d.pending \in Seq(Bytes)
    BY <2>1, DecodedIs DEF Decodings
  <2>4. whole \in Texts
    BY <2>3, RestIs, ConcatProperties DEF Texts
  <2>5. FlattenSeq(pushed) \o Rest(pending) = whole
    <3>1. CASE sup \in Reading
      BY <2>1, <3>1 DEF DecodeInv
    <3>2. CASE sup \notin Reading
      <4>1. pending = <<>> /\ FlattenSeq(pushed) = whole
        BY <2>1, <3>2 DEF DecodeInv
      <4>2. Rest(<<>>) = <<>>
        BY DEF Rest
      <4> HIDE DEF whole
      <4>3. whole \o <<>> = whole
        BY <2>4, ConcatEmptySeq DEF Texts
      <4> QED BY <4>1, <4>2, <4>3
    <3> QED BY <3>1, <3>2
  <2> HIDE DEF whole
  <2> QED BY <2>2, <2>5 DEF DecodesAll
<1>2. Spec => []OutputInv
  BY OutputInvariant
<1> QED
  BY <1>1, <1>2, PTL
=============================================================================
