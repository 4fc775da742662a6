--------------------------- MODULE HistoryProofs ----------------------------
(***************************************************************************)
(* Proofs about History.                                                   *)
(***************************************************************************)
EXTENDS HistoryInductive, InductionLemmas, FunctionTheorems, SequenceTheorems, TLAPS

-----------------------------------------------------------------------------
(* Numbers and finite sets.                                                *)

(* A finite set of numbers is bounded.                                     *)
LEMMA FiniteBound ==
  ASSUME NEW S \in SUBSET Nat, IsFiniteSet(S)
  PROVE  \E b \in Nat : \A y \in S : y <= b
<1> DEFINE Bounded(T) == \E b \in Nat : \A y \in T : y <= b
           Q == {n \in Nat : \A T \in SUBSET Nat :
                   IsFiniteSet(T) /\ Cardinality(T) = n => Bounded(T)}
<1>1. 0 \in Q
  BY FS_EmptySet
<1>2. \A n \in Nat : n \in Q => n + 1 \in Q
  <2> SUFFICES ASSUME NEW n \in Nat, n \in Q,
                      NEW T \in SUBSET Nat, IsFiniteSet(T), Cardinality(T) = n + 1
               PROVE  Bounded(T)
    <3> HIDE DEF Bounded
    <3> QED OBVIOUS
  <2>1. T # {}
    BY FS_EmptySet
  <2>2. PICK x \in T : TRUE
    BY <2>1
  <2>3. IsFiniteSet(T \ {x}) /\ Cardinality(T \ {x}) = n
    <3>1. IsFiniteSet(T \ {x}) /\ Cardinality(T \ {x}) = Cardinality(T) - 1
      BY <2>2, FS_RemoveElement
    <3> QED
      BY <3>1
  <2>4. PICK b \in Nat : \A y \in T \ {x} : y <= b
    BY <2>3
  <2>5. \A y \in T : y <= b + x
    BY <2>4
  <2> QED
    BY <2>5
<1>3. Nat \subseteq Q
  <2> HIDE DEF Q
  <2> QED BY <1>1, <1>2, SetInduction
<1> QED
  BY <1>3, FS_CardinalityType

(* Max returns the greatest number of a finite set.                        *)
LEMMA MaxOf ==
  ASSUME NEW S \in SUBSET Nat, IsFiniteSet(S), S # {}
  PROVE  Max(S) \in S /\ \A y \in S : y <= Max(S)
<1>1. PICK b \in Nat : \A y \in S : y <= b
  BY FiniteBound
<1> DEFINE U == {u \in Nat : \A y \in S : y <= u}
<1>2. U # {}
  BY <1>1
<1>3. PICK u \in U : \A v \in U : u <= v
  <2> HIDE DEF U
  <2>1. U \in SUBSET Nat
    BY DEF U
  <2> QED BY <1>2, <2>1, LeastExists
<1>4. u \in S
  <2> SUFFICES ASSUME u \notin S PROVE FALSE
    OBVIOUS
  <2>1. \A y \in S : y <= u - 1
    BY <1>3
  <2>2. u - 1 \in Nat
    <3>1. PICK y \in S : TRUE
      OBVIOUS
    <3>2. y \in Nat /\ u \in Nat /\ y <= u - 1
      BY <2>1, <3>1
    <3> QED
      BY <3>2
  <2>3. u - 1 \in U
    BY <2>1, <2>2
  <2> QED
    BY <2>3, <1>3
<1>5. \E x \in S : \A y \in S : x >= y
  BY <1>3, <1>4
<1>6. Max(S) \in S /\ \A y \in S : Max(S) >= y
  BY <1>5 DEF Max
<1> QED
  BY <1>6

(* Min returns the least number of a set.                                  *)
LEMMA MinOf ==
  ASSUME NEW S \in SUBSET Nat, S # {}
  PROVE  Min(S) \in S /\ \A y \in S : Min(S) <= y
<1>1. \E x \in S : \A y \in S : x <= y
  BY LeastExists
<1> QED
  BY <1>1 DEF Min

(* The image of a finite set under a function is finite.                   *)
LEMMA FiniteImage ==
  ASSUME NEW S, IsFiniteSet(S), NEW f, DOMAIN f = S, f = [x \in S |-> f[x]]
  PROVE  IsFiniteSet({f[x] : x \in S})
<1> DEFINE T == {f[x] : x \in S}
<1>1. f \in Surjection(S, T)
  BY DEF Surjection
<1> HIDE DEF T
<1>2. IsFiniteSet(T)
  BY <1>1, FS_Surjection
<1> QED
  BY <1>2 DEF T

(* The numbers of finitely many events.                                    *)
LEMMA SeqsFinite ==
  ASSUME NEW E \in FiniteSets_(Events)
  PROVE  Seqs(E) \in FiniteSets_(Nat \ {0})
<1> DEFINE f == [e \in E |-> e.seq]
<1>1. IsFiniteSet(E) /\ E \subseteq Events
  BY DEF FiniteSets_
<1>2. IsFiniteSet({f[e] : e \in E})
  <2>1. DOMAIN f = E /\ f = [x \in E |-> f[x]]
    OBVIOUS
  <2> HIDE DEF f
  <2> QED BY <1>1, <2>1, FiniteImage
<1>3. Seqs(E) = {f[e] : e \in E}
  BY DEF Seqs
<1>4. \A e \in Events : e.seq \in Nat \ {0}
  BY DEF Events
<1> QED
  BY <1>1, <1>2, <1>3, <1>4 DEF FiniteSets_, Seqs


(* A finite set of events has a newest one.                                *)
LEMMA NewestExists ==
  ASSUME NEW E \in FiniteSets_(Events), E # {}
  PROVE  \E m \in E : \A e \in E : e.seq <= m.seq
<1>1. Seqs(E) \in SUBSET Nat /\ IsFiniteSet(Seqs(E))
  BY SeqsFinite DEF FiniteSets_
<1>2. Seqs(E) # {}
  BY DEF Seqs
<1>3. Max(Seqs(E)) \in Seqs(E) /\ \A y \in Seqs(E) : y <= Max(Seqs(E))
  BY <1>1, <1>2, MaxOf
<1>4. PICK m \in E : Max(Seqs(E)) = m.seq
  BY <1>3 DEF Seqs
<1> QED
  BY <1>3, <1>4 DEF Seqs

(* The fields of an event.                                                 *)
LEMMA EventFields ==
  ASSUME NEW e \in Events
  PROVE  /\ e.seq \in Nat /\ e.seq > 0 /\ e.offset \in Nat /\ e.kind \in Kinds
         /\ e.kind = "output" => e.work \in Works
BY DEF Events

(* A part of a finite set of events is finite.                             *)
LEMMA PartFinite ==
  ASSUME NEW S, NEW E \in FiniteSets_(S), NEW D \in SUBSET E
  PROVE  D \in FiniteSets_(S) /\ IsFiniteSet(D) /\ D \subseteq S
BY FS_Subset DEF FiniteSets_

(* So is a union.                                                          *)
LEMMA UnionFinite ==
  ASSUME NEW S, NEW D \in FiniteSets_(S), NEW E \in FiniteSets_(S)
  PROVE  D \cup E \in FiniteSets_(S)
<1>1. IsFiniteSet(D) /\ IsFiniteSet(E)
  BY DEF FiniteSets_
<1>2. IsFiniteSet(D \cup E)
  <2> DEFINE Q == {n \in Nat : \A T \in SUBSET E : Cardinality(T) = n => IsFiniteSet(D \cup T)}
  <2>1. 0 \in Q
    <3> SUFFICES ASSUME NEW T \in SUBSET E, Cardinality(T) = 0
                 PROVE  IsFiniteSet(D \cup T)
      OBVIOUS
    <3>1. IsFiniteSet(T)
      BY <1>1, FS_Subset
    <3>2. T = {}
      BY <3>1, FS_EmptySet
    <3>3. D \cup T = D
      BY <3>2
    <3> QED
      BY <1>1, <3>3
  <2>2. \A n \in Nat : n \in Q => n + 1 \in Q
    <3> SUFFICES ASSUME NEW n \in Nat, n \in Q, NEW T \in SUBSET E, Cardinality(T) = n + 1
                 PROVE  IsFiniteSet(D \cup T)
      OBVIOUS
    <3>1. IsFiniteSet(T)
      BY <1>1, FS_Subset
    <3>2. Cardinality({}) = 0
      BY FS_EmptySet
    <3>3. T # {}
      BY <3>2
    <3>4. PICK x \in T : TRUE
      BY <3>3
    <3>5. Cardinality(T \ {x}) = Cardinality(T) - 1
      BY <3>1, <3>4, FS_RemoveElement
    <3>6. Cardinality(T \ {x}) = n
      BY <3>5
    <3>7. IsFiniteSet(D \cup (T \ {x}))
      BY <3>6
    <3>8. IsFiniteSet((D \cup (T \ {x})) \cup {x})
      BY <3>7, FS_AddElement
    <3>9. (D \cup (T \ {x})) \cup {x} = D \cup T
      BY <3>4
    <3> QED
      BY <3>8, <3>9
  <2>3. Nat \subseteq Q
    <3> HIDE DEF Q
    <3> QED BY <2>1, <2>2, SetInduction
  <2>4. Cardinality(E) \in Nat
    BY <1>1, FS_CardinalityType
  <2> QED
    BY <2>3, <2>4
<1> QED
  BY <1>2 DEF FiniteSets_

(* Events with different numbers of which each has fewer than n newer ones *)
(* around it are at most n.                                                *)
LEMMA CountKept ==
  ASSUME NEW E \in FiniteSets_(Events), NEW K \in SUBSET E, NEW n \in Nat, n > 0,
         \A e, f \in E : e.seq = f.seq => e = f,
         \A e \in K : Cardinality({f \in E : f.seq > e.seq}) < n
  PROVE  Cardinality(K) <= n
<1>1. IsFiniteSet(K) /\ K \subseteq Events
  BY PartFinite DEF FiniteSets_
<1>2. CASE K = {}
  <2>1. Cardinality(K) = 0
    BY <1>2, FS_EmptySet
  <2> QED
    BY <2>1
<1>3. CASE K # {}
  <2>1. Seqs(K) \in SUBSET Nat /\ Seqs(K) # {}
    BY <1>1, <1>3, EventFields DEF Seqs
  <2>2. Min(Seqs(K)) \in Seqs(K) /\ \A y \in Seqs(K) : Min(Seqs(K)) <= y
    BY <2>1, MinOf
  <2>3. PICK m \in K : m.seq = Min(Seqs(K))
    BY <2>2 DEF Seqs
  <2> DEFINE L == {f \in E : f.seq > m.seq}
  <2>4. \A e \in K \ {m} : e \in L
    <3> SUFFICES ASSUME NEW e \in K \ {m} PROVE e.seq > m.seq
      OBVIOUS
    <3>1. m.seq <= e.seq
      BY <2>2, <2>3 DEF Seqs
    <3>2. m.seq # e.seq
      OBVIOUS
    <3>3. m.seq \in Nat /\ e.seq \in Nat
      BY <1>1, EventFields
    <3> QED
      BY <3>1, <3>2, <3>3
  <2>5. IsFiniteSet(L) /\ Cardinality(L) < n
    BY FS_Subset DEF FiniteSets_
  <2>6. Cardinality(K \ {m}) <= Cardinality(L)
    <3> HIDE DEF L
    <3> QED BY <2>4, <2>5, FS_Subset
  <2>7. Cardinality(K \ {m}) = Cardinality(K) - 1
    BY <1>1, <2>3, FS_RemoveElement
  <2>8. Cardinality(K) \in Nat /\ Cardinality(L) \in Nat
    BY <1>1, <2>5, FS_CardinalityType
  <2> HIDE DEF L
  <2> QED
    BY <2>5, <2>6, <2>7, <2>8
<1> QED
  BY <1>2, <1>3

-----------------------------------------------------------------------------
(* Retention and replay.                                                   *)

(* The parts of a reader.                                                  *)
LEMMA ReaderParts ==
  ASSUME NEW r \in Readers
  PROVE  /\ r.events \in FiniteSets_(Events) /\ IsFiniteSet(r.events) /\ r.events \subseteq Events
         /\ r.state \in States /\ r.state.gaps \in FiniteSets_(Nat)
         /\ r.state.next \in Nat /\ r.state.earliest \in Nat
         /\ r.state.windows \in [Works -> Nat]
BY DEF Readers, States, FiniteSets_

(* prune keeps the newest event unless it has expired, and of events with  *)
(* different numbers no more than MaxEvents.                               *)
LEMMA PruneEvents ==
  ASSUME NEW r \in Readers, world.expired \in Nat
  PROVE  /\ prune(r).events = r.events \ Pruned(r.events)
         /\ \A e \in r.events :
              e.seq <= world.expired \/ \E f \in prune(r).events : e.seq <= f.seq
         /\ (\A e, f \in r.events : e.seq = f.seq => e = f)
              => Cardinality(prune(r).events) <= MaxEvents
<1>1. r.events \in FiniteSets_(Events) /\ IsFiniteSet(r.events) /\ r.events \subseteq Events
  BY ReaderParts
<1>2. prune(r).events = r.events \ Pruned(r.events)
  BY DEF prune
<1>3. MaxEvents \in Nat /\ MaxEvents > 0
  BY HistoryAssumption
<1>4. ASSUME NEW e \in r.events, ~(e.seq <= world.expired)
      PROVE  \E f \in prune(r).events : e.seq <= f.seq
  <2>1. PICK m \in r.events : \A d \in r.events : d.seq <= m.seq
    BY <1>1, <1>4, NewestExists
  <2>2. m.seq \in Nat /\ e.seq \in Nat /\ e.seq <= m.seq
    BY <1>1, <2>1, EventFields
  <2>3. {f \in r.events : f.seq > m.seq} = {}
    <3> SUFFICES ASSUME NEW f \in r.events, f.seq > m.seq PROVE FALSE
      OBVIOUS
    <3>1. f.seq \in Nat /\ f.seq <= m.seq
      BY <1>1, <2>1, EventFields
    <3> QED
      BY <3>1, <2>2
  <2>4. Cardinality({f \in r.events : f.seq > m.seq}) = 0
    BY <2>3, FS_EmptySet
  <2>5. ~(m.seq <= world.expired)
    BY <1>4, <2>2
  <2>6. m \notin Pruned(r.events)
    BY <2>4, <2>5, <1>3 DEF Pruned
  <2> QED
    BY <2>1, <2>6, <1>2
<1>5. ASSUME \A e, f \in r.events : e.seq = f.seq => e = f
      PROVE  Cardinality(prune(r).events) <= MaxEvents
  <2>1. ASSUME NEW e \in prune(r).events
        PROVE  Cardinality({f \in r.events : f.seq > e.seq}) < MaxEvents
    <3> DEFINE L == {f \in r.events : f.seq > e.seq}
    <3>1. IsFiniteSet(L)
      BY <1>1, FS_Subset
    <3>2. Cardinality(L) \in Nat
      <4> HIDE DEF L
      <4> QED BY <3>1, FS_CardinalityType
    <3>3. ~(Cardinality(L) >= MaxEvents)
      BY <2>1, <1>2 DEF Pruned
    <3> HIDE DEF L
    <3>4. Cardinality(L) < MaxEvents
      BY <3>2, <3>3, <1>3
    <3> QED
      BY <3>4 DEF L
  <2>2. prune(r).events \in SUBSET r.events
    BY <1>2
  <2> QED
    BY <1>1, <1>3, <1>5, <2>1, <2>2, CountKept
<1> QED
  BY <1>2, <1>4, <1>5

(* What prune makes of the state: removed numbers become gaps, and what is *)
(* kept is above the earliest number.                                      *)
LEMMA PruneState ==
  ASSUME NEW r \in Readers, world.expired \in Nat,
         \A e \in r.events : e.seq <= r.state.next
  PROVE  /\ prune(r) \in Readers
         /\ prune(r).state.next = r.state.next
         /\ prune(r).state.gaps = r.state.gaps \cup Seqs(Pruned(r.events))
         /\ prune(r).state.earliest <= r.state.next
         /\ \A e \in prune(r).events : prune(r).state.earliest < e.seq
         /\ \A w \in Works : prune(r).state.windows[w] \in {0, r.state.windows[w]}
<1> DEFINE K == r.events \ Pruned(r.events)
           earliest == IF K = {} THEN r.state.next ELSE Min(Seqs(K)) - 1
           windows == [w \in Works |-> IF \E e \in K : e.work = w
                                       THEN r.state.windows[w] ELSE 0]
           gaps == r.state.gaps \cup Seqs(Pruned(r.events))
<1>1. /\ r.events \in FiniteSets_(Events) /\ r.events \subseteq Events
      /\ r.state \in States /\ r.state.gaps \in FiniteSets_(Nat)
      /\ r.state.next \in Nat /\ r.state.windows \in [Works -> Nat]
  BY ReaderParts
<1>2. prune(r) = [events |-> K, state |-> [r.state EXCEPT !.gaps = gaps, !.earliest = earliest,
                                                          !.windows = windows]]
  BY <1>1 DEF prune, States
<1>3. /\ earliest \in Nat /\ earliest <= r.state.next
      /\ \A e \in K : earliest < e.seq
  <2>1. CASE K = {}
    BY <2>1, <1>1
  <2>2. CASE K # {}
    <3> DEFINE m == Min(Seqs(K))
    <3>1. Seqs(K) \in SUBSET (Nat \ {0}) /\ Seqs(K) # {}
      BY <2>2, <1>1, EventFields DEF Seqs
    <3>2. m \in Seqs(K) /\ \A y \in Seqs(K) : m <= y
      <4>1. Seqs(K) \in SUBSET Nat
        BY <3>1
      <4> HIDE DEF K
      <4> QED BY <3>1, <4>1, MinOf
    <3>3. PICK k \in K : m = k.seq
      BY <3>2 DEF Seqs
    <3>4. m <= r.state.next
      BY <3>3
    <3>5. \A e \in K : e.seq \in Nat /\ m <= e.seq
      BY <3>2, <1>1, EventFields DEF Seqs
    <3>6. m \in Nat \ {0}
      BY <3>1, <3>2
    <3> HIDE DEF m
    <3>7. earliest = m - 1
      BY <2>2 DEF m
    <3> HIDE DEF earliest, K
    <3> QED
      BY <3>4, <3>5, <3>6, <3>7, <1>1
  <2> QED
    BY <2>1, <2>2
<1>4. gaps \in FiniteSets_(Nat)
  <2>1. Pruned(r.events) \in SUBSET r.events
    BY DEF Pruned
  <2>2. Pruned(r.events) \in FiniteSets_(Events)
    BY <1>1, <2>1, PartFinite
  <2>3. Seqs(Pruned(r.events)) \in FiniteSets_(Nat)
    BY <2>2, SeqsFinite DEF FiniteSets_
  <2> QED
    BY <1>1, <2>3, UnionFinite
<1>5. windows \in [Works -> Nat]
  BY <1>1
<1>6. K \in FiniteSets_(Events)
  BY <1>1, PartFinite
<1> HIDE DEF K, earliest, windows, gaps
<1> DEFINE st == [r.state EXCEPT !.gaps = gaps, !.earliest = earliest, !.windows = windows]
<1>7. /\ st \in States /\ st.next = r.state.next /\ st.gaps = gaps
      /\ st.earliest = earliest /\ st.windows = windows
  BY <1>1, <1>3, <1>4, <1>5 DEF States
<1>8. prune(r).events = K /\ prune(r).state = st /\ prune(r) \in Readers
  <2>1. prune(r) = [events |-> K, state |-> st]
    BY <1>2
  <2> HIDE DEF st
  <2> QED
    BY <2>1, <1>6, <1>7 DEF Readers
<1>9. \A w \in Works : windows[w] \in {0, r.state.windows[w]}
  BY DEF windows
<1> QED
  BY <1>3, <1>7, <1>8, <1>9 DEF gaps

(* track_tail drops output only, and only where newer output is kept.      *)
LEMMA TrimmedIsOld ==
  ASSUME NEW E \in FiniteSets_(Events), NEW e \in Trimmed(E)
  PROVE  /\ e \in E /\ e.kind = "output"
         /\ \E f \in Tail_(E \ Trimmed(E), e.work) : e.seq < f.seq
<1>1. PICK w \in Works :
        /\ e \in Tail_(E, w)
        /\ Cardinality({f \in Tail_(E, w) : f.seq > e.seq}) >= TailBytes
  BY DEF Trimmed
<1>2. e \in E /\ e.kind = "output" /\ e.work = w
  BY <1>1 DEF Tail_
<1> DEFINE L == {f \in Tail_(E, w) : f.seq > e.seq}
<1>3. L # {}
  <2>1. TailBytes \in Nat /\ TailBytes > 0
    BY HistoryAssumption
  <2>2. Cardinality({}) = 0
    BY FS_EmptySet
  <2> QED
    BY <1>1, <2>1, <2>2
<1>4. L \in SUBSET E
  BY DEF Tail_
<1>5. L \in FiniteSets_(Events) /\ E \subseteq Events
  <2> HIDE DEF L
  <2> QED BY <1>4, PartFinite DEF FiniteSets_
<1>6. PICK m \in L : \A f \in L : f.seq <= m.seq
  <2> HIDE DEF L
  <2> QED BY <1>3, <1>5, NewestExists
<1>7. m \in Events /\ m \in E /\ m \in Tail_(E, w) /\ m.seq > e.seq /\ e \in Events
  BY <1>2, <1>4, <1>5, <1>6
<1>8. m.work = w /\ m.kind = "output"
  BY <1>7 DEF Tail_
<1>9. m.seq \in Nat /\ e.seq \in Nat
  BY <1>7, EventFields
<1>10. m \notin Trimmed(E)
  <2> SUFFICES ASSUME NEW v \in Works, m \in Tail_(E, v),
                      Cardinality({f \in Tail_(E, v) : f.seq > m.seq}) >= TailBytes
               PROVE  FALSE
    BY DEF Trimmed
  <2>1. v = w
    BY <1>8 DEF Tail_
  <2>2. {f \in Tail_(E, v) : f.seq > m.seq} = {}
    <3> SUFFICES ASSUME NEW f \in Tail_(E, v), f.seq > m.seq PROVE FALSE
      OBVIOUS
    <3>1. f \in Events
      BY <1>5 DEF Tail_
    <3>2. f.seq \in Nat
      BY <3>1, EventFields
    <3>3. f \in L
      BY <2>1, <3>2, <1>7, <1>9
    <3>4. f.seq <= m.seq
      BY <3>3, <1>6
    <3> QED
      BY <3>2, <3>4, <1>9
  <2>3. Cardinality({f \in Tail_(E, v) : f.seq > m.seq}) = 0
    BY <2>2, FS_EmptySet
  <2> QED
    BY <2>3, HistoryAssumption
<1>11. m \in Tail_(E \ Trimmed(E), w)
  BY <1>7, <1>10 DEF Tail_
<1> QED
  BY <1>2, <1>7, <1>9, <1>11

(* The state after track_tail: trimmed numbers become gaps, and a window   *)
(* begins at output that is kept.                                          *)
LEMMA TrackTail ==
  ASSUME NEW r \in Readers
  PROVE  /\ track_tail(r) \in Readers
         /\ track_tail(r).events = r.events \ Trimmed(r.events)
         /\ track_tail(r).state.next = r.state.next
         /\ track_tail(r).state.earliest = r.state.earliest
         /\ track_tail(r).state.open = r.state.open
         /\ track_tail(r).state.gaps = r.state.gaps \cup Seqs(Trimmed(r.events))
         /\ \A w \in Works :
              \/ track_tail(r).state.windows[w] = r.state.windows[w]
              \/ \E f \in track_tail(r).events :
                   /\ f.kind = "output" /\ f.work = w
                   /\ track_tail(r).state.windows[w] = f.offset
<1> DEFINE gone == Trimmed(r.events)
           K == r.events \ gone
           windows == [w \in Works |-> IF gone \cap Tail_(r.events, w) = {}
                                       THEN r.state.windows[w]
                                       ELSE Min({e.offset : e \in Tail_(K, w)})]
           gaps == r.state.gaps \cup Seqs(gone)
           st == [r.state EXCEPT !.gaps = gaps, !.windows = windows]
<1>1. /\ r.events \in FiniteSets_(Events) /\ r.events \subseteq Events
      /\ r.state \in States /\ r.state.gaps \in FiniteSets_(Nat)
      /\ r.state.windows \in [Works -> Nat]
  BY ReaderParts
<1>2. track_tail(r) = [events |-> K, state |-> st]
  <2>1. track_tail(r) = [r EXCEPT !.events = K, !.state.gaps = gaps, !.state.windows = windows]
    BY DEF track_tail
  <2>2. r = [events |-> r.events, state |-> r.state]
    BY DEF Readers
  <2> HIDE DEF K, windows, gaps
  <2> QED
    BY <2>1, <2>2, <1>1 DEF States
<1>3. ASSUME NEW w \in Works, gone \cap Tail_(r.events, w) # {}
      PROVE  \E f \in K : f.kind = "output" /\ f.work = w /\ windows[w] = f.offset
  <2>1. PICK e \in gone : e \in Tail_(r.events, w)
    BY <1>3
  <2>2. e.work = w
    BY <2>1 DEF Tail_
  <2>3. PICK f \in Tail_(K, w) : TRUE
    BY <1>1, <2>1, <2>2, TrimmedIsOld
  <2> DEFINE O == {k.offset : k \in Tail_(K, w)}
  <2>4. O \in SUBSET Nat /\ O # {}
    BY <2>3, <1>1, EventFields DEF Tail_
  <2>5. Min(O) \in O
    <3> HIDE DEF O
    <3> QED BY <2>4, MinOf
  <2>6. windows[w] = Min(O)
    BY <1>3
  <2> HIDE DEF windows
  <2> QED
    BY <2>5, <2>6 DEF Tail_
<1>4. windows \in [Works -> Nat]
  <2>1. ASSUME NEW w \in Works PROVE windows[w] \in Nat
    <3>1. CASE gone \cap Tail_(r.events, w) = {}
      BY <3>1, <1>1
    <3>2. CASE gone \cap Tail_(r.events, w) # {}
      BY <3>2, <1>1, <1>3, EventFields
    <3> QED
      BY <3>1, <3>2
  <2>2. windows = [w \in Works |-> windows[w]]
    OBVIOUS
  <2> HIDE DEF windows
  <2> QED
    BY <2>1, <2>2
<1>5. gone \in SUBSET r.events
  BY DEF Trimmed, Tail_
<1>6. gone \in FiniteSets_(Events) /\ K \in FiniteSets_(Events)
  BY <1>1, <1>5, PartFinite
<1>7. gaps \in FiniteSets_(Nat)
  <2>1. Seqs(gone) \in FiniteSets_(Nat)
    BY <1>6, SeqsFinite DEF FiniteSets_
  <2> QED
    BY <1>1, <2>1, UnionFinite
<1>8. \A w \in Works :
        \/ windows[w] = r.state.windows[w]
        \/ \E f \in K : f.kind = "output" /\ f.work = w /\ windows[w] = f.offset
  BY <1>3
<1> HIDE DEF K, windows, gaps
<1>9. /\ st \in States /\ st.next = r.state.next /\ st.gaps = gaps /\ st.open = r.state.open
      /\ st.earliest = r.state.earliest /\ st.windows = windows
  BY <1>1, <1>4, <1>7 DEF States
<1>10. track_tail(r).events = K /\ track_tail(r).state = st /\ track_tail(r) \in Readers
  <2> HIDE DEF st
  <2> QED
    BY <1>2, <1>6, <1>9 DEF Readers
<1> QED
  BY <1>8, <1>9, <1>10 DEF K, gaps

(* Finitely many works are open after finitely many events.                *)
LEMMA LifecycleFinite ==
  ASSUME NEW open \in FiniteSets_(Works), NEW E \in FiniteSets_(Events)
  PROVE  apply_lifecycle(open, E) \in FiniteSets_(Works)
<1> DEFINE S == {e \in E : e.kind = "started"}
           f == [e \in S |-> e.work]
           W == {f[e] : e \in S}
<1>1. S \in SUBSET E
  OBVIOUS
<1>2. IsFiniteSet(S) /\ S \subseteq Events
  <2> HIDE DEF S
  <2> QED BY <1>1, PartFinite
<1>3. IsFiniteSet(W)
  <2>1. DOMAIN f = S /\ f = [x \in S |-> f[x]]
    OBVIOUS
  <2> HIDE DEF f, S
  <2> QED BY <1>2, <2>1, FiniteImage
<1>4. W \in FiniteSets_(Works)
  <2>1. \A e \in S : f[e] \in Works
    BY <1>2 DEF Events
  <2> HIDE DEF f, S
  <2> QED
    BY <1>3, <2>1 DEF FiniteSets_
<1>5. apply_lifecycle(open, E) \subseteq open \cup W
  <2> SUFFICES ASSUME NEW w \in apply_lifecycle(open, E), w \notin open PROVE w \in W
    OBVIOUS
  <2>1. \E e \in E : e.work = w /\ e.kind = "started"
    BY DEF apply_lifecycle
  <2> QED
    BY <2>1
<1> HIDE DEF W
<1>6. open \cup W \in FiniteSets_(Works)
  BY <1>4, UnionFinite
<1> QED
  BY <1>5, <1>6, PartFinite

(* Replay shows what was not given up, and its head is above every number  *)
(* the files know.                                                         *)
LEMMA ReplayState ==
  ASSUME NEW j \in Journals, NEW s \in States
  PROVE  /\ Replay(j, s) \in Readers
         /\ Replay(j, s).events = {e \in j.lines : ~Retired(e, s)}
         /\ s.next <= Replay(j, s).state.next
         /\ \A e \in j.lines : e.seq <= Replay(j, s).state.next
         /\ \A n \in Replay(j, s).state.gaps : n <= Replay(j, s).state.next
         /\ Replay(j, s).state.earliest = s.earliest
         /\ Replay(j, s).state.windows = s.windows
         /\ Replay(j, s).state.open
              = apply_lifecycle(s.open, {e \in j.lines : e.seq > s.next})
<1> DEFINE head == Max({s.next} \cup Seqs(j.lines))
           high == Max({head} \cup s.gaps)
           lost == IF j.torn THEN {high + 1} ELSE {}
           next == Max({high} \cup lost)
           gaps == s.gaps \cup ((head + 1) .. high) \cup lost
           open == apply_lifecycle(s.open, {e \in j.lines : e.seq > s.next})
           E == {e \in j.lines : ~Retired(e, s)}
           st == [s EXCEPT !.next = next, !.open = open, !.gaps = gaps]
<1>1. /\ j.lines \in FiniteSets_(Events) /\ j.lines \subseteq Events
      /\ s.next \in Nat /\ s.gaps \in FiniteSets_(Nat) /\ s.open \in FiniteSets_(Works)
      /\ s.gaps \subseteq Nat
  BY DEF Journals, States, FiniteSets_
<1>2. Replay(j, s) = [events |-> E, state |-> st]
  BY DEF Replay
<1>3. head \in Nat /\ s.next <= head /\ \A e \in j.lines : e.seq <= head
  <2> DEFINE N == {s.next} \cup Seqs(j.lines)
  <2>1. Seqs(j.lines) \in FiniteSets_(Nat)
    BY <1>1, SeqsFinite DEF FiniteSets_
  <2>2. {s.next} \in FiniteSets_(Nat)
    BY <1>1, FS_Singleton DEF FiniteSets_
  <2>3. N \in FiniteSets_(Nat)
    BY <2>1, <2>2, UnionFinite
  <2>4. N \in SUBSET Nat /\ IsFiniteSet(N) /\ N # {}
    BY <2>3 DEF FiniteSets_
  <2>5. Max(N) \in N /\ \A y \in N : y <= Max(N)
    <3> HIDE DEF N
    <3> QED BY <2>4, MaxOf
  <2>6. Max(N) \in Nat /\ head = Max(N)
    BY <2>4, <2>5
  <2>7. \A e \in j.lines : e.seq \in N
    BY DEF Seqs
  <2>8. s.next \in N
    OBVIOUS
  <2> HIDE DEF N, head
  <2> QED
    BY <2>5, <2>6, <2>7, <2>8
<1>4. high \in Nat /\ head <= high /\ \A n \in s.gaps : n <= high
  <2> DEFINE N == {head} \cup s.gaps
  <2> HIDE DEF head
  <2>2. {head} \in FiniteSets_(Nat)
    BY <1>3, FS_Singleton DEF FiniteSets_
  <2>3. N \in FiniteSets_(Nat)
    BY <1>1, <2>2, UnionFinite
  <2>4. N \in SUBSET Nat /\ IsFiniteSet(N) /\ N # {}
    BY <2>3 DEF FiniteSets_
  <2>5. Max(N) \in N /\ \A y \in N : y <= Max(N)
    <3> HIDE DEF N
    <3> QED BY <2>4, MaxOf
  <2>6. Max(N) \in Nat /\ high = Max(N)
    BY <2>4, <2>5
  <2>7. head \in N /\ \A n \in s.gaps : n \in N
    OBVIOUS
  <2> HIDE DEF N, high
  <2> QED
    BY <2>5, <2>6, <2>7
<1> HIDE DEF head, high
<1>5. lost \in FiniteSets_(Nat)
  <2>1. high + 1 \in Nat /\ IsFiniteSet({high + 1}) /\ IsFiniteSet({})
    <3>1. \A x : IsFiniteSet({x})
      BY FS_Singleton
    <3>2. IsFiniteSet({high + 1})
      BY <3>1
    <3> QED
      BY <1>4, <3>2, FS_EmptySet
  <2>2. CASE j.torn
    BY <2>1, <2>2 DEF FiniteSets_
  <2>3. CASE ~j.torn
    BY <2>1, <2>3 DEF FiniteSets_
  <2> QED
    BY <2>2, <2>3
<1>6. next \in Nat /\ high <= next /\ \A n \in lost : n <= next
  <2> DEFINE N == {high} \cup lost
  <2> HIDE DEF lost
  <2>2. {high} \in FiniteSets_(Nat)
    BY <1>4, FS_Singleton DEF FiniteSets_
  <2>3. N \in FiniteSets_(Nat)
    BY <1>5, <2>2, UnionFinite
  <2>4. N \in SUBSET Nat /\ IsFiniteSet(N) /\ N # {}
    BY <2>3 DEF FiniteSets_
  <2>5. Max(N) \in N /\ \A y \in N : y <= Max(N)
    <3> HIDE DEF N
    <3> QED BY <2>4, MaxOf
  <2>6. Max(N) \in Nat /\ next = Max(N)
    BY <2>4, <2>5
  <2>7. high \in N /\ \A n \in lost : n \in N
    OBVIOUS
  <2> HIDE DEF N, next
  <2> QED
    BY <2>5, <2>6, <2>7
<1>7. gaps \in FiniteSets_(Nat) /\ \A n \in gaps : n \in Nat /\ n <= next
  <2> HIDE DEF lost, next
  <2>1. (head + 1) .. high \in FiniteSets_(Nat)
    <3>1. (head + 1) \in Int /\ high \in Int
      BY <1>3, <1>4
    <3>2. IsFiniteSet((head + 1) .. high)
      BY <3>1, FS_Interval
    <3>3. (head + 1) .. high \subseteq Nat
      BY <1>3, <1>4
    <3> QED
      BY <3>2, <3>3 DEF FiniteSets_
  <2>2. gaps \in FiniteSets_(Nat)
    BY <1>1, <1>5, <2>1, UnionFinite
  <2>3. ASSUME NEW n \in gaps PROVE n \in Nat /\ n <= next
    <3>1. CASE n \in s.gaps
      BY <3>1, <1>1, <1>4, <1>6
    <3>2. CASE n \in (head + 1) .. high
      BY <3>2, <1>3, <1>4, <1>6
    <3>3. CASE n \in lost
      BY <3>3, <1>5, <1>6 DEF FiniteSets_
    <3> QED
      BY <3>1, <3>2, <3>3
  <2> QED
    BY <2>2, <2>3
<1>8. open \in FiniteSets_(Works) /\ E \in FiniteSets_(Events)
  <2>1. {e \in j.lines : e.seq > s.next} \in FiniteSets_(Events) /\ E \in FiniteSets_(Events)
    BY <1>1, PartFinite
  <2> HIDE DEF E
  <2> QED
    BY <2>1, <1>1, LifecycleFinite
<1>9. \A e \in j.lines : e.seq <= next
  <2> HIDE DEF next
  <2> SUFFICES ASSUME NEW e \in j.lines PROVE e.seq <= next
    OBVIOUS
  <2>1. e.seq \in Nat /\ e.seq <= head
    BY <1>1, <1>3, EventFields
  <2> QED
    BY <2>1, <1>3, <1>4, <1>6
<1>10. s.next <= next
  <2> HIDE DEF next
  <2> QED BY <1>1, <1>3, <1>4, <1>6
<1> HIDE DEF next, gaps, open, E
<1>11. /\ st \in States /\ st.next = next /\ st.open = open /\ st.gaps = gaps
       /\ st.earliest = s.earliest /\ st.windows = s.windows
  BY <1>1, <1>6, <1>7, <1>8 DEF States
<1>12. Replay(j, s).events = E /\ Replay(j, s).state = st /\ Replay(j, s) \in Readers
  <2> HIDE DEF st
  <2> QED
    BY <1>2, <1>8, <1>11 DEF Readers
<1> QED
  BY <1>7, <1>9, <1>10, <1>11, <1>12 DEF E, open

-----------------------------------------------------------------------------
(* Shape.                                                                  *)

(* The events of a sequence of messages.                                   *)
LEMMA MessageEvents ==
  ASSUME NEW q \in Seq(Messages)
  PROVE  /\ {q[i].event : i \in DOMAIN q} \in FiniteSets_(Events)
         /\ \A i \in DOMAIN q : q[i] \in Messages /\ q[i].event \in Events
         /\ DOMAIN q = 1 .. Len(q) /\ Len(q) \in Nat
<1> DEFINE D == DOMAIN q
           f == [i \in D |-> q[i].event]
<1>1. D = 1 .. Len(q) /\ Len(q) \in Nat /\ \A i \in D : q[i] \in Messages
  BY LenProperties, ElementOfSeq
<1>2. \A i \in D : q[i].event \in Events
  BY <1>1 DEF Messages
<1>3. IsFiniteSet(D)
  <2>1. 1 \in Int /\ Len(q) \in Int
    BY <1>1
  <2> QED
    BY <1>1, <2>1, FS_Interval
<1>4. IsFiniteSet({f[i] : i \in D})
  <2>1. DOMAIN f = D /\ f = [x \in D |-> f[x]]
    OBVIOUS
  <2> HIDE DEF f, D
  <2> QED BY <1>3, <2>1, FiniteImage
<1>5. {f[i] : i \in D} = {q[i].event : i \in D}
  OBVIOUS
<1> HIDE DEF f
<1> QED
  BY <1>1, <1>2, <1>4, <1>5 DEF FiniteSets_

(* What producers make is an event.                                        *)
LEMMA NewEventShape ==
  ASSUME Shape, NEW seq \in Nat, seq > 0, NEW kind \in Kinds, NEW w \in Works \cup {None},
         NEW offset \in Nat,
         kind \in {"output", "started", "finished", "interrupted"} => w \in Works
  PROVE  /\ NewEvent(seq, kind, w, offset) \in Events
         /\ NewEvent(seq, kind, w, offset).seq = seq
         /\ NewEvent(seq, kind, w, offset).kind = kind
         /\ NewEvent(seq, kind, w, offset).work = w
         /\ NewEvent(seq, kind, w, offset).offset = offset
BY DEF NewEvent, Events, Shape, Worlds

(* A message that has been queued.                                         *)
Queues(event, ack) ==
  /\ Len(inner.queue) < QueueLimit
  /\ inner' = [inner EXCEPT !.producer = @ + 1,
                            !.queue = Append(@, [event |-> event, ack |-> ack])]
  /\ event.seq = inner.producer + 1

(* A number whose event was dropped.                                       *)
Drops ==
  \E healthy \in BOOLEAN :
    inner' = [inner EXCEPT !.producer = @ + 1, !.pending = @ \cup {inner.producer + 1},
                           !.healthy = healthy]

(* EnqueueIn either queues the event or drops it.                          *)
LEMMA EnqueueInEffect ==
  ASSUME Shape, NEW kind \in Kinds, NEW w \in Works \cup {None}, NEW offset \in Nat,
         NEW critical \in BOOLEAN, EnqueueIn(kind, w, offset, critical),
         kind \in {"output", "started", "finished", "interrupted"} => w \in Works
  PROVE  \/ Queues(NewEvent(inner.producer + 1, kind, w, offset), critical)
         \/ Drops
<1>1. inner.producer \in Nat /\ inner.producer + 1 \in Nat /\ inner.producer + 1 > 0
  BY DEF Shape, Inners
<1>2. NewEvent(inner.producer + 1, kind, w, offset).seq = inner.producer + 1
  BY <1>1, NewEventShape
<1>3. CASE Len(inner.queue) = QueueLimit /\ Dropped(inner.producer + 1, FALSE)
  BY <1>3 DEF Dropped, Drops
<1>4. CASE /\ Len(inner.queue) < QueueLimit
           /\ inner' = [inner EXCEPT
                !.producer = inner.producer + 1,
                !.queue = Append(@, [event |-> NewEvent(inner.producer + 1, kind, w, offset),
                                     ack |-> critical])]
  BY <1>2, <1>4 DEF Queues
<1> QED
  BY <1>3, <1>4 DEF EnqueueIn

(* The shape of what producers leave.                                      *)
LEMMA QueuesShape ==
  ASSUME Shape, NEW event \in Events, NEW ack \in BOOLEAN,
         ack => event.kind \in {"requested", "service"}, Queues(event, ack)
  PROVE  /\ inner' \in Inners
         /\ inner'.producer = inner.producer + 1 /\ inner'.pending = inner.pending
         /\ inner'.queue = Append(inner.queue, [event |-> event, ack |-> ack])
         /\ Len(inner'.queue) = Len(inner.queue) + 1
         /\ \A i \in DOMAIN inner.queue : inner'.queue[i] = inner.queue[i]
         /\ inner'.queue[Len(inner.queue) + 1] = [event |-> event, ack |-> ack]
         /\ DOMAIN inner'.queue = DOMAIN inner.queue \cup {Len(inner.queue) + 1}
<1> DEFINE m == [event |-> event, ack |-> ack]
<1>1. m \in Messages
  BY DEF Messages
<1>2. inner \in Inners /\ inner.queue \in Seq(Messages)
  BY DEF Shape, Inners
<1>3. /\ Append(inner.queue, m) \in Seq(Messages)
      /\ Len(Append(inner.queue, m)) = Len(inner.queue) + 1
      /\ \A i \in 1 .. Len(inner.queue) : Append(inner.queue, m)[i] = inner.queue[i]
      /\ Append(inner.queue, m)[Len(inner.queue) + 1] = m
  BY <1>1, <1>2, AppendProperties
<1>4. /\ inner'.producer = inner.producer + 1 /\ inner'.pending = inner.pending
      /\ inner'.queue = Append(inner.queue, m) /\ inner' \in Inners
  <2> DEFINE q == Append(inner.queue, m)
             n == inner.producer + 1
  <2>1. inner' = [inner EXCEPT !.producer = n, !.queue = q]
    BY DEF Queues, m
  <2>2. q \in Seq(Messages) /\ n \in Nat
    BY <1>2, <1>3 DEF Inners
  <2> HIDE DEF q, n
  <2>3. inner'.producer = n /\ inner'.pending = inner.pending /\ inner'.queue = q
    BY <2>1, <1>2 DEF Inners
  <2>4. inner' \in Inners
    BY <2>1, <2>2, <1>2 DEF Inners
  <2> QED
    BY <2>3, <2>4 DEF q, n
<1>5. DOMAIN inner.queue = 1 .. Len(inner.queue) /\ Len(inner.queue) \in Nat
      /\ DOMAIN Append(inner.queue, m) = 1 .. Len(inner.queue) + 1
  BY <1>2, <1>3, LenProperties
<1> QED
  BY <1>3, <1>4, <1>5
(* The lines of an append that is under way.                               *)
Unwritten == IF At("write") THEN BatchEvents ELSE {}

(* Files that no step that goes on replaces: lines are cut off or left     *)
(* over, and a power loss may bring back no more than before.              *)
FilesQuiet ==
  /\ disk' \in Disks
  /\ disk'.journal.lines = disk.journal.lines /\ disk'.saved = disk.saved
  /\ disk'.old_saved \subseteq disk.old_saved
  /\ \A j \in Complete' : \E i \in Complete :
       i.lines \subseteq j.lines /\ j.lines \subseteq i.lines \cup Unwritten
  /\ \A j \in disk'.cut : j \in disk.cut \/ disk.journal.lines \subseteq j.lines
  /\ disk.journal.torn /\ ~disk'.journal.torn => reader.events \subseteq disk.journal.lines

(* A step that neither gives out numbers nor changes what can be read.     *)
Quiet ==
  /\ FilesQuiet /\ (disk' = disk \/ writer'.pc # "write")
  /\ inner'.producer = inner.producer /\ inner'.queue = inner.queue
  /\ inner.pending \subseteq inner'.pending
  /\ inner'.pending \subseteq inner.pending \cup Seqs(BatchEvents)
  /\ reader' = reader
  /\ At("settle") \/ writer'.pc \in {"write", "settle"} => writer' = writer
  /\ writer'.batch \in {writer.batch, <<>>}
  /\ up' # "down" => up # "down"
  /\ up' \in {"starting", "running"} =>
       /\ up \in {"starting", "running"}
       /\ At("write") /\ writer' # writer => Seqs(BatchEvents) \subseteq inner'.pending
  /\ \A w \in Works : works'[w].output = works[w].output
  /\ world'.expired = world.expired
  /\ ghost'.removed = ghost.removed /\ ghost'.behind = ghost.behind
  /\ ghost'.booted = ghost.booted /\ ghost.taken \subseteq ghost'.taken
  /\ ghost.committed \subseteq ghost'.committed
  /\ \/ ghost'.committed = ghost.committed
     \/ /\ ghost'.committed \subseteq ghost.committed \cup reader.events
        /\ up # "down" /\ StatesLeft' = {reader.state}
  /\ \/ ghost'.acked = ghost.acked
     \/ /\ ghost'.acked \subseteq ghost.acked \cup Asked
        /\ Complete' \subseteq {disk.journal} \cup disk.cut
  /\ Asked' \subseteq Asked

(* The parts of a state.                                                   *)
LEMMA ShapeParts ==
  ASSUME Shape
  PROVE  /\ inner.producer \in Nat /\ inner.pending \in FiniteSets_(Nat)
         /\ inner.queue \in Seq(Messages)
         /\ writer.pc \in Pcs /\ writer.cause \in Causes /\ writer.batch \in Seq(Messages)
         /\ writer = [pc |-> writer.pc, cause |-> writer.cause, batch |-> writer.batch]
         /\ \A w \in Works : works[w].output \in Nat
         /\ world.expired \in Nat /\ world.instance \in Nat /\ world.faults \in Nat
         /\ BatchEvents \in FiniteSets_(Events)
         /\ <<>> \in Seq(Messages)
<1>1. writer.batch \in Seq(Messages)
  BY DEF Shape, Writers
<1>2. BatchEvents \in FiniteSets_(Events)
  BY <1>1, MessageEvents DEF BatchEvents
<1>3. <<>> \in Seq(Messages)
  BY EmptySeq
<1> QED
  BY <1>1, <1>2, <1>3 DEF Shape, Inners, Writers, WorkStates, Worlds
(* Nothing happens to the files.                                           *)
LEMMA SameFiles ==
  ASSUME Shape, disk' = disk
  PROVE  /\ FilesQuiet /\ disk' \in Disks
         /\ Complete' = Complete /\ StatesLeft' = StatesLeft
<1>1. disk' \in Disks /\ Complete' = Complete /\ StatesLeft' = StatesLeft
  BY DEF Shape, Complete, StatesLeft
<1> QED
  BY <1>1 DEF FilesQuiet

(* RequestTimesOut and shutdown concern neither numbers nor files.         *)
LEMMA RequestTimesOutQuiet ==
  ASSUME Shape, Phase, NEW w \in Works, RequestTimesOut(w)
  PROVE  Quiet /\ Shape' /\ Phase'
<1>1. works' \in [Works -> WorkStates] /\ \A v \in Works : works'[v].output = works[v].output
  BY DEF RequestTimesOut, Shape, WorkStates
<1>2. UNCHANGED <<disk, inner, reader, writer, up, world, ghost>>
  BY DEF RequestTimesOut
<1>3. Asked' = Asked /\ FilesQuiet
  BY <1>2, SameFiles DEF Asked, At
<1>4. Quiet
  BY <1>1, <1>2, <1>3 DEF Quiet
<1>5. Shape'
  BY <1>1, <1>2 DEF Shape
<1>6. Phase'
  BY <1>2 DEF Phase, At
<1> QED
  BY <1>4, <1>5, <1>6

LEMMA ShutdownQuiet ==
  ASSUME Shape, Phase, shutdown
  PROVE  Quiet /\ Shape' /\ Phase'
<1>1. UNCHANGED <<disk, reader, writer, up, works, world, ghost>>
  BY DEF shutdown
<1>2. /\ inner' \in Inners /\ inner'.producer = inner.producer
      /\ inner'.queue = inner.queue /\ inner'.pending = inner.pending
  BY DEF shutdown, Shape, Inners
<1>3. Asked' = Asked /\ FilesQuiet
  BY <1>1, SameFiles DEF Asked, At
<1>4. Quiet
  BY <1>1, <1>2, <1>3 DEF Quiet
<1>5. Shape'
  BY <1>1, <1>2 DEF Shape
<1>6. Phase'
  BY <1>1, <1>2 DEF Phase, At
<1> QED
  BY <1>4, <1>5, <1>6

(* The parts of the files.                                                 *)
LEMMA DiskParts ==
  ASSUME Shape
  PROVE  /\ disk = [journal |-> disk.journal, saved |-> disk.saved, cut |-> disk.cut,
                    old_journals |-> disk.old_journals, old_saved |-> disk.old_saved]
         /\ disk.journal \in Journals /\ disk.saved \in States
         /\ disk.cut \subseteq Journals /\ disk.old_journals \subseteq Journals
         /\ disk.old_saved \subseteq States
         /\ disk.journal.lines \in FiniteSets_(Events)
         /\ StatesLeft \subseteq States /\ Complete \subseteq Journals
<1>1. disk \in Disks
  BY DEF Shape
<1>2. /\ disk.journal \in Journals /\ disk.saved \in States
      /\ disk.cut \subseteq Journals /\ disk.old_journals \subseteq Journals
      /\ disk.old_saved \subseteq States
  BY <1>1 DEF Disks
<1>3. disk.journal.lines \in FiniteSets_(Events)
  BY <1>2 DEF Journals
<1> QED
  BY <1>1, <1>2, <1>3 DEF Disks, StatesLeft, Complete

(* A sync of the journal settles what was cut off it.                      *)
LEMMA UncutQuiet ==
  ASSUME Shape, disk' = [disk EXCEPT !.cut = {}]
  PROVE  FilesQuiet
<1>1. /\ disk' \in Disks /\ disk'.journal = disk.journal /\ disk'.saved = disk.saved
      /\ disk'.old_saved = disk.old_saved /\ disk'.cut = {}
      /\ disk'.old_journals = disk.old_journals
  BY DiskParts DEF Disks
<1>2. Complete' \subseteq Complete
  BY <1>1 DEF Complete
<1> QED
  BY <1>1, <1>2 DEF FilesQuiet

(* The writer goes on after a pause of the queue.                          *)
LEMMA WriterMovesQuiet ==
  ASSUME Shape, Phase, Timeout \/ Retry \/ RetryFails \/ LoopEnds
  PROVE  Quiet /\ Shape' /\ Phase'
<1>1. UNCHANGED <<inner, reader, works, ghost>>
  BY DEF Timeout, Retry, RetryFails, LoopEnds
<1>2. writer.pc \in {"idle", "retry", "maintain", "exit"} /\ up = "running"
  BY DEF Timeout, Retry, RetryFails, LoopEnds, At, Running, Phase
<1>3. writer.cause \notin {"append", "startup", "boot"}
  BY <1>2 DEF Phase
<1>4. writer.batch = <<>>
  BY <1>3 DEF Phase
<1>5. FilesQuiet
  <2>1. disk' = disk \/ disk' = [disk EXCEPT !.cut = {}]
    BY DEF Timeout, Retry, RetryFails, LoopEnds
  <2> QED
    BY <2>1, SameFiles, UncutQuiet
<1>6. world' \in Worlds /\ world'.expired = world.expired
  <2>1. world' = world \/ Fault("io")
    BY DEF Timeout, Retry, RetryFails, LoopEnds
  <2> QED
    BY <2>1 DEF Shape, Worlds, Fault
<1>7. /\ writer' \in Writers /\ writer'.batch = <<>>
      /\ writer'.pc \in {"timeout", "persist", "maintain", "idle", "none"}
      /\ writer'.cause \in {writer.cause, "retry", "none"}
      /\ writer'.cause \notin {"append", "startup", "boot"}
      /\ up' \in {"running", "finished"}
      /\ writer'.pc \in {"idle", "none"} => writer'.cause = "none"
      /\ up' = "finished" => writer'.pc = "none" /\ writer'.cause = "none"
  <2>1. /\ writer.pc \in Pcs /\ writer.cause \in Causes /\ writer.batch \in Seq(Messages)
        /\ writer = [pc |-> writer.pc, cause |-> writer.cause, batch |-> writer.batch]
        /\ <<>> \in Seq(Messages)
    BY ShapeParts
  <2>2. CASE Timeout
    BY <2>1, <2>2, <1>2, <1>3, <1>4 DEF Timeout, Goto, Writers, Pcs, Causes
  <2>3. CASE Retry \/ RetryFails
    <3>1. \/ writer' = [writer EXCEPT !.pc = "persist", !.cause = "retry"]
          \/ writer' = [writer EXCEPT !.pc = "maintain"]
      BY <2>3 DEF Retry, RetryFails, Goto
    <3>2. up' = up
      BY <2>3 DEF Retry, RetryFails
    <3> QED
      BY <2>1, <3>1, <3>2, <1>2, <1>3, <1>4 DEF Writers, Pcs, Causes
  <2>4. CASE LoopEnds
    BY <2>1, <2>4, <1>2, <1>3, <1>4 DEF LoopEnds, Writers, Pcs, Causes
  <2> QED
    BY <2>2, <2>3, <2>4
<1>8. Asked' \subseteq Asked
  BY <1>7 DEF Asked
<1>9. Quiet
  BY <1>1, <1>2, <1>4, <1>5, <1>6, <1>7, <1>8 DEF Quiet, At
<1>10. Shape'
  BY <1>1, <1>5, <1>6, <1>7 DEF Shape, FilesQuiet
<1>11. Phase'
  BY <1>1, <1>2, <1>4, <1>7 DEF Phase, At
<1> QED
  BY <1>9, <1>10, <1>11

(* Idle is a writer at rest.                                               *)
LEMMA IdleShape ==
  Idle \in Writers /\ Idle.pc = "idle" /\ Idle.cause = "none" /\ Idle.batch = <<>>
<1>1. <<>> \in Seq(Messages)
  BY EmptySeq
<1> QED
  BY <1>1 DEF Idle, Writers, Pcs, Causes
(* The directory was synced.                                               *)
LEMMA SyncedQuiet ==
  ASSUME Shape, DirectorySynced
  PROVE  /\ FilesQuiet
         /\ disk'.journal = disk.journal /\ disk'.saved = disk.saved /\ disk'.cut = disk.cut
         /\ Complete' = {disk.journal} \cup disk.cut /\ StatesLeft' = {disk.saved}
<1>1. /\ disk' \in Disks /\ disk'.journal = disk.journal /\ disk'.saved = disk.saved
      /\ disk'.old_saved = {} /\ disk'.cut = disk.cut /\ disk'.old_journals = {}
  BY DiskParts DEF Disks, DirectorySynced
<1>2. Complete' = {disk.journal} \cup disk.cut /\ StatesLeft' = {disk.saved}
  BY <1>1 DEF Complete, StatesLeft
<1>3. Complete' \subseteq Complete
  BY <1>2 DEF Complete
<1> QED
  BY <1>1, <1>2, <1>3 DEF FilesQuiet

(* The events of a sequence of messages up to the nth.                     *)
LEMMA FirstEvents ==
  ASSUME NEW q \in Seq(Messages), NEW n \in 0 .. Len(q)
  PROVE  {q[i].event : i \in 1 .. n} \in SUBSET {q[i].event : i \in DOMAIN q}
<1>1. DOMAIN q = 1 .. Len(q) /\ Len(q) \in Nat
  BY MessageEvents
<1> QED
  BY <1>1

(* A failed append leaves the lines that were there, and perhaps of those  *)
(* it has written.                                                         *)
LEMMA PartialLines ==
  ASSUME Shape, NEW journal \in Partial
  PROVE  /\ journal \in Journals
         /\ disk.journal.lines \subseteq journal.lines
         /\ journal.lines \subseteq disk.journal.lines \cup Unwritten
<1>1. /\ At("write") /\ ~disk.journal.torn
      /\ journal \in Torn(FALSE, Len(writer.batch)) \cup Torn(TRUE, Len(writer.batch) - 1)
  BY DEF Partial
<1>2. writer.batch \in Seq(Messages) /\ Len(writer.batch) \in Nat
  BY ShapeParts, MessageEvents
<1>3. PICK n \in 0 .. Len(writer.batch), torn \in BOOLEAN :
        journal = [lines |-> disk.journal.lines \cup {writer.batch[i].event : i \in 1 .. n},
                   torn |-> torn]
  <2> DEFINE L(n) == disk.journal.lines \cup {writer.batch[i].event : i \in 1 .. n}
  <2>1. ASSUME NEW torn \in BOOLEAN, NEW max \in Int, max <= Len(writer.batch),
               journal \in Torn(torn, max)
        PROVE  \E n \in 0 .. Len(writer.batch) : journal = [lines |-> L(n), torn |-> torn]
    <3>1. journal \in {[lines |-> L(n), torn |-> torn] : n \in 0 .. max}
      BY <2>1 DEF Torn
    <3> HIDE DEF L
    <3>2. PICK n \in 0 .. max : journal = [lines |-> L(n), torn |-> torn]
      BY <3>1
    <3>3. n \in 0 .. Len(writer.batch)
      BY <1>2, <2>1
    <3> QED
      BY <3>2, <3>3
  <2>2. Len(writer.batch) \in Int /\ Len(writer.batch) - 1 \in Int
        /\ TRUE \in BOOLEAN /\ FALSE \in BOOLEAN
        /\ Len(writer.batch) - 1 <= Len(writer.batch) /\ Len(writer.batch) <= Len(writer.batch)
    BY <1>2
  <2> HIDE DEF L
  <2>3. \E n \in 0 .. Len(writer.batch), torn \in BOOLEAN :
          journal = [lines |-> L(n), torn |-> torn]
    BY <1>1, <2>1, <2>2
  <2> QED
    BY <2>3 DEF L
<1> DEFINE B == {writer.batch[i].event : i \in 1 .. n}
<1>4. B \in SUBSET BatchEvents
  BY <1>2, FirstEvents DEF BatchEvents
<1> HIDE DEF B
<1>5. B \in FiniteSets_(Events)
  BY <1>4, ShapeParts, PartFinite
<1>6. disk.journal.lines \in FiniteSets_(Events)
  BY DiskParts
<1>7. disk.journal.lines \cup B \in FiniteSets_(Events)
  BY <1>5, <1>6, UnionFinite
<1>8. journal = [lines |-> disk.journal.lines \cup B, torn |-> torn]
  BY <1>3 DEF B
<1>9. journal \in Journals /\ journal.lines = disk.journal.lines \cup B
  BY <1>7, <1>8 DEF Journals
<1> QED
  BY <1>1, <1>4, <1>9 DEF Unwritten

(* Other contents that a power loss may bring back.                        *)
LEMMA CutQuiet ==
  ASSUME Shape, NEW cut \in SUBSET (Partial \cup {disk.journal}), NEW torn \in BOOLEAN,
         disk' = [disk EXCEPT !.journal.torn = torn, !.cut = @ \cup cut],
         ~torn => (~disk.journal.torn \/ reader.events \subseteq disk.journal.lines)
  PROVE  /\ FilesQuiet /\ disk'.journal.torn = torn /\ disk'.cut = disk.cut \cup cut
         /\ disk'.old_journals = disk.old_journals /\ disk'.old_saved = disk.old_saved
<1> DEFINE j == [disk.journal EXCEPT !.torn = torn]
           all == disk.cut \cup cut
<1>1. j \in Journals /\ j.lines = disk.journal.lines /\ j.torn = torn
  BY DiskParts DEF Journals
<1>2. /\ \A i \in cut : i \in Journals /\ disk.journal.lines \subseteq i.lines
                        /\ i.lines \subseteq disk.journal.lines \cup Unwritten
  BY PartialLines, DiskParts
<1>3. disk' = [disk EXCEPT !.journal = j, !.cut = all]
  <2>1. disk' = [disk EXCEPT !.journal.torn = torn, !.cut = all]
    OBVIOUS
  <2> HIDE DEF all
  <2> QED
    BY <2>1, DiskParts
<1>4. all \subseteq Journals
  BY <1>2, DiskParts
<1> HIDE DEF j
<1>5. /\ disk' \in Disks /\ disk'.journal = j /\ disk'.saved = disk.saved
      /\ disk'.old_saved = disk.old_saved /\ disk'.cut = all
      /\ disk'.old_journals = disk.old_journals
  <2> HIDE DEF all
  <2> QED
    BY <1>1, <1>3, <1>4, DiskParts DEF Disks
<1>6. ASSUME NEW i \in Complete'
      PROVE  \E k \in Complete : k.lines \subseteq i.lines /\ i.lines \subseteq k.lines \cup Unwritten
  <2>1. disk.journal \in Complete /\ (i \in disk.cut \cup disk.old_journals => i \in Complete)
    BY DEF Complete
  <2>2. i = j \/ i \in cut \/ i \in disk.cut \cup disk.old_journals
    BY <1>5 DEF Complete
  <2> QED
    BY <2>1, <2>2, <1>1, <1>2
<1>7. \A i \in disk'.cut : i \in disk.cut \/ disk.journal.lines \subseteq i.lines
  BY <1>2, <1>5
<1> QED
  BY <1>1, <1>5, <1>6, <1>7 DEF FilesQuiet

(* A sync that succeeds makes what can be read known to a state file.      *)
LEMMA CommitsEffect ==
  ASSUME Shape, NEW ok \in BOOLEAN, Commits(ok)
  PROVE  /\ ghost' \in Ghosts /\ ghost'.acked = ghost.acked /\ ghost'.taken = ghost.taken
         /\ ghost'.behind = ghost.behind /\ ghost'.removed = ghost.removed
         /\ ghost'.booted = ghost.booted /\ ghost'.undone = ghost.undone
         /\ ghost'.committed = IF ok THEN ghost.committed \cup reader.events
                               ELSE ghost.committed
<1> DEFINE all == IF ok THEN ghost.committed \cup reader.events ELSE ghost.committed
<1>1. ghost \in Ghosts /\ reader.events \subseteq Events
  BY ReaderParts DEF Shape
<1>2. all \in SUBSET Events
  BY <1>1 DEF Ghosts
<1>3. ghost' = [ghost EXCEPT !.committed = all]
  BY DEF Commits
<1> HIDE DEF all
<1>4. /\ ghost' \in Ghosts /\ ghost'.acked = ghost.acked /\ ghost'.taken = ghost.taken
      /\ ghost'.behind = ghost.behind /\ ghost'.removed = ghost.removed
      /\ ghost'.booted = ghost.booted /\ ghost'.undone = ghost.undone
      /\ ghost'.committed = all
  BY <1>1, <1>2, <1>3 DEF Ghosts
<1> QED
  BY <1>4 DEF all

(* What the files and the world are when an operation of the writer ends.  *)
Ending(ok) ==
  /\ FilesQuiet
  /\ world' \in Worlds /\ world'.expired = world.expired
  /\ writer.pc \in {"write", "compact", "compacted", "persist", "persisted"}
  /\ ok => /\ At("persisted") /\ Complete' \subseteq {disk.journal} \cup disk.cut
           /\ StatesLeft' = {reader.state}

(* An append that has ended: the batch is forgotten, and its numbers are   *)
(* pending if it failed.                                                   *)
LEMMA AppendDoneQuiet ==
  ASSUME Shape, Phase, NEW ok \in BOOLEAN, NEW stopped \in BOOLEAN,
         AppendDone(ok, stopped), Ending(ok)
  PROVE  Quiet /\ Shape' /\ Phase'
<1> DEFINE asked == {writer.batch[i].event : i \in {i \in DOMAIN writer.batch : writer.batch[i].ack}}
<1>1. writer' = Idle /\ reader' = reader /\ up' = up /\ writer.cause = "append"
  BY DEF AppendDone
<1>2. writer' \in Writers /\ writer'.pc = "idle" /\ writer'.cause = "none" /\ writer'.batch = <<>>
  BY <1>1, IdleShape
<1>3. up = "running"
  BY <1>1 DEF Phase
<1>4. /\ inner' \in Inners /\ inner'.producer = inner.producer /\ inner'.queue = inner.queue
      /\ inner'.pending = IF ok THEN inner.pending ELSE inner.pending \cup Seqs(BatchEvents)
  <2>1. /\ inner.pending \in FiniteSets_(Nat) /\ Seqs(BatchEvents) \in FiniteSets_(Nat)
        /\ inner \in Inners
    BY ShapeParts, SeqsFinite DEF FiniteSets_, Shape
  <2>2. inner.pending \cup Seqs(BatchEvents) \in FiniteSets_(Nat)
    BY <2>1, UnionFinite
  <2>3. inner' = [inner EXCEPT !.healthy = ok, !.stopped = stopped,
                    !.pending = IF ok THEN @ ELSE @ \cup Seqs(BatchEvents)]
    BY DEF AppendDone
  <2> QED
    BY <2>1, <2>2, <2>3 DEF Inners
<1>5. works' \in [Works -> WorkStates] /\ \A w \in Works : works'[w].output = works[w].output
  <2>1. works \in [Works -> WorkStates]
    BY DEF Shape
  <2>2. works' = [w \in Works |->
          IF works[w].status = "asked" /\ \E e \in asked : e.work = w
          THEN [works[w] EXCEPT !.status = IF ok THEN "admitted" ELSE "gone"] ELSE works[w]]
    BY DEF AppendDone, Answers
  <2> HIDE DEF asked
  <2>3. ASSUME NEW w \in Works
        PROVE  works'[w] \in WorkStates /\ works'[w].output = works[w].output
    BY <2>1, <2>2 DEF WorkStates
  <2> QED
    BY <2>2, <2>3
<1>6. asked \in SUBSET Events /\ BatchEvents \in SUBSET Events /\ reader.events \in SUBSET Events
  <2>1. asked \in SUBSET Events
    BY ShapeParts, MessageEvents
  <2>2. BatchEvents \in SUBSET Events
    BY ShapeParts DEF FiniteSets_
  <2>3. reader.events \in SUBSET Events
    BY ReaderParts DEF Shape
  <2> QED
    BY <2>1, <2>2, <2>3
<1>7. /\ ghost' \in Ghosts /\ ghost'.behind = ghost.behind
      /\ ghost'.removed = ghost.removed /\ ghost'.booted = ghost.booted
      /\ ghost.taken \subseteq ghost'.taken
      /\ ghost'.acked = IF ok THEN ghost.acked \cup asked ELSE ghost.acked
      /\ ghost'.committed = IF ok THEN ghost.committed \cup reader.events ELSE ghost.committed
  <2>1. /\ ghost' = IF ok THEN [ghost EXCEPT !.acked = @ \cup asked,
                                             !.committed = @ \cup reader.events]
                   ELSE [ghost EXCEPT !.taken = IF At("write") THEN @ \cup BatchEvents ELSE @]
        /\ ghost \in Ghosts
    BY DEF AppendDone, Answers, Shape
  <2> HIDE DEF asked
  <2>2. CASE ok
    BY <2>1, <2>2, <1>6 DEF Ghosts
  <2>3. CASE ~ok
    BY <2>1, <2>3, <1>6 DEF Ghosts
  <2> QED
    BY <2>2, <2>3
<1>8. ok => Asked = asked
  BY <1>1 DEF Asked, At, Ending
<1>9. Asked' \subseteq Asked
  BY <1>2 DEF Asked
<1>10. At("write") => ~ok
  BY DEF At, Ending
<1>11. Quiet
  <2> HIDE DEF asked
  <2> QED
    BY <1>1, <1>2, <1>3, <1>4, <1>5, <1>7, <1>8, <1>9, <1>10 DEF Quiet, At, Ending
<1>12. Shape'
  BY <1>1, <1>2, <1>4, <1>5, <1>7 DEF Shape, Ending, FilesQuiet
<1>13. Phase'
  BY <1>1, <1>2, <1>3 DEF Phase, At
<1> QED
  BY <1>11, <1>12, <1>13

(* The timeout of the queue goes on with its next step.                    *)
LEMMA TimeoutDoneQuiet ==
  ASSUME Shape, Phase, NEW ok \in BOOLEAN, TimeoutDone(ok), Ending(ok)
  PROVE  Quiet /\ Shape' /\ Phase'
<1>1. /\ UNCHANGED <<reader, up, works>> /\ writer.cause \in {"gaps", "retry", "maintain"}
      /\ Commits(ok)
  BY DEF TimeoutDone
<1>2. up = "running" /\ writer.batch = <<>> /\ ~At("write") /\ ~At("settle")
  BY <1>1 DEF Phase, At
<1>3. /\ inner' \in Inners /\ inner'.producer = inner.producer /\ inner'.queue = inner.queue
      /\ inner'.pending = inner.pending
  BY DEF TimeoutDone, Shape, Inners
<1>4. /\ writer' \in Writers /\ writer'.batch = writer.batch /\ writer'.cause = writer.cause
      /\ writer'.pc \in {"retry", "maintain", "exit"}
  <2>1. /\ writer.cause \in Causes /\ writer.batch \in Seq(Messages)
        /\ writer = [pc |-> writer.pc, cause |-> writer.cause, batch |-> writer.batch]
    BY ShapeParts
  <2>2. PICK pc \in {"retry", "maintain", "exit"} : writer' = [writer EXCEPT !.pc = pc]
    BY <1>1 DEF TimeoutDone, Goto
  <2> QED
    BY <2>1, <2>2 DEF Writers, Pcs
<1>5. Asked' \subseteq Asked
  BY <1>1, <1>4 DEF Asked
<1>6. Quiet
  BY <1>1, <1>2, <1>3, <1>4, <1>5, CommitsEffect DEF Quiet, At, Ending
<1>7. Shape'
  BY <1>1, <1>3, <1>4, CommitsEffect DEF Shape, Ending, FilesQuiet
<1>8. Phase'
  BY <1>1, <1>2, <1>3, <1>4 DEF Phase, At
<1> QED
  BY <1>6, <1>7, <1>8

(* A start that fails ends the process.                                    *)
LEMMA BootFailsQuiet ==
  ASSUME Shape, Phase, BootDone(FALSE), Ending(FALSE)
  PROVE  Quiet /\ Shape' /\ Phase'
<1>1. /\ UNCHANGED <<reader, works, inner>> /\ writer.cause = "boot"
      /\ up' = "down" /\ writer' = Idle /\ Commits(FALSE)
  BY DEF BootDone
<1>2. writer' \in Writers /\ writer'.pc = "idle" /\ writer'.cause = "none" /\ writer'.batch = <<>>
  BY <1>1, IdleShape
<1>3. up = "starting" /\ inner.queue = <<>> /\ ~At("settle") /\ ~At("write")
  BY <1>1 DEF Phase, At
<1>4. Asked' \subseteq Asked
  BY <1>2 DEF Asked
<1>5. Quiet
  BY <1>1, <1>2, <1>3, <1>4, CommitsEffect DEF Quiet, At, Ending
<1>6. Shape'
  BY <1>1, <1>2, CommitsEffect DEF Shape, Ending, FilesQuiet
<1>7. Phase'
  BY <1>1, <1>2, <1>3 DEF Phase, At
<1> QED
  BY <1>5, <1>6, <1>7

(* The startup records are written, or the start fails.                    *)
LEMMA StartupDoneQuiet ==
  ASSUME Shape, Phase, NEW ok \in BOOLEAN, StartupDone(ok), Ending(ok)
  PROVE  Quiet /\ Shape' /\ Phase'
<1>1. /\ UNCHANGED <<reader, works, inner>> /\ writer.cause = "startup" /\ writer' = Idle
      /\ up' = IF ok THEN "running" ELSE "down"
      /\ Commits(ok)
  BY DEF StartupDone
<1>2. writer' \in Writers /\ writer'.pc = "idle" /\ writer'.cause = "none" /\ writer'.batch = <<>>
  BY <1>1, IdleShape
<1>3. up = "starting" /\ inner.queue = <<>> /\ ~At("settle")
  BY <1>1 DEF Phase, At, Ending
<1>4. Asked' \subseteq Asked
  BY <1>2 DEF Asked
<1>5. Quiet
  BY <1>1, <1>2, <1>3, <1>4, CommitsEffect DEF Quiet, At, Ending
<1>6. Shape'
  BY <1>1, <1>2, CommitsEffect DEF Shape, Ending, FilesQuiet
<1>7. Phase'
  BY <1>1, <1>2, <1>3 DEF Phase, At
<1> QED
  BY <1>5, <1>6, <1>7

(* However an operation of the writer ends, but for a start that succeeds. *)
LEMMA DoneQuiet ==
  ASSUME Shape, Phase, NEW ok \in BOOLEAN, Done(ok), ~(ok /\ writer.cause = "boot"), Ending(ok)
  PROVE  Quiet /\ Shape' /\ Phase'
<1>1. CASE AppendDone(ok, inner.stopped)
  <2>1. inner.stopped \in BOOLEAN
    BY DEF Shape, Inners
  <2> QED
    BY <1>1, <2>1, AppendDoneQuiet
<1>2. CASE TimeoutDone(ok)
  BY <1>2, TimeoutDoneQuiet
<1>3. CASE BootDone(ok)
  <2>1. ok = FALSE
    BY <1>3 DEF BootDone
  <2> QED
    BY <1>3, <2>1, BootFailsQuiet
<1>4. CASE StartupDone(ok)
  BY <1>4, StartupDoneQuiet
<1> QED
  BY <1>1, <1>2, <1>3, <1>4 DEF Done

(* A fault is counted, and nothing else of the world changes.              *)
LEMMA FaultWorld ==
  ASSUME Shape, NEW kind, Fault(kind)
  PROVE  world' \in Worlds /\ world'.expired = world.expired
                           /\ world'.instance = world.instance
BY DEF Shape, Worlds, Fault

(* The writer goes to its next step.                                       *)
LEMMA GotoEffect ==
  ASSUME Shape, NEW pc \in Pcs, Goto(pc)
  PROVE  /\ writer' \in Writers /\ writer'.pc = pc /\ writer'.cause = writer.cause
         /\ writer'.batch = writer.batch
<1>1. /\ writer.cause \in Causes /\ writer.batch \in Seq(Messages)
      /\ writer = [pc |-> writer.pc, cause |-> writer.cause, batch |-> writer.batch]
  BY ShapeParts
<1> QED
  BY <1>1 DEF Goto, Writers
(* The journal was compacted, or that is given up until the next time.     *)
LEMMA CompactedQuiet ==
  ASSUME Shape, Phase, At("compact") \/ At("compacted"), Goto("persist"),
         FilesQuiet, world' \in Worlds, world'.expired = world.expired,
         UNCHANGED <<inner, reader, up, works, ghost>>
  PROVE  Quiet /\ Shape' /\ Phase'
<1>1. /\ writer' \in Writers /\ writer'.pc = "persist" /\ writer'.cause = writer.cause
      /\ writer'.batch = writer.batch
  BY GotoEffect DEF Pcs
<1>2. Asked' \subseteq Asked
  BY <1>1 DEF Asked, At
<1>3. Quiet
  BY <1>1, <1>2 DEF Quiet, At
<1>4. Shape'
  BY <1>1 DEF Shape, FilesQuiet
<1>5. Phase'
  BY <1>1 DEF Phase, At
<1> QED
  BY <1>3, <1>4, <1>5

LEMMA CompactSyncQuiet ==
  ASSUME Shape, Phase, CompactSync
  PROVE  Quiet /\ Shape' /\ Phase'
<1>1. DirectorySynced /\ Goto("persist") /\ At("compacted")
      /\ UNCHANGED <<inner, reader, up, works, world, ghost>>
  BY DEF CompactSync
<1>2. world' \in Worlds /\ world'.expired = world.expired
  BY <1>1 DEF Shape
<1> QED
  BY <1>1, <1>2, SyncedQuiet, CompactedQuiet

(* A write, sync or rename that fails.                                     *)
LEMMA CompactFailsQuiet ==
  ASSUME Shape, Phase, CompactFails
  PROVE  Quiet /\ Shape' /\ Phase'
<1>1. world' \in Worlds /\ world'.expired = world.expired
  BY FaultWorld DEF CompactFails
<1>2. disk' = disk /\ (At("compact") \/ At("compacted"))
  BY DEF CompactFails
<1>3. FilesQuiet
  BY <1>2, SameFiles
<1>4. CASE Goto("persist") /\ UNCHANGED <<inner, reader, up, works, ghost>>
  BY <1>1, <1>2, <1>3, <1>4, CompactedQuiet
<1>5. CASE Done(FALSE)
  <2>1. Ending(FALSE)
    BY <1>1, <1>2, <1>3 DEF Ending, At
  <2> QED
    BY <1>5, <2>1, DoneQuiet
<1> QED
  BY <1>4, <1>5 DEF CompactFails

LEMMA PersistFailsQuiet ==
  ASSUME Shape, Phase, PersistFails
  PROVE  Quiet /\ Shape' /\ Phase'
<1>1. world' \in Worlds /\ world'.expired = world.expired
  BY FaultWorld DEF PersistFails
<1>2. disk' = disk /\ (At("persist") \/ At("persisted")) /\ Done(FALSE)
  BY DEF PersistFails
<1>3. FilesQuiet
  BY <1>2, SameFiles
<1>4. Ending(FALSE)
  BY <1>1, <1>2, <1>3 DEF Ending, At
<1> QED
  BY <1>2, <1>4, DoneQuiet

(* What the failure of an append does to the files.                        *)
LEMMA AppendFailsFiles ==
  ASSUME Shape, AppendFails
  PROVE  /\ FilesQuiet /\ disk'.old_journals = disk.old_journals
         /\ disk'.old_saved = disk.old_saved
         /\ \/ disk'.journal = disk.journal /\ disk'.cut = disk.cut \cup Partial
            \/ /\ disk.journal.torn /\ ~disk'.journal.torn
               /\ disk'.cut = disk.cut \cup {disk.journal}
<1>1. CASE disk' = [disk EXCEPT !.cut = @ \cup Partial]
  <2>1. disk' = [disk EXCEPT !.journal.torn = disk.journal.torn, !.cut = @ \cup Partial]
    BY <1>1, DiskParts DEF Journals
  <2>2. disk.journal.torn \in BOOLEAN
    BY DiskParts DEF Journals
  <2>3. /\ FilesQuiet /\ disk'.cut = disk.cut \cup Partial
        /\ disk'.old_journals = disk.old_journals /\ disk'.old_saved = disk.old_saved
    <3>1. CASE disk.journal.torn
      BY <2>1, <2>2, <3>1, CutQuiet
    <3>2. CASE ~disk.journal.torn
      BY <2>1, <2>2, <3>2, CutQuiet
    <3> QED
      BY <3>1, <3>2
  <2>4. disk'.journal = disk.journal
    BY <1>1, DiskParts
  <2> QED
    BY <2>3, <2>4
<1>2. CASE /\ disk.journal.torn /\ reader.events \subseteq disk.journal.lines
           /\ disk' = [disk EXCEPT !.journal.torn = FALSE, !.cut = @ \cup {disk.journal}]
  BY <1>2, CutQuiet
<1> QED
  BY <1>1, <1>2 DEF AppendFails

LEMMA AppendFailsQuiet ==
  ASSUME Shape, Phase, AppendFails
  PROVE  Quiet /\ Shape' /\ Phase'
<1>1. world' \in Worlds /\ world'.expired = world.expired
  BY FaultWorld DEF AppendFails
<1>2. At("write") /\ Done(FALSE)
  BY DEF AppendFails
<1>3. Ending(FALSE)
  BY <1>1, <1>2, AppendFailsFiles DEF Ending, At
<1> QED
  BY <1>2, <1>3, DoneQuiet

LEMMA AppendDamagesQuiet ==
  ASSUME Shape, Phase, AppendDamages
  PROVE  Quiet /\ Shape' /\ Phase'
<1>1. world' \in Worlds /\ world'.expired = world.expired
  BY FaultWorld DEF AppendDamages
<1>2. /\ At("write") /\ AppendDone(FALSE, TRUE)
      /\ disk' = [disk EXCEPT !.journal.torn = TRUE, !.cut = @ \cup Partial]
  BY DEF AppendDamages
<1>3. FilesQuiet
  BY <1>2, CutQuiet
<1>4. Ending(FALSE)
  BY <1>1, <1>2, <1>3 DEF Ending, At
<1> QED
  BY <1>2, <1>4, AppendDoneQuiet

(* An operation that has succeeded, other than the compaction of a start.  *)
LEMMA PersistSyncQuiet ==
  ASSUME Shape, Phase, PersistSync, writer.cause # "boot"
  PROVE  Quiet /\ Shape' /\ Phase'
<1>1. DirectorySynced /\ At("persisted") /\ Done(TRUE) /\ world' = world
  BY DEF PersistSync
<1>2. world' \in Worlds /\ world'.expired = world.expired
  BY <1>1 DEF Shape
<1>3. disk.saved = reader.state
  BY <1>1 DEF Phase
<1>4. Ending(TRUE)
  BY <1>1, <1>2, <1>3, SyncedQuiet DEF Ending, At
<1> QED
  BY <1>1, <1>4, DoneQuiet

(* The startup batch: one seal for each open work, then the record of the  *)
(* service, under numbers that were not given out.                         *)
LEMMA StartupBatchShape ==
  ASSUME Shape, NEW open \in SetToSeqs(reader.state.open)
  PROVE  /\ Len(open) \in Nat
         /\ StartupBatch(open) \in Seq(Messages)
         /\ DOMAIN StartupBatch(open) = 1 .. Len(open) + 1
         /\ \A i \in DOMAIN StartupBatch(open) :
              /\ StartupBatch(open)[i].event.seq = inner.producer + i
              /\ StartupBatch(open)[i].event.kind \in {"service", "interrupted"}
              /\ ~StartupBatch(open)[i].ack
<1> DEFINE O == reader.state.open
           n == Len(open)
           b == StartupBatch(open)
<1>1. O \in SUBSET Works /\ IsFiniteSet(O)
  BY DEF Shape, Readers, States, FiniteSets_
<1>2. Cardinality(O) \in Nat
  BY <1>1, FS_CardinalityType
<1>3. open \in [1 .. Cardinality(O) -> O]
  BY DEF SetToSeqs
<1>4. open \in Seq(O)
  BY <1>2, <1>3
<1>5. n \in Nat /\ DOMAIN open = 1 .. n /\ \A i \in 1 .. n : open[i] \in O
  BY <1>4, LenProperties, ElementOfSeq
<1>6. inner.producer \in Nat
  BY ShapeParts
<1>7. b = [i \in 1 .. n + 1 |->
            [event |-> IF i > n THEN NewEvent(inner.producer + i, "service", None, 0)
                       ELSE NewEvent(inner.producer + i, "interrupted", open[i], 0),
             ack |-> FALSE]]
  BY DEF StartupBatch
<1> HIDE DEF n, b
<1>8. ASSUME NEW i \in 1 .. n + 1
      PROVE  /\ b[i] \in Messages /\ b[i].event.seq = inner.producer + i
             /\ b[i].event.kind \in {"service", "interrupted"} /\ ~b[i].ack
  <2> DEFINE seq == inner.producer + i
             e == b[i].event
  <2>1. seq \in Nat /\ seq > 0
    BY <1>5, <1>6
  <2>2. b[i] = [event |-> e, ack |-> FALSE]
    BY <1>7
  <2>3. e \in Events /\ e.seq = seq /\ e.kind \in {"service", "interrupted"}
    <3>1. CASE i > n
      <4>1. e = NewEvent(seq, "service", None, 0)
        BY <1>7, <3>1
      <4> HIDE DEF seq, e
      <4> QED
        BY <4>1, <2>1, NewEventShape DEF Kinds
    <3>2. CASE ~(i > n)
      <4>1. e = NewEvent(seq, "interrupted", open[i], 0)
        BY <1>7, <3>2
      <4>2. open[i] \in Works
        BY <1>1, <1>5, <3>2
      <4> HIDE DEF seq, e
      <4> QED
        BY <4>1, <4>2, <2>1, NewEventShape DEF Kinds
    <3> QED
      BY <3>1, <3>2
  <2> HIDE DEF e, seq
  <2>4. b[i] \in Messages /\ b[i].event = e /\ ~b[i].ack
    BY <2>2, <2>3 DEF Messages
  <2> QED
    BY <2>3, <2>4 DEF seq
<1>9. DOMAIN b = 1 .. n + 1
  BY <1>7
<1>10. b \in Seq(Messages)
  <2>1. n + 1 \in Nat
    BY <1>5
  <2>2. b \in [1 .. n + 1 -> Messages]
    BY <1>7, <1>8, <1>9
  <2> QED
    BY <2>1, <2>2
<1> QED
  BY <1>5, <1>8, <1>9, <1>10 DEF n, b
(* A start whose files are written goes on to its startup records.         *)
StartsUp ==
  \E open \in SetToSeqs(reader.state.open) :
    /\ At("persisted") /\ writer.cause = "boot" /\ DirectorySynced /\ Commits(TRUE)
    /\ writer' = [pc |-> "write", cause |-> "startup", batch |-> StartupBatch(open)]
    /\ inner' = [inner EXCEPT !.producer = @ + Len(open) + 1]
    /\ UNCHANGED <<reader, up, works, world>>

LEMMA StartsUpEffect ==
  ASSUME Shape, Phase, StartsUp
  PROVE  /\ Shape' /\ Phase'
         /\ UNCHANGED <<reader, up, works, world>>
         /\ disk'.journal = disk.journal /\ disk'.saved = disk.saved /\ disk'.cut = disk.cut
         /\ disk.saved = reader.state
         /\ Complete' = {disk.journal} \cup disk.cut /\ StatesLeft' = {reader.state}
         /\ up = "starting" /\ inner.queue = <<>> /\ inner'.queue = <<>>
         /\ writer.pc = "persisted" /\ writer.batch = <<>>
         /\ inner'.pending = inner.pending
         /\ inner.producer < inner'.producer
         /\ writer'.pc = "write" /\ writer'.cause = "startup" /\ Ordered(writer'.batch)
         /\ \A i \in DOMAIN writer'.batch :
              /\ inner.producer < writer'.batch[i].event.seq
              /\ writer'.batch[i].event.seq <= inner'.producer
              /\ writer'.batch[i].event.kind # "output"
         /\ \A n \in inner.producer + 1 .. inner'.producer : n \in Seqs(BatchEvents')
         /\ \A e, f \in BatchEvents' : e.seq = f.seq => e = f
         /\ ghost'.acked = ghost.acked /\ ghost'.taken = ghost.taken
         /\ ghost'.behind = ghost.behind /\ ghost'.removed = ghost.removed
         /\ ghost'.booted = ghost.booted /\ ghost'.undone = ghost.undone
         /\ ghost'.committed = ghost.committed \cup reader.events
<1>1. PICK open \in SetToSeqs(reader.state.open) :
        /\ At("persisted") /\ writer.cause = "boot" /\ DirectorySynced /\ Commits(TRUE)
        /\ writer' = [pc |-> "write", cause |-> "startup", batch |-> StartupBatch(open)]
        /\ inner' = [inner EXCEPT !.producer = @ + Len(open) + 1]
        /\ UNCHANGED <<reader, up, works, world>>
  BY DEF StartsUp
<1> DEFINE b == StartupBatch(open)
           n == Len(open)
<1>2. /\ n \in Nat /\ b \in Seq(Messages) /\ DOMAIN b = 1 .. n + 1
      /\ \A i \in DOMAIN b : /\ b[i].event.seq = inner.producer + i
                             /\ b[i].event.kind \in {"service", "interrupted"} /\ ~b[i].ack
  BY StartupBatchShape
<1>3. up = "starting" /\ inner.queue = <<>> /\ writer.batch = <<>> /\ disk.saved = reader.state
  BY <1>1 DEF Phase
<1> HIDE DEF b, n
<1>4. /\ writer' \in Writers /\ writer'.pc = "write" /\ writer'.cause = "startup"
      /\ writer'.batch = b
  BY <1>1, <1>2 DEF Writers, Pcs, Causes, b
<1>5. inner \in Inners /\ inner.producer \in Nat
  BY DEF Shape, Inners
<1>6. /\ inner' \in Inners /\ inner'.producer = inner.producer + n + 1
      /\ inner'.queue = inner.queue /\ inner'.pending = inner.pending
  <2>1. inner' = [inner EXCEPT !.producer = inner.producer + n + 1]
    BY <1>1 DEF n
  <2>2. inner.producer + n + 1 \in Nat
    BY <1>2, <1>5
  <2> QED
    BY <1>5, <2>1, <2>2 DEF Inners
<1>7. /\ disk' \in Disks /\ disk'.journal = disk.journal /\ disk'.saved = disk.saved
      /\ disk'.cut = disk.cut
      /\ Complete' = {disk.journal} \cup disk.cut /\ StatesLeft' = {reader.state}
  BY <1>1, <1>3, SyncedQuiet DEF FilesQuiet
<1>8. /\ ghost' \in Ghosts
      /\ ghost'.acked = ghost.acked /\ ghost'.taken = ghost.taken
      /\ ghost'.behind = ghost.behind /\ ghost'.removed = ghost.removed
      /\ ghost'.booted = ghost.booted /\ ghost'.undone = ghost.undone
      /\ ghost'.committed = ghost.committed \cup reader.events
  BY <1>1, CommitsEffect
<1>9. Shape'
  BY <1>1, <1>4, <1>6, <1>7, <1>8 DEF Shape
<1>10. Phase'
  BY <1>1, <1>3, <1>4, <1>6 DEF Phase, At
<1>11. Ordered(writer'.batch)
  BY <1>2, <1>4, <1>5 DEF Ordered
<1>12. ASSUME NEW i \in DOMAIN writer'.batch
       PROVE  /\ inner.producer < writer'.batch[i].event.seq
              /\ writer'.batch[i].event.seq <= inner'.producer
              /\ writer'.batch[i].event.kind # "output"
  <2>1. i \in 1 .. n + 1 /\ writer'.batch[i].event.seq = inner.producer + i
        /\ writer'.batch[i].event.kind \in {"service", "interrupted"}
    BY <1>2, <1>4
  <2> QED
    BY <2>1, <1>2, <1>5, <1>6
<1>13. BatchEvents' = {b[i].event : i \in 1 .. n + 1}
  BY <1>2, <1>4 DEF BatchEvents
<1>14. ASSUME NEW k \in inner.producer + 1 .. inner'.producer
       PROVE  k \in Seqs(BatchEvents')
  <2>1. k - inner.producer \in 1 .. n + 1
    BY <1>2, <1>5, <1>6
  <2>2. b[k - inner.producer].event.seq = inner.producer + (k - inner.producer)
    BY <1>2, <2>1
  <2>3. b[k - inner.producer].event.seq = k
    BY <2>2, <1>5, <2>1
  <2> QED
    BY <1>13, <2>1, <2>3 DEF Seqs
<1>15. ASSUME NEW e \in BatchEvents', NEW f \in BatchEvents', e.seq = f.seq PROVE e = f
  <2>1. PICK i \in 1 .. n + 1 : e = b[i].event
    BY <1>13
  <2>2. PICK k \in 1 .. n + 1 : f = b[k].event
    BY <1>13
  <2>3. e.seq = inner.producer + i /\ f.seq = inner.producer + k
    BY <1>2, <2>1, <2>2
  <2>4. i = k
    BY <2>3, <1>15, <1>5, <1>2
  <2> QED
    BY <2>1, <2>2, <2>4
<1> QED
  BY <1>1, <1>3, <1>4, <1>5, <1>6, <1>2, <1>7, <1>8, <1>9, <1>10, <1>11, <1>12, <1>14, <1>15 DEF At

(* PersistSync is one or the other.                                        *)
LEMMA PersistSyncCases ==
  ASSUME Shape, Phase, PersistSync
  PROVE  (Quiet /\ Shape' /\ Phase') \/ StartsUp
<1>1. CASE writer.cause # "boot"
  BY <1>1, PersistSyncQuiet
<1>2. CASE writer.cause = "boot"
  <2>1. DirectorySynced /\ At("persisted") /\ BootDone(TRUE) /\ world' = world
    BY <1>2 DEF PersistSync, Done, AppendDone, TimeoutDone, StartupDone
  <2> QED
    BY <2>1, <1>2 DEF BootDone, StartsUp
<1> QED
  BY <1>1, <1>2

(* A step of a producer: an event is queued, or its number is dropped.     *)
Queued_(event, ack) ==
  /\ Queues(event, ack)
  /\ ack => event.kind \in {"requested", "service"}
  /\ event.kind = "output" => /\ event.offset = works[event.work].output
                              /\ works'[event.work].output = event.offset + 1

Produced ==
  /\ Running /\ UNCHANGED <<disk, reader, writer, up, ghost>>
  /\ world' \in Worlds /\ world'.expired = world.expired
  /\ works' \in [Works -> WorkStates]
  /\ \A w \in Works : works[w].output <= works'[w].output
  /\ \/ \E event \in Events, ack \in BOOLEAN : Queued_(event, ack)
     \/ Drops
     \/ inner' = inner

(* enqueue, with the work it is called for.                                *)
LEMMA EnqueueEffect ==
  ASSUME Shape, NEW kind \in Kinds, NEW w \in Works, NEW offset \in Nat,
         NEW critical \in BOOLEAN, enqueue(kind, w, offset, critical)
  PROVE  /\ Running /\ UNCHANGED <<disk, reader, writer, up, ghost>>
         /\ world' \in Worlds /\ world'.expired = world.expired
         /\ Queues(NewEvent(inner.producer + 1, kind, w, offset), critical) \/ Drops
<1>1. UNCHANGED <<disk, reader, writer, up, ghost>>
  BY DEF enqueue
<1>2. CASE EnqueueIn(kind, w, offset, critical) /\ UNCHANGED world
  <2>1. Running
    BY <1>2 DEF EnqueueIn
  <2>2. Queues(NewEvent(inner.producer + 1, kind, w, offset), critical) \/ Drops
    BY <1>2, EnqueueInEffect
  <2> QED
    BY <1>1, <1>2, <2>1, <2>2 DEF Shape
<1>3. CASE /\ Running /\ ~inner.stopped /\ inner.producer < MaxSeq
           /\ Fault("large") /\ Dropped(inner.producer + 1, inner.healthy)
  <2>1. world' \in Worlds /\ world'.expired = world.expired
    BY <1>3, FaultWorld
  <2>2. inner.healthy \in BOOLEAN
    BY DEF Shape, Inners
  <2>3. Drops
    BY <1>3, <2>2 DEF Dropped, Drops
  <2> QED
    BY <1>1, <1>3, <2>1, <2>3
<1> QED
  BY <1>2, <1>3 DEF enqueue

(* The event of a work that enqueue was called for.                        *)
LEMMA EnqueueProduces ==
  ASSUME Shape, NEW kind \in Kinds, NEW w \in Works, NEW offset \in Nat,
         NEW critical \in BOOLEAN, enqueue(kind, w, offset, critical),
         critical => kind \in {"requested", "service"},
         works' \in [Works -> WorkStates],
         \A v \in Works : works[v].output <= works'[v].output,
         kind = "output" => offset = works[w].output /\ works'[w].output = offset + 1
  PROVE  Produced
<1> DEFINE e == NewEvent(inner.producer + 1, kind, w, offset)
<1>1. /\ Running /\ UNCHANGED <<disk, reader, writer, up, ghost>>
      /\ world' \in Worlds /\ world'.expired = world.expired
      /\ Queues(e, critical) \/ Drops
  BY EnqueueEffect
<1>2. inner.producer + 1 \in Nat /\ inner.producer + 1 > 0
  BY ShapeParts
<1>3. e \in Events /\ e.kind = kind /\ e.work = w /\ e.offset = offset
  BY <1>2, NewEventShape
<1> HIDE DEF e
<1>4. Queues(e, critical) => Queued_(e, critical)
  BY <1>3 DEF Queued_
<1> QED
  BY <1>1, <1>3, <1>4 DEF Produced

(* Every action of a producer is one of these steps.                       *)
LEMMA ProducersProduce ==
  ASSUME Shape, NEW w \in Works,
         Request(w) \/ RecordStarted(w) \/ RecordOutput(w) \/ RecordFinished(w)
  PROVE  Produced
<1>1. /\ works \in [Works -> WorkStates] /\ 0 \in Nat /\ works[w].output \in Nat
      /\ \A v \in Works : works[v].output \in Nat
  BY DEF Shape, WorkStates
<1>2. {"requested", "started", "output", "finished"} \subseteq Kinds
      /\ TRUE \in BOOLEAN /\ FALSE \in BOOLEAN
  BY DEF Kinds
<1>3. CASE Request(w)
  <2>1. PICK st \in {"asked", "gone"} : works' = [works EXCEPT ![w].status = st]
    BY <1>3 DEF Request
  <2>2. works' \in [Works -> WorkStates] /\ \A v \in Works : works[v].output <= works'[v].output
    BY <1>1, <2>1 DEF WorkStates
  <2>3. enqueue("requested", w, 0, TRUE)
    BY <1>3 DEF Request
  <2> QED
    BY <1>1, <1>2, <2>2, <2>3, EnqueueProduces
<1>4. CASE RecordStarted(w)
  <2>1. works' = [works EXCEPT ![w].status = "open"] /\ enqueue("started", w, 0, FALSE)
    BY <1>4 DEF RecordStarted
  <2>2. works' \in [Works -> WorkStates] /\ \A v \in Works : works[v].output <= works'[v].output
    BY <1>1, <2>1 DEF WorkStates
  <2> QED
    BY <1>1, <1>2, <2>1, <2>2, EnqueueProduces
<1>5. CASE RecordOutput(w)
  <2>1. /\ works' = [works EXCEPT ![w].output = works[w].output + 1]
        /\ enqueue("output", w, works[w].output, FALSE)
    BY <1>5 DEF RecordOutput
  <2>2. /\ works' \in [Works -> WorkStates] /\ works'[w].output = works[w].output + 1
        /\ \A v \in Works : works[v].output <= works'[v].output
    BY <1>1, <2>1 DEF WorkStates
  <2> QED
    BY <1>1, <1>2, <2>1, <2>2, EnqueueProduces
<1>6. CASE RecordFinished(w)
  <2>1. works' = [works EXCEPT ![w].status = "gone"] /\ enqueue("finished", w, 0, FALSE)
    BY <1>6 DEF RecordFinished
  <2>2. works' \in [Works -> WorkStates] /\ \A v \in Works : works[v].output <= works'[v].output
    BY <1>1, <2>1 DEF WorkStates
  <2> QED
    BY <1>1, <1>2, <2>1, <2>2, EnqueueProduces
<1> QED
  BY <1>3, <1>4, <1>5, <1>6

LEMMA ShutdownProduces ==
  ASSUME Shape, ShutdownBegins
  PROVE  Produced
<1>1. /\ Running /\ UNCHANGED <<disk, reader, writer, up, works, ghost>>
      /\ world' = [world EXCEPT !.faults = @ + 1, !.stopping = TRUE]
      /\ EnqueueIn("service", None, 0, TRUE) \/ inner' = inner
  BY DEF ShutdownBegins
<1>2. world' \in Worlds /\ world'.expired = world.expired
  <2>1. world \in Worlds /\ world.faults + 1 \in Nat
    BY DEF Shape, Worlds
  <2>2. world' = [world EXCEPT !.faults = world.faults + 1, !.stopping = TRUE]
    BY <1>1
  <2> QED
    BY <2>1, <2>2 DEF Worlds
<1>3. works' \in [Works -> WorkStates] /\ \A v \in Works : works[v].output <= works'[v].output
  BY <1>1 DEF Shape, WorkStates
<1>4. CASE inner' = inner
  BY <1>1, <1>2, <1>3, <1>4 DEF Produced
<1>5. CASE EnqueueIn("service", None, 0, TRUE)
  <2> DEFINE e == NewEvent(inner.producer + 1, "service", None, 0)
  <2>1. Queues(e, TRUE) \/ Drops
    BY <1>5, EnqueueInEffect DEF Kinds
  <2>2. inner.producer + 1 \in Nat /\ inner.producer + 1 > 0
    BY ShapeParts
  <2>3. e \in Events /\ e.kind = "service"
    <3>1. "service" \in Kinds /\ None \in Works \cup {None} /\ 0 \in Nat
          /\ "service" \notin {"output", "started", "finished", "interrupted"}
      BY DEF Kinds
    <3> QED
      BY <2>2, <3>1, NewEventShape
  <2> HIDE DEF e
  <2>4. Queues(e, TRUE) => Queued_(e, TRUE)
    BY <2>3 DEF Queued_
  <2> QED
    BY <1>1, <1>2, <1>3, <2>1, <2>3, <2>4 DEF Produced
<1> QED
  BY <1>1, <1>4, <1>5

(* What is dropped leaves the queue alone.                                 *)
LEMMA DropsShape ==
  ASSUME Shape, Drops
  PROVE  /\ inner' \in Inners /\ inner'.producer = inner.producer + 1
         /\ inner'.pending = inner.pending \cup {inner.producer + 1}
         /\ inner'.queue = inner.queue
<1>1. PICK healthy \in BOOLEAN :
        inner' = [inner EXCEPT !.producer = @ + 1, !.pending = @ \cup {inner.producer + 1},
                               !.healthy = healthy]
  BY DEF Drops
<1>2. inner \in Inners /\ inner.producer + 1 \in Nat /\ inner.pending \in FiniteSets_(Nat)
  BY DEF Shape, Inners
<1>3. {inner.producer + 1} \in FiniteSets_(Nat)
  <2>1. IsFiniteSet({inner.producer + 1})
    BY FS_Singleton
  <2> QED
    BY <1>2, <2>1 DEF FiniteSets_
<1>4. inner.pending \cup {inner.producer + 1} \in FiniteSets_(Nat)
  BY <1>2, <1>3, UnionFinite
<1> QED
  BY <1>1, <1>2, <1>4 DEF Inners

LEMMA ProducedShape ==
  ASSUME Shape, Phase, Produced
  PROVE  Shape' /\ Phase'
<1>1. inner' \in Inners
  <2>1. ASSUME NEW event \in Events, NEW ack \in BOOLEAN, Queued_(event, ack)
        PROVE  inner' \in Inners
    BY <2>1, QueuesShape DEF Queued_
  <2> QED
    BY <2>1, DropsShape DEF Produced, Shape
<1>2. Shape'
  BY <1>1 DEF Produced, Shape
<1>3. Phase'
  BY DEF Produced, Phase, Running, At
<1> QED
  BY <1>2, <1>3

(* Receive cuts the queue in two.                                          *)
LEMMA ReceiveEffect ==
  ASSUME Shape, Phase, Receive
  PROVE  /\ Shape' /\ Phase'
         /\ UNCHANGED <<disk, reader, up, works, world, ghost>>
         /\ inner'.producer = inner.producer /\ inner'.pending = inner.pending
         /\ writer.pc = "idle" /\ writer'.pc = "write" /\ writer'.cause = "append"
         /\ \E n \in 1 .. Len(inner.queue) :
              /\ DOMAIN writer'.batch = 1 .. n
              /\ \A i \in 1 .. n : writer'.batch[i] = inner.queue[i]
              /\ DOMAIN inner'.queue = 1 .. (Len(inner.queue) - n)
              /\ Len(inner'.queue) <= Len(inner.queue)
              /\ \A i \in 1 .. (Len(inner.queue) - n) : inner'.queue[i] = inner.queue[n + i]
<1> DEFINE q == inner.queue
           n == Min({Len(q), BatchLimit})
           b == SubSeq(q, 1, n)
           r == SubSeq(q, n + 1, Len(q))
<1>1. /\ Running /\ At("idle") /\ q # <<>>
      /\ writer' = [pc |-> "write", cause |-> "append", batch |-> b]
      /\ inner' = [inner EXCEPT !.queue = r]
      /\ UNCHANGED <<disk, reader, up, works, world, ghost>>
  BY DEF Receive
<1>2. q \in Seq(Messages) /\ Len(q) \in Nat /\ Len(q) > 0 /\ inner \in Inners
  BY <1>1, LenProperties, EmptySeq DEF Shape, Inners
<1>3. BatchLimit \in Nat /\ BatchLimit > 0
  BY HistoryAssumption
<1>4. n \in 1 .. Len(q)
  <2> DEFINE N == {Len(q), BatchLimit}
  <2>1. N \in SUBSET Nat /\ N # {}
    BY <1>2, <1>3
  <2>2. Min(N) \in N /\ \A y \in N : Min(N) <= y
    <3> HIDE DEF N
    <3> QED BY <2>1, MinOf
  <2>3. n \in N /\ n <= Len(q)
    BY <2>2
  <2> HIDE DEF n
  <2> QED
    BY <2>3, <1>2, <1>3
<1> HIDE DEF n
<1>5. n \in Nat /\ n > 0 /\ n <= Len(q)
  BY <1>2, <1>4
<1>6. \A i \in 1 .. Len(q) : q[i] \in Messages
  BY <1>2, ElementOfSeq
<1>7. b \in Seq(Messages) /\ Len(b) = n /\ \A i \in 1 .. n : b[i] = q[i]
  <2>1. 1 \in Int /\ n \in Int /\ \A i \in 1 .. n : q[i] \in Messages
    BY <1>5, <1>6
  <2>2. Len(b) = n - 1 + 1 /\ b \in Seq(Messages) /\ \A i \in 1 .. n - 1 + 1 : b[i] = q[1 + i - 1]
    BY <2>1, <1>2, <1>5, SubSeqProperties
  <2> QED
    BY <2>2, <1>5
<1>8. /\ r \in Seq(Messages) /\ Len(r) = Len(q) - n
      /\ \A i \in 1 .. (Len(q) - n) : r[i] = q[n + i]
  <2>1. n + 1 \in Int /\ Len(q) \in Int /\ \A i \in n + 1 .. Len(q) : q[i] \in Messages
    BY <1>2, <1>5, <1>6
  <2>2. /\ r \in Seq(Messages)
        /\ Len(r) = IF n + 1 <= Len(q) THEN Len(q) - (n + 1) + 1 ELSE 0
        /\ \A i \in 1 .. Len(q) - (n + 1) + 1 : r[i] = q[n + 1 + i - 1]
    BY <2>1, <1>2, <1>5, SubSeqProperties
  <2> QED
    BY <2>2, <1>2, <1>5
<1>9. DOMAIN b = 1 .. n /\ DOMAIN r = 1 .. (Len(q) - n)
  BY <1>7, <1>8, LenProperties
<1> HIDE DEF b, r
<1>10. writer' \in Writers /\ writer'.pc = "write" /\ writer'.cause = "append" /\ writer'.batch = b
  BY <1>1, <1>7 DEF Writers, Pcs, Causes
<1>11. /\ inner' \in Inners /\ inner'.queue = r /\ inner'.producer = inner.producer
       /\ inner'.pending = inner.pending
  BY <1>1, <1>2, <1>8 DEF Inners
<1>12. Shape'
  BY <1>1, <1>10, <1>11 DEF Shape
<1>13. Phase'
  BY <1>1, <1>10, <1>11 DEF Phase, At, Running
<1>14. Len(r) <= Len(q)
  BY <1>2, <1>5, <1>8
<1> QED
  BY <1>1, <1>4, <1>7, <1>8, <1>9, <1>10, <1>11, <1>12, <1>13, <1>14 DEF At

(* What the reader is after an append, before a tail is trimmed.           *)
Appended ==
  [reader EXCEPT !.events = @ \cup BatchEvents,
                 !.state.next = Max({@} \cup Seqs(BatchEvents)),
                 !.state.open = apply_lifecycle(@, BatchEvents)]

LEMMA AppendedShape ==
  ASSUME Shape
  PROVE  /\ Appended \in Readers
         /\ Appended.events = reader.events \cup BatchEvents
         /\ Appended.state.next \in {reader.state.next} \cup Seqs(BatchEvents)
         /\ reader.state.next <= Appended.state.next
         /\ \A e \in BatchEvents : e.seq <= Appended.state.next
         /\ Appended.state.earliest = reader.state.earliest
         /\ Appended.state.gaps = reader.state.gaps
         /\ Appended.state.windows = reader.state.windows
<1> DEFINE E == reader.events \cup BatchEvents
           N == {reader.state.next} \cup Seqs(BatchEvents)
           next == Max(N)
           open == apply_lifecycle(reader.state.open, BatchEvents)
           st == [reader.state EXCEPT !.next = next, !.open = open]
<1>1. /\ reader \in Readers /\ reader.events \in FiniteSets_(Events) /\ reader.state \in States
      /\ reader.state.next \in Nat /\ reader.state.open \in FiniteSets_(Works)
      /\ BatchEvents \in FiniteSets_(Events)
  BY ShapeParts DEF Shape, Readers, States
<1>2. E \in FiniteSets_(Events)
  BY <1>1, UnionFinite
<1>3. next \in N /\ next \in Nat /\ \A y \in N : y <= next
  <2>1. Seqs(BatchEvents) \in FiniteSets_(Nat)
    BY <1>1, SeqsFinite DEF FiniteSets_
  <2>2. {reader.state.next} \in FiniteSets_(Nat)
    BY <1>1, FS_Singleton DEF FiniteSets_
  <2>3. N \in FiniteSets_(Nat)
    BY <2>1, <2>2, UnionFinite
  <2>4. N \in SUBSET Nat /\ IsFiniteSet(N) /\ N # {}
    BY <2>3 DEF FiniteSets_
  <2>5. Max(N) \in N /\ \A y \in N : y <= Max(N)
    <3> HIDE DEF N
    <3> QED BY <2>4, MaxOf
  <2> QED
    BY <2>4, <2>5
<1>4. open \in FiniteSets_(Works)
  BY <1>1, LifecycleFinite
<1>5. Appended = [events |-> E, state |-> st]
  <2>1. Appended = [reader EXCEPT !.events = E, !.state.next = next, !.state.open = open]
    BY DEF Appended
  <2>2. reader = [events |-> reader.events, state |-> reader.state]
    BY <1>1 DEF Readers
  <2> HIDE DEF E, next, open
  <2> QED
    BY <2>1, <2>2, <1>1 DEF States
<1>6. reader.state.next \in N /\ \A e \in BatchEvents : e.seq \in N
  BY DEF Seqs
<1>7. reader.state.next <= next /\ \A e \in BatchEvents : e.seq <= next
  <2> HIDE DEF N, next
  <2> QED BY <1>3, <1>6
<1> HIDE DEF E, next, open
<1>8. /\ st \in States /\ st.next = next /\ st.open = open /\ st.gaps = reader.state.gaps
      /\ st.earliest = reader.state.earliest /\ st.windows = reader.state.windows
  BY <1>1, <1>3, <1>4 DEF States
<1>9. Appended.events = E /\ Appended.state = st /\ Appended \in Readers
  <2> HIDE DEF st
  <2> QED
    BY <1>2, <1>5, <1>8 DEF Readers
<1> QED
  BY <1>3, <1>7, <1>8, <1>9 DEF E

(* Retention, and what an append left behind a damage, for the properties. *)
LEMMA GhostRemoves ==
  ASSUME Shape, NEW gone \in SUBSET Events, NEW behind \in SUBSET Events,
         ghost' = [ghost EXCEPT !.removed = @ \cup gone, !.behind = behind]
  PROVE  /\ ghost' \in Ghosts /\ ghost'.acked = ghost.acked /\ ghost'.taken = ghost.taken
         /\ ghost'.behind = behind /\ ghost'.removed = ghost.removed \cup gone
         /\ ghost'.booted = ghost.booted /\ ghost'.undone = ghost.undone
         /\ ghost'.committed = ghost.committed
BY DEF Shape, Ghosts

(* The reader and the journal after the lines were written.                *)
LEMMA AppendWriteEffect ==
  ASSUME Shape, Phase, AppendWrite
  PROVE  /\ Shape' /\ Phase'
         /\ UNCHANGED <<inner, up, works, world>>
         /\ writer.pc = "write" /\ writer'.pc = "settle"
         /\ writer'.batch = writer.batch /\ writer'.cause = writer.cause
         /\ up # "down" /\ up # "finished"
         /\ reader' = track_tail(Appended)
         /\ disk'.journal.torn = disk.journal.torn
         /\ IF disk.journal.torn THEN disk' = disk
            ELSE /\ disk'.journal.lines = disk.journal.lines \cup BatchEvents
                 /\ disk'.cut = {}
         /\ disk'.old_journals = disk.old_journals
         /\ disk'.old_saved = disk.old_saved /\ disk'.saved = disk.saved
         /\ ghost'.acked = ghost.acked /\ ghost'.booted = ghost.booted
         /\ ghost'.taken = ghost.taken /\ ghost'.committed = ghost.committed
         /\ ghost'.undone = ghost.undone
         /\ ghost'.removed = ghost.removed \cup Trimmed(Appended.events)
         /\ ghost'.behind = IF disk.journal.torn THEN ghost.behind \cup BatchEvents
                            ELSE ghost.behind
<1>1. /\ At("write") /\ Goto("settle") /\ UNCHANGED <<inner, up, works, world>>
      /\ disk' = IF disk.journal.torn THEN disk
                 ELSE [disk EXCEPT !.journal.lines = @ \cup BatchEvents, !.cut = {}]
      /\ reader' = track_tail(Appended)
      /\ ghost' = [ghost EXCEPT
           !.removed = @ \cup Trimmed(Appended.events),
           !.behind = IF disk.journal.torn THEN @ \cup BatchEvents ELSE @]
  BY DEF AppendWrite, Appended
<1>2. /\ writer' \in Writers /\ writer'.pc = "settle" /\ writer'.cause = writer.cause
      /\ writer'.batch = writer.batch
  BY <1>1, GotoEffect DEF Pcs
<1>3. writer.cause \in {"append", "startup"} /\ up # "down" /\ up # "finished"
  BY <1>1 DEF At, Phase
<1>4. Appended \in Readers /\ track_tail(Appended) \in Readers
  BY AppendedShape, TrackTail
<1>5. /\ ghost' \in Ghosts /\ ghost'.acked = ghost.acked /\ ghost'.booted = ghost.booted
      /\ ghost'.taken = ghost.taken /\ ghost'.committed = ghost.committed
      /\ ghost'.undone = ghost.undone
      /\ ghost'.removed = ghost.removed \cup Trimmed(Appended.events)
      /\ ghost'.behind = IF disk.journal.torn THEN ghost.behind \cup BatchEvents
                         ELSE ghost.behind
  <2> DEFINE gone == Trimmed(Appended.events)
             behind == IF disk.journal.torn THEN ghost.behind \cup BatchEvents ELSE ghost.behind
  <2>1. Appended.events \subseteq Events
    BY <1>4, ReaderParts
  <2>2. gone \in SUBSET Events
    BY <2>1 DEF Trimmed
  <2>3. BatchEvents \in SUBSET Events
    BY ShapeParts DEF FiniteSets_
  <2>4. behind \in SUBSET Events
    BY <2>3 DEF Shape, Ghosts
  <2>5. ghost' = [ghost EXCEPT !.removed = @ \cup gone, !.behind = behind]
    BY <1>1
  <2> HIDE DEF gone, behind
  <2>6. /\ ghost' \in Ghosts /\ ghost'.acked = ghost.acked /\ ghost'.taken = ghost.taken
        /\ ghost'.behind = behind /\ ghost'.removed = ghost.removed \cup gone
        /\ ghost'.booted = ghost.booted /\ ghost'.undone = ghost.undone
        /\ ghost'.committed = ghost.committed
    BY <2>2, <2>4, <2>5, GhostRemoves
  <2> QED
    BY <2>6 DEF gone, behind
<1>6. /\ disk' \in Disks /\ disk'.journal.torn = disk.journal.torn
      /\ IF disk.journal.torn THEN disk' = disk
         ELSE /\ disk'.journal.lines = disk.journal.lines \cup BatchEvents
              /\ disk'.cut = {}
      /\ disk'.old_journals = disk.old_journals /\ disk'.old_saved = disk.old_saved
      /\ disk'.saved = disk.saved
  <2>1. CASE disk.journal.torn
    BY <1>1, <2>1 DEF Shape
  <2>2. CASE ~disk.journal.torn
    <3> DEFINE lines == disk.journal.lines \cup BatchEvents
               j == [disk.journal EXCEPT !.lines = lines]
    <3>1. disk.journal \in Journals /\ disk.journal.lines \in FiniteSets_(Events)
      BY DiskParts
    <3>2. lines \in FiniteSets_(Events)
      BY <3>1, ShapeParts, UnionFinite
    <3>3. disk' = [disk EXCEPT !.journal = j, !.cut = {}]
      <4>1. disk' = [disk EXCEPT !.journal.lines = lines, !.cut = {}]
        BY <1>1, <2>2
      <4> HIDE DEF lines
      <4> QED BY <4>1, DiskParts
    <3> HIDE DEF lines
    <3>4. j \in Journals /\ j.lines = lines /\ j.torn = disk.journal.torn
      BY <3>1, <3>2 DEF Journals
    <3> HIDE DEF j
    <3>5. /\ disk' \in Disks /\ disk'.journal = j /\ disk'.old_journals = disk.old_journals
          /\ disk'.old_saved = disk.old_saved /\ disk'.saved = disk.saved /\ disk'.cut = {}
      BY <3>3, <3>4, DiskParts DEF Disks
    <3> QED
      BY <2>2, <3>4, <3>5 DEF lines
  <2> QED
    BY <2>1, <2>2
<1>7. Shape'
  BY <1>1, <1>2, <1>4, <1>5, <1>6 DEF Shape
<1>8. Phase'
  BY <1>1, <1>2, <1>3 DEF Phase, At
<1> QED
  BY <1>1, <1>2, <1>3, <1>5, <1>6, <1>7, <1>8 DEF At

(* The reader with the gaps that waited.                                   *)
Described == [reader EXCEPT !.state.gaps = @ \cup inner.pending]

LEMMA DescribedShape ==
  ASSUME Shape
  PROVE  /\ Described \in Readers /\ Described.events = reader.events
         /\ Described.state.next = reader.state.next
         /\ Described.state.earliest = reader.state.earliest
         /\ Described.state.windows = reader.state.windows
         /\ Described.state.open = reader.state.open
         /\ Described.state.gaps = reader.state.gaps \cup inner.pending
<1> DEFINE gaps == reader.state.gaps \cup inner.pending
           st == [reader.state EXCEPT !.gaps = gaps]
<1>1. /\ reader \in Readers /\ reader.events \in FiniteSets_(Events) /\ reader.state \in States
      /\ reader.state.gaps \in FiniteSets_(Nat) /\ inner.pending \in FiniteSets_(Nat)
  BY ShapeParts DEF Shape, Readers, States
<1>2. gaps \in FiniteSets_(Nat)
  BY <1>1, UnionFinite
<1>3. Described = [events |-> reader.events, state |-> st]
  <2>1. Described = [reader EXCEPT !.state.gaps = gaps]
    BY DEF Described
  <2>2. reader = [events |-> reader.events, state |-> reader.state]
    BY <1>1 DEF Readers
  <2> HIDE DEF gaps
  <2> QED
    BY <2>1, <2>2, <1>1 DEF States
<1> HIDE DEF gaps
<1>4. /\ st \in States /\ st.next = reader.state.next /\ st.open = reader.state.open
      /\ st.gaps = gaps /\ st.earliest = reader.state.earliest
      /\ st.windows = reader.state.windows
  BY <1>1, <1>2 DEF States
<1>5. Described.events = reader.events /\ Described.state = st /\ Described \in Readers
  <2> HIDE DEF st
  <2> QED
    BY <1>1, <1>3, <1>4 DEF Readers
<1> QED
  BY <1>4, <1>5 DEF gaps

(* Retention is applied to the reader, or to one that replay has found.    *)
LEMMA RemovesShape ==
  ASSUME Shape, NEW r \in Readers, Removes(Pruned(r.events))
  PROVE  /\ ghost' \in Ghosts
         /\ ghost'.removed = ghost.removed \cup Pruned(r.events)
         /\ ghost'.acked = ghost.acked /\ ghost'.committed = ghost.committed
         /\ ghost'.booted = ghost.booted /\ ghost'.taken = ghost.taken
         /\ ghost'.behind = ghost.behind /\ ghost'.undone = ghost.undone
<1>1. Pruned(r.events) \in SUBSET Events
  BY ReaderParts DEF Pruned
<1>2. ghost.behind \in SUBSET Events
  BY DEF Shape, Ghosts
<1>3. ghost' = [ghost EXCEPT !.removed = @ \cup Pruned(r.events), !.behind = ghost.behind]
  BY DEF Removes, Shape, Ghosts
<1> QED
  BY <1>1, <1>2, <1>3, GhostRemoves

LEMMA AppendSettlesEffect ==
  ASSUME Shape, Phase, AppendSettles,
         \A e \in reader.events : e.seq <= reader.state.next
  PROVE  /\ Shape' /\ Phase'
         /\ UNCHANGED <<disk, up, works, world>>
         /\ reader' = prune(Described)
         /\ writer.pc = "settle" /\ writer'.pc \in {"compact", "persist"}
         /\ writer'.cause = writer.cause /\ writer'.batch = writer.batch
         /\ inner'.producer = inner.producer /\ inner'.pending = {}
         /\ inner'.queue = inner.queue
         /\ ghost'.acked = ghost.acked /\ ghost'.committed = ghost.committed
         /\ ghost'.booted = ghost.booted /\ ghost'.taken = ghost.taken
         /\ ghost'.behind = ghost.behind /\ ghost'.undone = ghost.undone
         /\ ghost'.removed = ghost.removed \cup Pruned(reader.events)
<1>1. /\ At("settle") /\ UNCHANGED <<disk, up, works, world>>
      /\ reader' = prune(Described) /\ Removes(Pruned(Described.events))
      /\ inner' = [inner EXCEPT !.pending = {}]
  BY DEF AppendSettles, Described
<1>2. PICK pc \in {"compact", "persist"} : Goto(pc)
  BY DEF AppendSettles
<1>3. pc \in Pcs
  BY DEF Pcs
<1>4. /\ writer' \in Writers /\ writer'.pc = pc /\ writer'.cause = writer.cause
      /\ writer'.batch = writer.batch
  BY <1>2, <1>3, GotoEffect
<1>5. /\ Described \in Readers /\ Described.events = reader.events
      /\ Described.state.next = reader.state.next
  BY DescribedShape
<1>6. reader' \in Readers
  <2>1. world.expired \in Nat
    BY ShapeParts
  <2>2. \A e \in Described.events : e.seq <= Described.state.next
    BY <1>5
  <2> QED
    BY <1>1, <1>5, <2>1, <2>2, PruneState
<1>7. /\ inner' \in Inners /\ inner'.producer = inner.producer /\ inner'.pending = {}
      /\ inner'.queue = inner.queue
  <2>1. {} \in FiniteSets_(Nat)
    BY FS_EmptySet DEF FiniteSets_
  <2>2. inner \in Inners
    BY DEF Shape
  <2> QED
    BY <1>1, <2>1, <2>2 DEF Inners
<1>8. /\ ghost' \in Ghosts
      /\ ghost'.acked = ghost.acked /\ ghost'.committed = ghost.committed
      /\ ghost'.booted = ghost.booted /\ ghost'.taken = ghost.taken
      /\ ghost'.behind = ghost.behind /\ ghost'.undone = ghost.undone
      /\ ghost'.removed = ghost.removed \cup Pruned(reader.events)
  BY <1>1, <1>5, RemovesShape
<1>9. Shape'
  BY <1>1, <1>4, <1>6, <1>7, <1>8 DEF Shape
<1>10. writer.cause # "none" /\ up # "down" /\ up # "finished"
  BY <1>1 DEF Phase, At
<1>11. Phase'
  BY <1>1, <1>2, <1>4, <1>7, <1>10 DEF Phase, At
<1> QED
  BY <1>1, <1>2, <1>4, <1>7, <1>8, <1>9, <1>11 DEF At

LEMMA MaintainEffect ==
  ASSUME Shape, Phase, Maintain,
         \A e \in reader.events : e.seq <= reader.state.next
  PROVE  /\ Shape' /\ Phase'
         /\ UNCHANGED <<disk, inner, up, works, world>>
         /\ reader' = prune(reader)
         /\ writer.pc = "maintain" /\ writer'.pc = "compact" /\ writer'.cause = "maintain"
         /\ writer'.batch = writer.batch
         /\ ghost'.acked = ghost.acked /\ ghost'.committed = ghost.committed
         /\ ghost'.booted = ghost.booted /\ ghost'.taken = ghost.taken
         /\ ghost'.behind = ghost.behind /\ ghost'.undone = ghost.undone
         /\ ghost'.removed = ghost.removed \cup Pruned(reader.events)
<1>1. /\ At("maintain") /\ UNCHANGED <<disk, inner, up, works, world>>
      /\ reader' = prune(reader) /\ Removes(Pruned(reader.events))
      /\ writer' = [writer EXCEPT !.pc = "compact", !.cause = "maintain"]
  BY DEF Maintain
<1>2. /\ writer' \in Writers /\ writer'.pc = "compact" /\ writer'.cause = "maintain"
      /\ writer'.batch = writer.batch
  <2>1. /\ writer.batch \in Seq(Messages)
        /\ writer = [pc |-> writer.pc, cause |-> writer.cause, batch |-> writer.batch]
    BY ShapeParts
  <2> QED
    BY <1>1, <2>1 DEF Writers, Pcs, Causes
<1>3. reader \in Readers
  BY DEF Shape
<1>4. reader' \in Readers
  <2>1. world.expired \in Nat
    BY ShapeParts
  <2> QED
    BY <1>1, <1>3, <2>1, PruneState
<1>5. /\ ghost' \in Ghosts
      /\ ghost'.acked = ghost.acked /\ ghost'.committed = ghost.committed
      /\ ghost'.booted = ghost.booted /\ ghost'.taken = ghost.taken
      /\ ghost'.behind = ghost.behind /\ ghost'.undone = ghost.undone
      /\ ghost'.removed = ghost.removed \cup Pruned(reader.events)
  BY <1>1, <1>3, RemovesShape
<1>6. Shape'
  BY <1>1, <1>2, <1>4, <1>5 DEF Shape
<1>7. /\ up = "running" /\ writer.cause \notin {"append", "startup", "boot"}
      /\ writer.batch = <<>>
  BY <1>1 DEF Phase, At
<1>8. Phase'
  BY <1>1, <1>2, <1>7 DEF Phase, At
<1> QED
  BY <1>1, <1>2, <1>5, <1>6, <1>8 DEF At

(* The head after a pause of the queue.                                    *)
LEMMA TimeoutGapsEffect ==
  ASSUME Shape, Phase, TimeoutGaps
  PROVE  /\ Shape' /\ Phase'
         /\ UNCHANGED <<disk, up, works, world, ghost>>
         /\ writer.pc = "timeout" /\ writer'.pc \in {"persist", "retry"}
         /\ writer'.cause \in {writer.cause, "gaps"} /\ writer'.batch = writer.batch
         /\ inner'.producer = inner.producer /\ inner'.pending = {}
         /\ inner'.queue = inner.queue
         /\ reader'.events = reader.events
         /\ reader'.state.earliest = reader.state.earliest
         /\ reader'.state.windows = reader.state.windows
         /\ reader'.state.gaps = reader.state.gaps \cup inner.pending
         /\ reader.state.next <= reader'.state.next
         /\ \/ reader'.state.next = reader.state.next
            \/ (inner.queue = <<>> /\ reader'.state.next \in reader'.state.gaps)
<1> DEFINE filled == [reader.state EXCEPT !.gaps = @ \cup inner.pending]
           next == HeadAcross(filled)
           st == [filled EXCEPT !.next = next]
<1>1. /\ At("timeout") /\ UNCHANGED <<disk, up, works, world, ghost>>
      /\ reader' = [reader EXCEPT !.state = st]
      /\ inner' = [inner EXCEPT !.pending = {}]
  BY DEF TimeoutGaps
<1>2. /\ reader \in Readers /\ reader.state \in States /\ reader.state.next \in Nat
      /\ reader.state.gaps \in FiniteSets_(Nat) /\ inner.pending \in FiniteSets_(Nat)
  BY ShapeParts DEF Shape, Readers, States
<1>3. reader.state.gaps \cup inner.pending \in FiniteSets_(Nat)
  BY <1>2, UnionFinite
<1>4. /\ filled \in States /\ filled.next = reader.state.next
      /\ filled.gaps = reader.state.gaps \cup inner.pending
      /\ filled.earliest = reader.state.earliest /\ filled.windows = reader.state.windows
  BY <1>2, <1>3 DEF States
<1> HIDE DEF filled
<1>5. /\ next \in Nat /\ filled.next <= next
      /\ next = filled.next \/ (inner.queue = <<>> /\ next \in filled.gaps)
  <2>1. CASE inner.queue # <<>>
    BY <2>1, <1>2, <1>4 DEF HeadAcross
  <2>2. CASE inner.queue = <<>>
    <3> DEFINE N == {filled.next} \cup filled.gaps
    <3>1. {filled.next} \in FiniteSets_(Nat)
      BY <1>2, <1>4, FS_Singleton DEF FiniteSets_
    <3>2. N \in FiniteSets_(Nat)
      BY <1>3, <1>4, <3>1, UnionFinite
    <3>3. N \in SUBSET Nat /\ IsFiniteSet(N) /\ N # {}
      BY <3>2 DEF FiniteSets_
    <3>4. Max(N) \in N /\ \A y \in N : y <= Max(N)
      <4> HIDE DEF N
      <4> QED BY <3>3, MaxOf
    <3>5. next = Max(N)
      BY <2>2 DEF HeadAcross
    <3>6. filled.next \in N
      OBVIOUS
    <3>7. next \in N /\ next \in Nat /\ filled.next <= next
      <4> HIDE DEF N, next
      <4> QED BY <3>3, <3>4, <3>5, <3>6
    <3> HIDE DEF next
    <3> QED
      BY <2>2, <3>7
  <2> QED
    BY <2>1, <2>2
<1> HIDE DEF next
<1>6. /\ st \in States /\ st.next = next /\ st.gaps = filled.gaps
      /\ st.earliest = filled.earliest /\ st.windows = filled.windows
  BY <1>4, <1>5 DEF States
<1> HIDE DEF st
<1>7. reader' \in Readers /\ reader'.events = reader.events /\ reader'.state = st
  BY <1>1, <1>2, <1>6 DEF Readers
<1>8. /\ inner' \in Inners /\ inner'.producer = inner.producer /\ inner'.pending = {}
      /\ inner'.queue = inner.queue
  <2>1. {} \in FiniteSets_(Nat)
    BY FS_EmptySet DEF FiniteSets_
  <2> QED
    BY <1>1, <2>1 DEF Shape, Inners
<1>9. /\ writer' \in Writers /\ writer'.pc \in {"persist", "retry"}
      /\ writer'.cause \in {writer.cause, "gaps"} /\ writer'.batch = writer.batch
  <2>1. /\ writer.batch \in Seq(Messages) /\ writer.cause \in Causes
        /\ writer = [pc |-> writer.pc, cause |-> writer.cause, batch |-> writer.batch]
    BY ShapeParts
  <2>2. \/ writer' = [writer EXCEPT !.pc = "persist", !.cause = "gaps"]
        \/ writer' = [writer EXCEPT !.pc = "retry"]
    BY DEF TimeoutGaps
  <2> QED
    BY <2>1, <2>2 DEF Writers, Pcs, Causes
<1>10. Shape'
  BY <1>1, <1>7, <1>8, <1>9 DEF Shape
<1>11. /\ up = "running" /\ writer.cause \notin {"append", "startup", "boot"}
       /\ writer.batch = <<>>
  BY <1>1 DEF Phase, At
<1>12. Phase'
  BY <1>1, <1>8, <1>9, <1>11 DEF Phase, At
<1> QED
  BY <1>1, <1>4, <1>5, <1>6, <1>7, <1>8, <1>9, <1>10, <1>12 DEF At

(* The compacted journal holds what the reader shows.                      *)
LEMMA CompactRenameEffect ==
  ASSUME Shape, Phase, CompactRename
  PROVE  /\ Shape' /\ Phase'
         /\ UNCHANGED <<inner, reader, up, works, world, ghost>>
         /\ writer.pc = "compact" /\ writer'.pc = "compacted"
         /\ writer'.cause = writer.cause /\ writer'.batch = writer.batch
         /\ disk'.journal.lines = reader.events /\ ~disk'.journal.torn /\ disk'.cut = {}
         /\ Complete' = {disk'.journal} \cup Complete
         /\ disk'.saved = disk.saved /\ StatesLeft' = StatesLeft
         /\ up # "down"
<1> DEFINE j == [lines |-> reader.events, torn |-> FALSE]
           old == disk.old_journals \cup disk.cut \cup {disk.journal}
<1>1. /\ At("compact") /\ Goto("compacted")
      /\ UNCHANGED <<inner, reader, up, works, world, ghost>>
      /\ disk' = [disk EXCEPT !.journal = j, !.cut = {}, !.old_journals = old]
  BY DEF CompactRename
<1>2. /\ writer' \in Writers /\ writer'.pc = "compacted" /\ writer'.cause = writer.cause
      /\ writer'.batch = writer.batch
  BY <1>1, GotoEffect DEF Pcs
<1>3. up # "down"
  BY <1>1 DEF At, Phase
<1>4. j \in Journals /\ j.lines = reader.events /\ ~j.torn
  BY DEF Shape, Readers, Journals
<1>5. old \subseteq Journals
  BY DiskParts
<1> HIDE DEF j, old
<1>6. /\ disk' \in Disks /\ disk'.journal = j /\ disk'.saved = disk.saved
      /\ disk'.cut = {} /\ disk'.old_journals = old /\ disk'.old_saved = disk.old_saved
  BY <1>1, <1>4, <1>5, DiskParts DEF Disks
<1>7. Complete' = {disk'.journal} \cup Complete /\ StatesLeft' = StatesLeft
  BY <1>6 DEF Complete, StatesLeft, old
<1>8. Shape'
  BY <1>1, <1>2, <1>6 DEF Shape
<1>9. Phase'
  BY <1>1, <1>2, <1>3 DEF Phase, At
<1> QED
  BY <1>1, <1>2, <1>3, <1>4, <1>6, <1>7, <1>8, <1>9 DEF At

(* The new state file describes the reader.                                *)
LEMMA PersistRenameEffect ==
  ASSUME Shape, Phase, PersistRename
  PROVE  /\ Shape' /\ Phase'
         /\ UNCHANGED <<inner, reader, up, works, world, ghost>>
         /\ writer.pc = "persist" /\ writer'.pc = "persisted"
         /\ writer'.cause = writer.cause /\ writer'.batch = writer.batch
         /\ disk'.journal = disk.journal /\ disk'.cut = disk.cut /\ Complete' = Complete
         /\ disk'.saved = reader.state
         /\ StatesLeft' = {reader.state} \cup StatesLeft
         /\ up # "down"
<1>1. /\ At("persist") /\ Goto("persisted")
      /\ UNCHANGED <<inner, reader, up, works, world, ghost>>
      /\ disk' = [disk EXCEPT !.saved = reader.state, !.old_saved = @ \cup {disk.saved}]
  BY DEF PersistRename
<1>2. /\ writer' \in Writers /\ writer'.pc = "persisted" /\ writer'.cause = writer.cause
      /\ writer'.batch = writer.batch
  BY <1>1, GotoEffect DEF Pcs
<1>3. up # "down"
  BY <1>1 DEF At, Phase
<1>4. reader.state \in States
  BY DEF Shape, Readers
<1>5. /\ disk' \in Disks /\ disk'.journal = disk.journal /\ disk'.saved = reader.state
      /\ disk'.cut = disk.cut /\ disk'.old_journals = disk.old_journals
      /\ disk'.old_saved = disk.old_saved \cup {disk.saved}
  BY <1>1, <1>4, DiskParts DEF Disks
<1>6. Complete' = Complete /\ StatesLeft' = {reader.state} \cup StatesLeft
  BY <1>5 DEF Complete, StatesLeft
<1>7. Shape'
  BY <1>1, <1>2, <1>5 DEF Shape
<1>8. Phase'
  BY <1>1, <1>2, <1>3, <1>5 DEF Phase, At
<1> QED
  BY <1>1, <1>2, <1>3, <1>5, <1>6, <1>7, <1>8 DEF At
(* What a process leaves when it ends.                                     *)
LEMMA ForgottenShape ==
  ASSUME Shape, Forgotten
  PROVE  /\ inner' \in Inners /\ writer' \in Writers /\ reader' \in Readers
         /\ ghost' \in Ghosts
         /\ ghost'.acked = ghost.acked /\ ghost'.committed = ghost.committed
         /\ ghost'.booted = ghost.booted /\ ghost'.taken = ghost.taken
         /\ ghost'.behind = ghost.behind /\ ghost'.removed = ghost.removed
         /\ works' \in [Works -> WorkStates]
         /\ \A w \in Works : works'[w].output = works[w].output
         /\ up' = "down" /\ inner'.queue = <<>> /\ writer'.pc = "none"
         /\ writer'.cause = "none" /\ writer'.batch = <<>>
         /\ reader'.events = {} /\ reader'.state = NewState
         /\ Asked' = {} /\ InFlight' = {}
<1>1. /\ writer' = [pc |-> "none", cause |-> "none", batch |-> <<>>]
      /\ inner' = [producer |-> 0, pending |-> {}, queue |-> <<>>, healthy |-> FALSE,
                   stopped |-> FALSE]
      /\ reader' = [events |-> {}, state |-> NewState]
      /\ up' = "down" /\ ghost' = [ghost EXCEPT !.undone = @ \/ Unsettled]
      /\ works' = [w \in Works |-> IF works[w].status = "new" THEN works[w]
                                   ELSE [works[w] EXCEPT !.status = "gone"]]
  BY DEF Forgotten
<1>2. \A S : {} \in FiniteSets_(S)
  BY FS_EmptySet DEF FiniteSets_
<1>3. <<>> \in Seq(Messages) /\ DOMAIN <<>> = {}
  BY EmptySeq
<1>4. NewState \in States
  BY <1>2 DEF NewState, States
<1>5. inner' \in Inners /\ writer' \in Writers /\ reader' \in Readers
  BY <1>1, <1>2, <1>3, <1>4 DEF Inners, Writers, Readers, Pcs, Causes
<1>6. /\ works' \in [Works -> WorkStates]
      /\ \A w \in Works : works'[w].output = works[w].output
  <2>1. works \in [Works -> WorkStates]
    BY DEF Shape
  <2>2. ASSUME NEW w \in Works
        PROVE  works'[w] \in WorkStates /\ works'[w].output = works[w].output
    BY <1>1, <2>1 DEF WorkStates
  <2> QED
    BY <1>1, <2>2
<1>7. /\ inner'.queue = <<>> /\ writer'.pc = "none" /\ writer'.cause = "none"
      /\ writer'.batch = <<>> /\ reader'.events = {} /\ reader'.state = NewState
  BY <1>1
<1>8. /\ ghost' \in Ghosts
      /\ ghost'.acked = ghost.acked /\ ghost'.committed = ghost.committed
      /\ ghost'.booted = ghost.booted /\ ghost'.taken = ghost.taken
      /\ ghost'.behind = ghost.behind /\ ghost'.removed = ghost.removed
  <2> DEFINE undone == ghost.undone \/ Unsettled
  <2>1. undone \in BOOLEAN
    OBVIOUS
  <2>2. ghost' = [ghost EXCEPT !.undone = undone]
    BY <1>1
  <2> HIDE DEF undone
  <2> QED
    BY <2>1, <2>2 DEF Shape, Ghosts
<1>9. Asked' = {} /\ InFlight' = {}
  BY <1>3, <1>7 DEF InFlight, Asked, At
<1> QED
  BY <1>1, <1>5, <1>6, <1>7, <1>8, <1>9

(* The process ends: by a crash at any moment, or after its shutdown.  A   *)
(* crash adds to the contents that may be found.                           *)
LEMMA EndEffect ==
  ASSUME Shape, Phase, Crash \/ Exit
  PROVE  /\ Shape' /\ Phase' /\ FilesQuiet
         /\ disk'.journal = disk.journal /\ disk.cut \subseteq disk'.cut
         /\ disk'.cut \subseteq disk.cut \cup Partial
         /\ StatesLeft' = StatesLeft
         /\ ghost'.acked = ghost.acked /\ ghost'.committed = ghost.committed
         /\ ghost'.booted = ghost.booted /\ ghost'.taken = ghost.taken
         /\ ghost'.behind = ghost.behind /\ ghost'.removed = ghost.removed
         /\ up' = "down" /\ world'.expired = world.expired
         /\ \A w \in Works : works'[w].output = works[w].output
         /\ reader'.events = {} /\ reader'.state = NewState
         /\ InFlight' = {} /\ Asked' = {}
         /\ writer'.pc = "none" /\ inner'.queue = <<>> /\ writer'.batch = <<>>
<1>1. Forgotten
  BY DEF Crash, Exit
<1>2. /\ inner' \in Inners /\ writer' \in Writers /\ reader' \in Readers
      /\ ghost' \in Ghosts
      /\ ghost'.acked = ghost.acked /\ ghost'.committed = ghost.committed
      /\ ghost'.booted = ghost.booted /\ ghost'.taken = ghost.taken
      /\ ghost'.behind = ghost.behind /\ ghost'.removed = ghost.removed
      /\ works' \in [Works -> WorkStates]
      /\ \A w \in Works : works'[w].output = works[w].output
      /\ up' = "down" /\ inner'.queue = <<>> /\ writer'.pc = "none"
      /\ writer'.cause = "none" /\ writer'.batch = <<>>
      /\ reader'.events = {} /\ reader'.state = NewState
      /\ Asked' = {} /\ InFlight' = {}
  BY <1>1, ForgottenShape
<1>3. world' \in Worlds /\ world'.expired = world.expired
  <2>1. CASE Crash
    BY <2>1, FaultWorld DEF Crash
  <2>2. CASE Exit
    BY <2>2 DEF Exit, Shape
  <2> QED
    BY <2>1, <2>2
<1>4. /\ FilesQuiet /\ disk'.journal = disk.journal /\ disk.cut \subseteq disk'.cut
      /\ disk'.cut \subseteq disk.cut \cup Partial
      /\ StatesLeft' = StatesLeft
  <2>1. CASE Crash
    <3>1. disk' = [disk EXCEPT !.cut = @ \cup Partial]
      BY <2>1 DEF Crash
    <3>2. disk' = [disk EXCEPT !.journal.torn = disk.journal.torn, !.cut = @ \cup Partial]
      BY <3>1, DiskParts DEF Journals
    <3>3. disk.journal.torn \in BOOLEAN
      BY DiskParts DEF Journals
    <3>4. FilesQuiet /\ disk'.cut = disk.cut \cup Partial
      <4>1. CASE disk.journal.torn
        BY <3>2, <3>3, <4>1, CutQuiet
      <4>2. CASE ~disk.journal.torn
        BY <3>2, <3>3, <4>2, CutQuiet
      <4> QED
        BY <4>1, <4>2
    <3>5. /\ disk'.journal = disk.journal /\ disk'.saved = disk.saved
          /\ disk'.old_saved = disk.old_saved
      BY <3>1, DiskParts
    <3> QED
      BY <3>4, <3>5 DEF StatesLeft
  <2>2. CASE Exit
    BY <2>2, SameFiles DEF Exit
  <2> QED
    BY <2>1, <2>2
<1>5. Shape'
  BY <1>2, <1>3, <1>4 DEF Shape, FilesQuiet
<1>6. Phase'
  BY <1>2 DEF Phase, At
<1> QED
  BY <1>2, <1>3, <1>4, <1>5, <1>6

(* What initialize finds in a journal and a state file.                    *)
LEMMA FoundShape ==
  ASSUME Shape, NEW j \in Journals, NEW s \in States
  PROVE  /\ Replay(j, s) \in Readers /\ track_tail(Replay(j, s)) \in Readers
         /\ prune(track_tail(Replay(j, s))) \in Readers
         /\ \A e \in Replay(j, s).events :
              e \in j.lines /\ e.seq <= Replay(j, s).state.next
         /\ \A e \in track_tail(Replay(j, s)).events :
              e.seq <= track_tail(Replay(j, s)).state.next
<1> DEFINE found == Replay(j, s)
<1>1. /\ found \in Readers /\ found.events = {e \in j.lines : ~Retired(e, s)}
      /\ \A e \in j.lines : e.seq <= found.state.next
  BY ReplayState
<1> HIDE DEF found
<1>2. /\ track_tail(found) \in Readers
      /\ track_tail(found).events = found.events \ Trimmed(found.events)
      /\ track_tail(found).state.next = found.state.next
  BY <1>1, TrackTail
<1>3. \A e \in found.events : e \in j.lines /\ e.seq <= found.state.next
  BY <1>1
<1>4. \A e \in track_tail(found).events : e.seq <= track_tail(found).state.next
  BY <1>2, <1>3
<1>5. prune(track_tail(found)) \in Readers
  BY <1>2, <1>4, ShapeParts, PruneState
<1> QED
  BY <1>1, <1>2, <1>3, <1>4, <1>5 DEF found

(* The service starts on a journal and a state file that were left.        *)
Starts(journal, saved) ==
  /\ disk'.journal.lines = journal.lines /\ ~disk'.journal.torn
  /\ disk'.saved = saved /\ disk'.cut = {journal}
  /\ Complete' = {disk'.journal, journal} /\ StatesLeft' = {saved}
  /\ reader' = prune(track_tail(Replay(journal, saved)))
  /\ inner'.producer = Replay(journal, saved).state.next
  /\ ghost'.booted = Replay(journal, saved).state.next
  /\ ghost'.removed = ghost.removed \cup (Replay(journal, saved).events \ reader'.events)

LEMMA InitializeEffect ==
  ASSUME Shape, Phase, initialize
  PROVE  /\ Shape' /\ Phase'
         /\ \E journal \in Complete, saved \in StatesLeft : Starts(journal, saved)
         /\ works' = works /\ world'.expired = world.expired
         /\ up = "down" /\ up' = "starting" /\ ~At("write")
         /\ inner'.pending = {} /\ inner'.queue = <<>>
         /\ writer'.pc = "compact" /\ writer'.cause = "boot" /\ writer'.batch = <<>>
         /\ ghost'.acked = ghost.acked /\ ghost'.committed = ghost.committed
         /\ ghost'.taken = ghost.taken /\ ghost'.behind = ghost.behind
<1>1. /\ works' = works /\ up = "down" /\ up' = "starting"
      /\ world' = [world EXCEPT !.instance = @ + 1, !.stopping = FALSE]
      /\ writer' = [pc |-> "compact", cause |-> "boot", batch |-> <<>>]
  BY DEF initialize
<1>2. ~At("write")
  BY <1>1 DEF Phase, At
<1>3. JournalsLeft = Complete
  BY <1>2 DEF JournalsLeft, Complete, Partial
<1>4. PICK journal \in Complete, saved \in StatesLeft :
        /\ disk' = [journal |-> [journal EXCEPT !.torn = FALSE], saved |-> saved,
                    cut |-> {journal}, old_journals |-> {}, old_saved |-> {}]
        /\ reader' = prune(track_tail(Replay(journal, saved)))
        /\ ghost' = [ghost EXCEPT
             !.removed = @ \cup (Replay(journal, saved).events \ reader'.events),
             !.booted = Replay(journal, saved).state.next]
        /\ inner' = [producer |-> Replay(journal, saved).state.next, pending |-> {},
                     queue |-> <<>>, healthy |-> TRUE, stopped |-> FALSE]
  BY <1>3 DEF initialize
<1> DEFINE found == Replay(journal, saved)
           cutoff == [journal EXCEPT !.torn = FALSE]
<1>5. journal \in Journals /\ saved \in States
  BY DiskParts
<1>6. reader' \in Readers /\ found \in Readers
  BY <1>4, <1>5, FoundShape
<1>7. found.state.next \in Nat /\ found.events \subseteq Events
  BY <1>6, ReaderParts
<1>8. cutoff \in Journals /\ cutoff.lines = journal.lines /\ ~cutoff.torn
  BY <1>5 DEF Journals
<1> HIDE DEF found, cutoff
<1>9. /\ disk' \in Disks /\ disk'.journal = cutoff /\ disk'.saved = saved
      /\ disk'.cut = {journal} /\ disk'.old_journals = {} /\ disk'.old_saved = {}
  BY <1>4, <1>5, <1>8 DEF Disks, cutoff
<1>10. Complete' = {disk'.journal, journal} /\ StatesLeft' = {saved}
  BY <1>9 DEF Complete, StatesLeft
<1>11. {} \in FiniteSets_(Nat) /\ <<>> \in Seq(Messages)
  BY FS_EmptySet, EmptySeq DEF FiniteSets_
<1>12. /\ inner' \in Inners /\ writer' \in Writers
       /\ inner'.producer = found.state.next /\ inner'.pending = {} /\ inner'.queue = <<>>
       /\ writer'.pc = "compact" /\ writer'.cause = "boot" /\ writer'.batch = <<>>
  BY <1>1, <1>4, <1>7, <1>11 DEF Inners, Writers, Pcs, Causes, found
<1>13. world' \in Worlds /\ world'.expired = world.expired
  <2>1. world \in Worlds /\ world.instance + 1 \in Nat
    BY DEF Shape, Worlds
  <2>2. world' = [world EXCEPT !.instance = world.instance + 1, !.stopping = FALSE]
    BY <1>1
  <2> QED
    BY <2>1, <2>2 DEF Worlds
<1>14. /\ ghost' \in Ghosts /\ ghost'.acked = ghost.acked
       /\ ghost'.committed = ghost.committed
       /\ ghost'.taken = ghost.taken /\ ghost'.behind = ghost.behind
       /\ ghost'.removed = ghost.removed \cup (found.events \ reader'.events)
       /\ ghost'.booted = found.state.next
  <2> DEFINE gone == found.events \ reader'.events
  <2>1. gone \subseteq Events
    BY <1>7
  <2>2. ghost' = [ghost EXCEPT !.removed = ghost.removed \cup gone, !.booted = found.state.next]
    BY <1>4 DEF found
  <2> HIDE DEF gone
  <2>3. /\ ghost' \in Ghosts /\ ghost'.acked = ghost.acked
        /\ ghost'.committed = ghost.committed
        /\ ghost'.taken = ghost.taken /\ ghost'.behind = ghost.behind
        /\ ghost'.removed = ghost.removed \cup gone /\ ghost'.booted = found.state.next
    BY <2>1, <2>2, <1>7 DEF Shape, Ghosts
  <2> QED
    BY <2>3 DEF gone
<1>15. Shape'
  BY <1>1, <1>6, <1>9, <1>12, <1>13, <1>14 DEF Shape
<1>16. Phase'
  BY <1>1, <1>12 DEF Phase, At
<1>17. Starts(journal, saved)
  BY <1>4, <1>8, <1>9, <1>10, <1>12, <1>14 DEF Starts, found
<1> QED
  BY <1>1, <1>2, <1>12, <1>13, <1>14, <1>15, <1>16, <1>17

(* An event grows old.                                                     *)
LEMMA ExpireEffect ==
  ASSUME Shape, Phase, Expire
  PROVE  /\ Shape' /\ Phase'
         /\ UNCHANGED <<disk, inner, reader, writer, up, works, ghost>>
         /\ \A s \in StatesLeft : world'.expired <= s.next
<1>1. UNCHANGED <<disk, inner, reader, writer, up, works, ghost>>
  BY DEF Expire
<1>2. PICK e \in reader.events :
        /\ \A s \in StatesLeft : e.seq <= s.next
        /\ world' = [world EXCEPT !.expired = e.seq, !.faults = @ + 1]
  BY DEF Expire
<1>3. e \in Events /\ e.seq \in Nat
  <2>1. e \in Events
    BY ReaderParts DEF Shape
  <2> QED
    BY <2>1, EventFields
<1>4. world' \in Worlds /\ world'.expired = e.seq
  <2>1. world \in Worlds
    BY DEF Shape
  <2>2. world.faults + 1 \in Nat
    BY <2>1 DEF Worlds
  <2> QED
    BY <1>2, <1>3, <2>1, <2>2 DEF Worlds
<1>5. Shape'
  BY <1>1, <1>4 DEF Shape
<1>6. Phase'
  BY <1>1 DEF Phase, At
<1> QED
  BY <1>1, <1>2, <1>4, <1>5, <1>6

(* The steps by what they do to numbers, readers and files.                *)
LEMMA NextCases ==
  ASSUME Shape, Phase, Next
  PROVE  \/ Quiet /\ Shape' /\ Phase'
         \/ Produced \/ Receive \/ AppendWrite \/ AppendSettles \/ StartsUp
         \/ CompactRename \/ PersistRename \/ TimeoutGaps \/ Maintain
         \/ Crash \/ Exit \/ initialize \/ Expire
<1>1. CASE Produce
  <2>1. PICK w \in Works : \/ Request(w) \/ RequestTimesOut(w) \/ RecordStarted(w)
                           \/ RecordOutput(w) \/ RecordFinished(w)
    BY <1>1 DEF Produce
  <2> QED
    BY <2>1, RequestTimesOutQuiet, ProducersProduce
<1>2. CASE Write
  BY <1>2, WriterMovesQuiet, CompactSyncQuiet, PersistSyncCases DEF Write
<1>3. CASE Environment
  BY <1>3, ShutdownProduces, ShutdownQuiet, AppendFailsQuiet, AppendDamagesQuiet,
     CompactFailsQuiet, PersistFailsQuiet, WriterMovesQuiet DEF Environment
<1> QED
  BY <1>1, <1>2, <1>3 DEF Next
-----------------------------------------------------------------------------
(* The parts of the invariant.                                             *)

(* The events that are known.                                              *)
LEMMA KnownParts ==
  ASSUME Shape
  PROVE  /\ Known \subseteq Events /\ BatchEvents \subseteq Events
         /\ \A e \in Known \cup BatchEvents : e.seq \in Nat /\ e.seq > 0 /\ e.offset \in Nat
         /\ reader.events \subseteq Known /\ ghost.committed \subseteq Known /\ InFlight \subseteq Known
         /\ \A j \in Complete : j \in Journals /\ j.lines \subseteq Known
         /\ \A s \in StatesLeft \cup {reader.state} :
              s \in States /\ s.next \in Nat /\ s.earliest \in Nat
         /\ \A i \in DOMAIN inner.queue : inner.queue[i].event \in InFlight
         /\ \A i \in DOMAIN writer.batch : writer.batch[i].event \in BatchEvents
         /\ At("write") => BatchEvents \subseteq InFlight
<1>1. \A j \in Complete : j \in Journals /\ j.lines \subseteq Events
  BY DEF Shape, Disks, Journals, Complete, FiniteSets_
<1>2. reader.events \subseteq Events /\ ghost.committed \subseteq Events
  BY ReaderParts DEF Shape, Ghosts
<1>3. BatchEvents \subseteq Events
  BY ShapeParts DEF FiniteSets_
<1>4. {inner.queue[i].event : i \in DOMAIN inner.queue} \subseteq Events
  BY ShapeParts, MessageEvents DEF FiniteSets_
<1>5. InFlight \subseteq Events
  BY <1>3, <1>4 DEF InFlight
<1>6. Known \subseteq Events
  BY <1>1, <1>2, <1>5 DEF Known
<1>7. \A e \in Known \cup BatchEvents : e.seq \in Nat /\ e.seq > 0 /\ e.offset \in Nat
  BY <1>3, <1>6, EventFields
<1>8. \A s \in StatesLeft \cup {reader.state} : s \in States
  BY DEF Shape, Disks, Readers, StatesLeft
<1>9. \A s \in States : s.next \in Nat /\ s.earliest \in Nat
  BY DEF States
<1>10. /\ \A i \in DOMAIN inner.queue : inner.queue[i].event \in InFlight
       /\ \A i \in DOMAIN writer.batch : writer.batch[i].event \in BatchEvents
       /\ At("write") => BatchEvents \subseteq InFlight
  BY DEF InFlight, BatchEvents
<1>11. /\ reader.events \subseteq Known /\ ghost.committed \subseteq Known /\ InFlight \subseteq Known
       /\ \A j \in Complete : j.lines \subseteq Known
  BY DEF Known
<1> QED
  BY <1>1, <1>3, <1>6, <1>7, <1>8, <1>9, <1>10, <1>11

(* A quiet step makes nothing known.                                       *)
LEMMA QuietSets ==
  ASSUME Shape, Quiet
  PROVE  /\ StatesLeft' \subseteq StatesLeft
         /\ InFlight' \subseteq InFlight /\ Known' \subseteq Known
         /\ BatchEvents' \subseteq BatchEvents
         /\ Ordered(writer.batch) => Ordered(writer'.batch)
         /\ \A j \in Complete' : \E i \in Complete :
              i.lines \subseteq j.lines /\ j.lines \subseteq i.lines \cup Unwritten
         /\ \/ Complete' = Complete
            \/ InFlight' = {inner.queue[i].event : i \in DOMAIN inner.queue}
<1>1. /\ StatesLeft' \subseteq StatesLeft
      /\ \A j \in Complete' : \E i \in Complete :
           i.lines \subseteq j.lines /\ j.lines \subseteq i.lines \cup Unwritten
  BY DEF Quiet, FilesQuiet, StatesLeft
<1>2. BatchEvents' \subseteq BatchEvents /\ (Ordered(writer.batch) => Ordered(writer'.batch))
  <2>1. CASE writer'.batch = writer.batch
    BY <2>1 DEF BatchEvents
  <2>2. CASE writer'.batch = <<>>
    <3>1. DOMAIN writer'.batch = {}
      BY <2>2, EmptySeq
    <3> QED
      BY <3>1 DEF BatchEvents, Ordered
  <2> QED
    BY <2>1, <2>2 DEF Quiet
<1>3. InFlight' \subseteq InFlight
  BY <1>2 DEF Quiet, InFlight, At
<1>4. Unwritten \subseteq InFlight
  BY DEF Unwritten, InFlight
<1>5. UNION {j.lines : j \in Complete'} \subseteq Known
  BY <1>1, <1>4 DEF Known
<1>6. ghost'.committed \subseteq Known /\ reader'.events \subseteq Known
  BY DEF Quiet, Known
<1>7. Known' \subseteq Known
  BY <1>3, <1>5, <1>6 DEF Known
<1>8. \/ Complete' = Complete
      \/ InFlight' = {inner.queue[i].event : i \in DOMAIN inner.queue}
  <2>1. CASE disk' = disk
    BY <2>1 DEF Complete
  <2>2. CASE writer'.pc # "write"
    BY <2>2 DEF InFlight, At, Quiet
  <2> QED
    BY <2>1, <2>2 DEF Quiet
<1> QED
  BY <1>1, <1>2, <1>3, <1>7, <1>8

(* Complete lines stand before what is on its way.                         *)
LEMMA QuietLines ==
  ASSUME Shape, Phase, Numbers, Quiet, up # "down"
  PROVE  \A j \in Complete' : \A e \in j.lines, f \in InFlight' : e.seq < f.seq
<1> SUFFICES ASSUME NEW j \in Complete', NEW e \in j.lines, NEW f \in InFlight'
             PROVE  e.seq < f.seq
  OBVIOUS
<1>1. f \in InFlight
  BY QuietSets
<1>2. PICK i \in Complete : j.lines \subseteq i.lines \cup Unwritten
  BY QuietSets
<1>3. CASE e \in i.lines
  BY <1>1, <1>3 DEF Numbers
<1>4. CASE j \in Complete
  BY <1>1, <1>4 DEF Numbers
<1>5. CASE e \in Unwritten /\ InFlight' = {inner.queue[k].event : k \in DOMAIN inner.queue}
  <2>1. At("write") /\ e \in BatchEvents
    BY <1>5 DEF Unwritten
  <2>2. PICK n \in DOMAIN writer.batch : e = writer.batch[n].event
    BY <2>1 DEF BatchEvents
  <2>3. PICK k \in DOMAIN inner.queue : f = inner.queue[k].event
    BY <1>5
  <2> QED
    BY <2>1, <2>2, <2>3 DEF Numbers
<1> QED
  BY <1>2, <1>3, <1>4, <1>5, QuietSets

(* Numbers: steps that give none out.                                      *)
LEMMA NumbersQuiet ==
  ASSUME Shape, Phase, Numbers, Quiet
  PROVE  Numbers'
<1>1. /\ StatesLeft' \subseteq StatesLeft
      /\ InFlight' \subseteq InFlight /\ Known' \subseteq Known
      /\ BatchEvents' \subseteq BatchEvents /\ Ordered(writer'.batch)
  BY QuietSets DEF Numbers
<1>2. reader' = reader /\ inner'.queue = inner.queue /\ inner'.producer = inner.producer
  BY DEF Quiet
<1>3. \A e, f \in Known' : e.seq = f.seq => e = f
  BY <1>1 DEF Numbers
<1>4. Ordered(inner'.queue)
  BY <1>2 DEF Numbers
<1>5. At("write")' => \A i \in DOMAIN writer'.batch, k \in DOMAIN inner'.queue :
                        writer'.batch[i].event.seq < inner'.queue[k].event.seq
  BY <1>2 DEF Numbers, Quiet, At
<1>6. HeadBehindQueue'
  BY <1>1, <1>2 DEF Numbers, HeadBehindQueue
<1>7. ASSUME up' # "down"
      PROVE  /\ \A e \in Known' \cup BatchEvents' : e.seq <= inner'.producer
             /\ \A n \in reader'.state.gaps \cup inner'.pending : n <= inner'.producer
             /\ reader'.state.next <= inner'.producer
             /\ \A e \in ghost'.committed \cup reader'.events : e.seq <= reader'.state.next
             /\ \A j \in Complete' : \A e \in j.lines, f \in InFlight' : e.seq < f.seq
             /\ \A s \in StatesLeft' : s.next <= reader'.state.next
  <2>1. up # "down"
    BY <1>7 DEF Quiet
  <2>2. \A n \in inner'.pending : n <= inner'.producer
    <3> SUFFICES ASSUME NEW n \in inner'.pending PROVE n <= inner.producer
      BY <1>2
    <3>1. CASE n \in inner.pending
      BY <3>1, <2>1 DEF Numbers
    <3>2. CASE n \in Seqs(BatchEvents)
      BY <3>2, <2>1 DEF Numbers, Seqs
    <3> QED
      BY <3>1, <3>2 DEF Quiet
  <2>3. \A e \in ghost'.committed \cup reader'.events : e.seq <= reader'.state.next
    BY <1>2, <2>1 DEF Numbers, Quiet
  <2> QED
    BY <1>1, <1>2, <2>1, <2>2, <2>3, QuietLines DEF Numbers
<1>8. \A s \in StatesLeft' \cup {reader'.state} : s.earliest <= s.next
  BY <1>1, <1>2 DEF Numbers
<1> QED
  BY <1>1, <1>3, <1>4, <1>5, <1>6, <1>7, <1>8 DEF Numbers

(* A queued event is known from then on.                                   *)
LEMMA QueuedKnown ==
  ASSUME Shape, UNCHANGED <<disk, reader, writer, up, ghost>>,
         NEW event \in Events, NEW ack \in BOOLEAN,
         ack => event.kind \in {"requested", "service"}, Queues(event, ack)
  PROVE  /\ InFlight' = InFlight \cup {event} /\ Known' = Known \cup {event}
         /\ Complete' = Complete /\ StatesLeft' = StatesLeft
         /\ BatchEvents' = BatchEvents /\ Asked' = Asked
<1>1. /\ \A i \in DOMAIN inner.queue : inner'.queue[i] = inner.queue[i]
      /\ inner'.queue[Len(inner.queue) + 1] = [event |-> event, ack |-> ack]
      /\ DOMAIN inner'.queue = DOMAIN inner.queue \cup {Len(inner.queue) + 1}
      /\ DOMAIN inner.queue = 1 .. Len(inner.queue) /\ Len(inner.queue) \in Nat
  BY QueuesShape, ShapeParts, MessageEvents
<1> DEFINE l == Len(inner.queue) + 1
<1>2. inner'.queue[l].event = event /\ l \notin DOMAIN inner.queue
  BY <1>1
<1>3. {inner'.queue[i].event : i \in DOMAIN inner'.queue}
        = {inner.queue[i].event : i \in DOMAIN inner.queue} \cup {event}
  <2> HIDE DEF l
  <2> QED BY <1>1, <1>2 DEF l
<1>4. InFlight' = InFlight \cup {event}
  BY <1>3 DEF InFlight, BatchEvents, At
<1>5. /\ Complete' = Complete /\ StatesLeft' = StatesLeft
      /\ BatchEvents' = BatchEvents /\ Asked' = Asked
  BY DEF Complete, StatesLeft, BatchEvents, Asked, At
<1>6. Known' = Known \cup {event}
  BY <1>4, <1>5 DEF Known
<1> QED
  BY <1>4, <1>5, <1>6

(* A new event has a number above all others.                              *)
LEMMA NumbersQueued ==
  ASSUME Shape, Phase, Numbers, Produced, NEW event \in Events, NEW ack \in BOOLEAN,
         Queued_(event, ack)
  PROVE  Numbers'
<1>1. /\ UNCHANGED <<disk, reader, writer, up, ghost>> /\ up = "running"
      /\ event.seq = inner.producer + 1
  BY DEF Produced, Running, Queued_, Queues
<1>2. /\ inner'.producer = inner.producer + 1 /\ inner'.pending = inner.pending
      /\ \A i \in DOMAIN inner.queue : inner'.queue[i] = inner.queue[i]
      /\ inner'.queue[Len(inner.queue) + 1] = [event |-> event, ack |-> ack]
      /\ DOMAIN inner'.queue = DOMAIN inner.queue \cup {Len(inner.queue) + 1}
      /\ DOMAIN inner.queue = 1 .. Len(inner.queue) /\ Len(inner.queue) \in Nat
  BY QueuesShape, ShapeParts, MessageEvents DEF Queued_
<1> DEFINE l == Len(inner.queue) + 1
<1>3. inner.producer \in Nat /\ inner'.queue[l].event = event /\ l \notin DOMAIN inner.queue
  BY <1>2, ShapeParts
<1>4. InFlight' = InFlight \cup {event} /\ Known' = Known \cup {event}
  BY <1>1, QueuedKnown DEF Queued_
<1>5. Complete' = Complete /\ StatesLeft' = StatesLeft /\ BatchEvents' = BatchEvents
  BY <1>1 DEF Complete, StatesLeft, BatchEvents
<1>6. Known' = Known \cup {event}
  BY <1>4
<1>7. \A e \in Known \cup BatchEvents : e.seq \in Nat /\ e.seq <= inner.producer
  BY <1>1, KnownParts DEF Numbers
<1>8. \A e, f \in Known' : e.seq = f.seq => e = f
  BY <1>1, <1>3, <1>6, <1>7 DEF Numbers
<1>9. Ordered(inner'.queue)
  <2> SUFFICES ASSUME NEW i \in DOMAIN inner'.queue, NEW k \in DOMAIN inner'.queue, i < k
               PROVE  inner'.queue[i].event.seq < inner'.queue[k].event.seq
    BY DEF Ordered
  <2>1. i \in DOMAIN inner.queue
    BY <1>2
  <2>2. inner.queue[i].event.seq \in Nat /\ inner.queue[i].event.seq <= inner.producer
    BY <1>7, <2>1, KnownParts
  <2>3. CASE k = l
    BY <1>1, <1>2, <1>3, <2>1, <2>2, <2>3
  <2>4. CASE k \in DOMAIN inner.queue
    BY <1>2, <2>1, <2>4 DEF Numbers, Ordered
  <2> QED
    BY <1>2, <2>3, <2>4
<1>10. At("write")' => \A i \in DOMAIN writer'.batch, k \in DOMAIN inner'.queue :
                         writer'.batch[i].event.seq < inner'.queue[k].event.seq
  <2> SUFFICES ASSUME At("write"), NEW i \in DOMAIN writer.batch, NEW k \in DOMAIN inner'.queue
               PROVE  writer.batch[i].event.seq < inner'.queue[k].event.seq
    BY <1>1 DEF At
  <2>1. writer.batch[i].event.seq \in Nat /\ writer.batch[i].event.seq <= inner.producer
    BY <1>7, KnownParts
  <2>2. CASE k = l
    BY <1>1, <1>3, <2>1, <2>2
  <2>3. CASE k \in DOMAIN inner.queue
    BY <1>2, <2>3 DEF Numbers
  <2> QED
    BY <1>2, <2>2, <2>3
<1>11. HeadBehindQueue'
  <2>1. reader.state.next \in Nat /\ reader.state.next <= inner.producer
    BY <1>1, KnownParts DEF Numbers
  <2>2. event.seq > reader.state.next
    BY <1>1, <1>3, <2>1
  <2> QED
    BY <1>1, <1>4, <2>2 DEF Numbers, HeadBehindQueue
<1>12. up' # "down" =>
         /\ \A e \in Known' \cup BatchEvents' : e.seq <= inner'.producer
         /\ \A n \in reader'.state.gaps \cup inner'.pending : n <= inner'.producer
         /\ reader'.state.next <= inner'.producer
  <2>1. \A n \in reader.state.gaps \cup inner.pending : n \in Nat
    BY ShapeParts DEF Shape, Readers, States, FiniteSets_
  <2>2. reader.state.next \in Nat
    BY KnownParts
  <2> QED
    BY <1>1, <1>2, <1>3, <1>5, <1>6, <1>7, <2>1, <2>2 DEF Numbers
<1>13. up' # "down" =>
         /\ \A e \in ghost'.committed \cup reader'.events : e.seq <= reader'.state.next
         /\ \A j \in Complete' : \A e \in j.lines, f \in InFlight' : e.seq < f.seq
         /\ \A s \in StatesLeft' : s.next <= reader'.state.next
  <2>1. \A j \in Complete : \A e \in j.lines : e.seq \in Nat /\ e.seq <= inner.producer
    BY <1>7, KnownParts
  <2>2. \A j \in Complete : \A e \in j.lines : e.seq < event.seq
    BY <1>1, <1>3, <2>1
  <2> QED
    BY <1>1, <1>4, <1>5, <2>2 DEF Numbers
<1>14. Ordered(writer'.batch) /\ \A s \in StatesLeft' \cup {reader'.state} : s.earliest <= s.next
  BY <1>1, <1>5 DEF Numbers
<1> QED
  BY <1>8, <1>9, <1>10, <1>11, <1>12, <1>13, <1>14 DEF Numbers

(* Nothing is made known when an event is dropped.                         *)
LEMMA SameKnown ==
  ASSUME UNCHANGED <<disk, reader, writer, up, ghost>>, inner'.queue = inner.queue
  PROVE  /\ InFlight' = InFlight /\ Known' = Known /\ Complete' = Complete
         /\ StatesLeft' = StatesLeft /\ BatchEvents' = BatchEvents /\ Asked' = Asked
BY DEF InFlight, Known, Complete, StatesLeft, BatchEvents, Asked, At

LEMMA NumbersDropped ==
  ASSUME Shape, Phase, Numbers, Produced, Drops \/ inner' = inner
  PROVE  Numbers'
<1>1. UNCHANGED <<disk, reader, writer, up, ghost>>
  BY DEF Produced
<1>2. /\ inner'.queue = inner.queue
      /\ \/ inner'.producer = inner.producer + 1
            /\ inner'.pending = inner.pending \cup {inner.producer + 1}
         \/ inner' = inner
  BY DropsShape
<1>3. /\ InFlight' = InFlight /\ Known' = Known /\ Complete' = Complete
      /\ StatesLeft' = StatesLeft /\ BatchEvents' = BatchEvents
  BY <1>1, <1>2, SameKnown
<1>4. /\ inner.producer \in Nat /\ reader.state.next \in Nat
      /\ \A e \in Known \cup BatchEvents : e.seq \in Nat
      /\ \A n \in reader.state.gaps \cup inner.pending : n \in Nat
  BY ShapeParts, KnownParts DEF Shape, Readers, States, FiniteSets_
<1>5. up' # "down" =>
         /\ \A e \in Known' \cup BatchEvents' : e.seq <= inner'.producer
         /\ \A n \in reader'.state.gaps \cup inner'.pending : n <= inner'.producer
         /\ reader'.state.next <= inner'.producer
  BY <1>1, <1>2, <1>3, <1>4 DEF Numbers
<1>6. HeadBehindQueue' /\ (At("write")' <=> At("write"))
  BY <1>1, <1>3 DEF Numbers, HeadBehindQueue, At
<1> QED
  BY <1>1, <1>2, <1>3, <1>5, <1>6 DEF Numbers

LEMMA NumbersProduced ==
  ASSUME Shape, Phase, Numbers, Produced
  PROVE  Numbers'
BY NumbersQueued, NumbersDropped DEF Produced

LEMMA NumbersReceive ==
  ASSUME Shape, Phase, Numbers, Receive
  PROVE  Numbers' /\ Known' = Known /\ InFlight' = InFlight
<1>1. /\ UNCHANGED <<disk, reader, up, works, world, ghost>>
      /\ inner'.producer = inner.producer /\ inner'.pending = inner.pending
      /\ writer.pc = "idle" /\ writer'.pc = "write" /\ writer'.cause = "append"
      /\ Shape'
  BY ReceiveEffect
<1>2. PICK n \in 1 .. Len(inner.queue) :
        /\ DOMAIN writer'.batch = 1 .. n
        /\ \A i \in 1 .. n : writer'.batch[i] = inner.queue[i]
        /\ DOMAIN inner'.queue = 1 .. (Len(inner.queue) - n)
        /\ \A i \in 1 .. (Len(inner.queue) - n) : inner'.queue[i] = inner.queue[n + i]
  BY ReceiveEffect
<1>3. DOMAIN inner.queue = 1 .. Len(inner.queue) /\ Len(inner.queue) \in Nat /\ n \in Nat
  BY ShapeParts, MessageEvents
<1>4. /\ InFlight = {inner.queue[i].event : i \in DOMAIN inner.queue}
      /\ InFlight' = {inner'.queue[i].event : i \in DOMAIN inner'.queue} \cup BatchEvents'
  BY <1>1 DEF InFlight, At
<1>5. InFlight' \subseteq InFlight /\ BatchEvents' \subseteq InFlight
  <2>1. BatchEvents' \subseteq InFlight
    BY <1>2, <1>3, <1>4 DEF BatchEvents
  <2>2. \A i \in DOMAIN inner'.queue : n + i \in DOMAIN inner.queue
    BY <1>2, <1>3
  <2>3. {inner'.queue[i].event : i \in DOMAIN inner'.queue} \subseteq InFlight
    BY <1>2, <1>4, <2>2
  <2> QED
    BY <1>4, <2>1, <2>3
<1>6. InFlight \subseteq InFlight'
  <2> SUFFICES ASSUME NEW i \in DOMAIN inner.queue PROVE inner.queue[i].event \in InFlight'
    BY <1>4
  <2>1. CASE i <= n
    <3>1. i \in 1 .. n
      BY <1>3, <2>1
    <3> QED
      BY <1>2, <1>4, <3>1 DEF BatchEvents
  <2>2. CASE ~(i <= n)
    <3>1. i - n \in 1 .. (Len(inner.queue) - n) /\ n + (i - n) = i
      BY <1>3, <2>2
    <3>2. inner'.queue[i - n] = inner.queue[i] /\ i - n \in DOMAIN inner'.queue
      BY <1>2, <3>1
    <3> QED
      BY <1>4, <3>2
  <2> QED
    BY <2>1, <2>2
<1>7. InFlight' = InFlight
  BY <1>5, <1>6
<1>8. Complete' = Complete /\ StatesLeft' = StatesLeft
  BY <1>1 DEF Complete, StatesLeft
<1>9. Known' = Known
  BY <1>1, <1>7, <1>8 DEF Known
<1>10. Ordered(inner'.queue)
  <2> SUFFICES ASSUME NEW i \in DOMAIN inner'.queue, NEW k \in DOMAIN inner'.queue, i < k
               PROVE  inner'.queue[i].event.seq < inner'.queue[k].event.seq
    BY DEF Ordered
  <2>1. n + i \in DOMAIN inner.queue /\ n + k \in DOMAIN inner.queue /\ n + i < n + k
    BY <1>2, <1>3
  <2>2. inner.queue[n + i].event.seq < inner.queue[n + k].event.seq
    BY <2>1 DEF Numbers, Ordered
  <2> QED
    BY <1>2, <2>2
<1>11. Ordered(writer'.batch)
  <2> SUFFICES ASSUME NEW i \in DOMAIN writer'.batch, NEW k \in DOMAIN writer'.batch, i < k
               PROVE  writer'.batch[i].event.seq < writer'.batch[k].event.seq
    BY DEF Ordered
  <2>1. i \in DOMAIN inner.queue /\ k \in DOMAIN inner.queue
    BY <1>2, <1>3
  <2> QED
    BY <1>2, <2>1 DEF Numbers, Ordered
<1>12. \A i \in DOMAIN writer'.batch, k \in DOMAIN inner'.queue :
         writer'.batch[i].event.seq < inner'.queue[k].event.seq
  <2> SUFFICES ASSUME NEW i \in DOMAIN writer'.batch, NEW k \in DOMAIN inner'.queue
               PROVE  writer'.batch[i].event.seq < inner'.queue[k].event.seq
    OBVIOUS
  <2>1. i \in DOMAIN inner.queue /\ n + k \in DOMAIN inner.queue /\ i < n + k
    BY <1>2, <1>3
  <2>2. inner.queue[i].event.seq < inner.queue[n + k].event.seq
    BY <2>1 DEF Numbers, Ordered
  <2> QED
    BY <1>2, <2>2
<1>13. HeadBehindQueue'
  BY <1>1, <1>7 DEF Numbers, HeadBehindQueue
<1>14. BatchEvents' \subseteq Known
  BY <1>5, KnownParts
<1> QED
  BY <1>1, <1>7, <1>8, <1>9, <1>10, <1>11, <1>12, <1>13, <1>14 DEF Numbers

(* What the lines of an append make known was on its way.                  *)
LEMMA AppendWriteKnown ==
  ASSUME Shape, Phase, AppendWrite
  PROVE  /\ Known' \subseteq Known /\ InFlight' \subseteq InFlight
         /\ BatchEvents' = BatchEvents /\ BatchEvents \subseteq InFlight
         /\ Complete' \subseteq Complete \cup {disk'.journal}
         /\ disk.journal.lines \subseteq disk'.journal.lines
         /\ disk'.journal.lines \subseteq disk.journal.lines \cup BatchEvents
         /\ StatesLeft' = StatesLeft
         /\ reader'.events \subseteq reader.events \cup BatchEvents
         /\ InFlight' = {inner.queue[i].event : i \in DOMAIN inner.queue}
<1>1. /\ UNCHANGED <<inner, up, works, world>>
      /\ writer.pc = "write" /\ writer'.pc = "settle" /\ writer'.batch = writer.batch
      /\ reader' = track_tail(Appended)
      /\ IF disk.journal.torn THEN disk' = disk
         ELSE /\ disk'.journal.lines = disk.journal.lines \cup BatchEvents
              /\ disk'.cut = {}
      /\ disk'.old_journals = disk.old_journals
      /\ disk'.old_saved = disk.old_saved /\ disk'.saved = disk.saved
      /\ ghost'.committed = ghost.committed
  BY AppendWriteEffect
<1>2. Appended.events = reader.events \cup BatchEvents /\ Appended \in Readers
  BY AppendedShape
<1>3. reader'.events \subseteq reader.events \cup BatchEvents
  BY <1>1, <1>2, TrackTail
<1>4. /\ Complete' \subseteq Complete \cup {disk'.journal} /\ StatesLeft' = StatesLeft
      /\ disk.journal.lines \subseteq disk'.journal.lines
      /\ disk'.journal.lines \subseteq disk.journal.lines \cup BatchEvents
  BY <1>1 DEF Complete, StatesLeft
<1>5. /\ BatchEvents' = BatchEvents /\ BatchEvents \subseteq InFlight
      /\ InFlight' = {inner.queue[i].event : i \in DOMAIN inner.queue}
      /\ InFlight' \subseteq InFlight
  BY <1>1 DEF BatchEvents, InFlight, At
<1>6. Known' \subseteq Known
  <2>1. disk.journal.lines \subseteq Known /\ \A j \in Complete : j.lines \subseteq Known
    BY DEF Known, Complete
  <2>2. BatchEvents \subseteq Known /\ InFlight' \subseteq Known
    BY <1>5 DEF Known
  <2>3. \A j \in Complete' : j.lines \subseteq Known
    BY <1>4, <2>1, <2>2
  <2>4. ghost'.committed \subseteq Known /\ reader'.events \subseteq Known
    BY <1>1, <1>3, <2>2 DEF Known
  <2> QED
    BY <2>2, <2>3, <2>4 DEF Known
<1> QED
  BY <1>3, <1>4, <1>5, <1>6

LEMMA NumbersAppendWrite ==
  ASSUME Shape, Phase, Numbers, AppendWrite
  PROVE  Numbers'
<1>1. /\ UNCHANGED <<inner, up, works, world>> /\ up # "down"
      /\ writer.pc = "write" /\ writer'.pc = "settle" /\ writer'.batch = writer.batch
      /\ reader' = track_tail(Appended) /\ ghost'.committed = ghost.committed
  BY AppendWriteEffect
<1>2. /\ Known' \subseteq Known /\ InFlight' \subseteq InFlight
      /\ BatchEvents' = BatchEvents /\ BatchEvents \subseteq InFlight
      /\ Complete' \subseteq Complete \cup {disk'.journal} /\ StatesLeft' = StatesLeft
      /\ disk'.journal.lines \subseteq disk.journal.lines \cup BatchEvents
      /\ reader'.events \subseteq reader.events \cup BatchEvents
      /\ InFlight' = {inner.queue[i].event : i \in DOMAIN inner.queue}
  BY AppendWriteKnown
<1>3. /\ Appended \in Readers /\ Appended.events = reader.events \cup BatchEvents
      /\ Appended.state.next \in {reader.state.next} \cup Seqs(BatchEvents)
      /\ reader.state.next <= Appended.state.next
      /\ \A e \in BatchEvents : e.seq <= Appended.state.next
      /\ Appended.state.earliest = reader.state.earliest
      /\ Appended.state.gaps = reader.state.gaps
  BY AppendedShape
<1>4. /\ reader'.state.next = Appended.state.next
      /\ reader'.state.earliest = reader.state.earliest
      /\ reader'.state.gaps = reader.state.gaps \cup Seqs(Trimmed(Appended.events))
  BY <1>1, <1>3, TrackTail
<1>5. /\ Appended.state.next \in Nat /\ reader.state.next \in Nat /\ reader.state.earliest \in Nat
      /\ inner.producer \in Nat
      /\ \A e \in Known \cup BatchEvents : e.seq \in Nat
      /\ \A s \in StatesLeft : s.next \in Nat /\ s.earliest \in Nat
  BY <1>3, ReaderParts, KnownParts, ShapeParts
<1>6. \A e \in Known \cup BatchEvents : e.seq <= inner.producer
  BY <1>1 DEF Numbers
<1>7. Appended.state.next <= inner.producer
  BY <1>1, <1>3, <1>6 DEF Numbers, Seqs
<1>8. HeadBehindQueue'
  <2> SUFFICES ASSUME NEW k \in DOMAIN inner.queue
               PROVE  inner.queue[k].event.seq > Appended.state.next
    BY <1>2, <1>4 DEF HeadBehindQueue
  <2>1. inner.queue[k].event.seq \in Nat /\ inner.queue[k].event \in InFlight
    BY <1>5, KnownParts
  <2>2. inner.queue[k].event.seq > reader.state.next
    BY <2>1 DEF Numbers, HeadBehindQueue
  <2>3. \A i \in DOMAIN writer.batch : writer.batch[i].event.seq < inner.queue[k].event.seq
    BY <1>1 DEF Numbers, At
  <2>4. \A n \in Seqs(BatchEvents) : n < inner.queue[k].event.seq
    BY <2>3 DEF Seqs, BatchEvents
  <2>5. \A n \in Seqs(BatchEvents) : n \in Nat
    BY <1>5 DEF Seqs
  <2> QED
    BY <1>3, <1>5, <2>1, <2>2, <2>4, <2>5
<1>9. \A n \in reader'.state.gaps \cup inner'.pending : n <= inner'.producer
  <2>1. Trimmed(Appended.events) \subseteq Known \cup BatchEvents
    BY <1>3, KnownParts DEF Trimmed, Tail_
  <2>2. \A n \in Seqs(Trimmed(Appended.events)) : n <= inner.producer
    BY <1>6, <2>1 DEF Seqs
  <2> QED
    BY <1>1, <1>4, <2>2 DEF Numbers
<1>10. \A e \in ghost'.committed \cup reader'.events : e.seq <= reader'.state.next
  <2>1. \A e \in ghost.committed \cup reader.events \cup BatchEvents : e.seq <= Appended.state.next
    <3>1. \A e \in ghost.committed \cup reader.events : e.seq \in Nat /\ e.seq <= reader.state.next
      BY <1>1, <1>5, KnownParts DEF Numbers
    <3> QED
      BY <1>3, <1>5, <3>1
  <2> QED
    BY <1>1, <1>2, <1>3, <1>4, <2>1
<1>11. \A j \in Complete' : \A e \in j.lines, f \in InFlight' : e.seq < f.seq
  <2>1. \A j \in Complete : \A e \in j.lines, f \in InFlight' : e.seq < f.seq
    BY <1>1, <1>2 DEF Numbers
  <2>2. disk.journal \in Complete
    BY DEF Complete
  <2>3. \A e \in BatchEvents, f \in InFlight' : e.seq < f.seq
    BY <1>1, <1>2 DEF Numbers, BatchEvents, At
  <2> QED
    BY <1>2, <2>1, <2>2, <2>3
<1>12. \A s \in StatesLeft' : s.next <= reader'.state.next
  BY <1>1, <1>2, <1>3, <1>4, <1>5 DEF Numbers
<1>13. \A s \in StatesLeft' \cup {reader'.state} : s.earliest <= s.next
  BY <1>2, <1>3, <1>4, <1>5 DEF Numbers
<1>14. \A e, f \in Known' : e.seq = f.seq => e = f
  BY <1>2 DEF Numbers
<1>15. \A e \in Known' \cup BatchEvents' : e.seq <= inner'.producer
  BY <1>1, <1>2, <1>6
<1>16. Ordered(inner'.queue) /\ Ordered(writer'.batch) /\ ~At("write")'
       /\ reader'.state.next <= inner'.producer
  BY <1>1, <1>4, <1>7 DEF Numbers, At
<1> QED
  BY <1>8, <1>9, <1>10, <1>11, <1>12, <1>13, <1>14, <1>15, <1>16 DEF Numbers

(* What retention takes out of the reader, after an append or later.       *)
Retains ==
  /\ up \in {"starting", "running"}
  /\ UNCHANGED <<disk, up, works, world>>
  /\ writer.pc \in {"settle", "maintain"} /\ writer'.pc \in {"compact", "persist"}
  /\ writer'.batch = writer.batch
  /\ inner'.producer = inner.producer /\ inner'.queue = inner.queue
  /\ ghost'.acked = ghost.acked /\ ghost'.committed = ghost.committed
  /\ ghost'.booted = ghost.booted /\ ghost'.taken = ghost.taken
  /\ ghost'.behind = ghost.behind
  /\ ghost'.removed = ghost.removed \cup Pruned(reader.events)
  /\ \/ reader' = prune(Described) /\ inner'.pending = {} /\ writer'.cause = writer.cause
     \/ /\ reader' = prune(reader) /\ inner'.pending = inner.pending
        /\ writer.cause # "append" /\ writer'.cause = "maintain"

LEMMA RetainsSteps ==
  ASSUME Shape, Phase, Numbers, AppendSettles \/ Maintain
  PROVE  Retains /\ Shape' /\ Phase'
<1>1. \A e \in reader.events : e.seq <= reader.state.next
  <2>1. up # "down"
    BY DEF AppendSettles, Maintain, At, Phase
  <2> QED
    BY <2>1 DEF Numbers
<1>2. CASE AppendSettles
  <2>1. /\ Shape' /\ Phase' /\ UNCHANGED <<disk, up, works, world>>
        /\ reader' = prune(Described)
        /\ writer.pc = "settle" /\ writer'.pc \in {"compact", "persist"}
        /\ writer'.cause = writer.cause /\ writer'.batch = writer.batch
        /\ inner'.producer = inner.producer /\ inner'.pending = {}
        /\ inner'.queue = inner.queue
        /\ ghost'.acked = ghost.acked /\ ghost'.committed = ghost.committed
        /\ ghost'.booted = ghost.booted /\ ghost'.taken = ghost.taken
        /\ ghost'.behind = ghost.behind
        /\ ghost'.removed = ghost.removed \cup Pruned(reader.events)
    BY <1>1, <1>2, AppendSettlesEffect
  <2>2. up \in {"starting", "running"}
    BY <2>1 DEF Phase
  <2> QED
    BY <2>1, <2>2 DEF Retains
<1>3. CASE Maintain
  <2>1. /\ Shape' /\ Phase' /\ UNCHANGED <<disk, inner, up, works, world>>
        /\ reader' = prune(reader)
        /\ writer.pc = "maintain" /\ writer'.pc = "compact" /\ writer'.cause = "maintain"
        /\ ghost'.acked = ghost.acked /\ ghost'.committed = ghost.committed
        /\ ghost'.booted = ghost.booted /\ ghost'.taken = ghost.taken
        /\ ghost'.behind = ghost.behind
        /\ ghost'.removed = ghost.removed \cup Pruned(reader.events)
    BY <1>1, <1>3, MaintainEffect
  <2>2. writer'.batch = writer.batch
    BY <1>3 DEF Maintain
  <2>3. up = "running" /\ writer.cause # "append"
    BY <2>1 DEF Phase
  <2> QED
    BY <2>1, <2>2, <2>3 DEF Retains
<1> QED
  BY <1>2, <1>3

(* ... and what it leaves.                                                 *)
LEMMA RetainsEffect ==
  ASSUME Shape, Phase, Numbers, Retains
  PROVE  /\ reader'.events = reader.events \ Pruned(reader.events)
         /\ reader'.state.next = reader.state.next
         /\ reader'.state.gaps \cup inner'.pending
              = reader.state.gaps \cup inner.pending \cup Seqs(Pruned(reader.events))
         /\ reader'.state.earliest <= reader.state.next
         /\ \A e \in reader'.events : reader'.state.earliest < e.seq
         /\ \A w \in Works : reader'.state.windows[w] \in {0, reader.state.windows[w]}
         /\ \A e \in reader.events :
              e.seq <= world.expired \/ \E f \in reader'.events : e.seq <= f.seq
         /\ Cardinality(reader'.events) <= MaxEvents
<1> DEFINE r == IF reader' = prune(reader) /\ inner'.pending = inner.pending
                THEN reader ELSE Described
<1>1. /\ reader \in Readers /\ Described \in Readers /\ world.expired \in Nat
      /\ Described.events = reader.events
      /\ Described.state.next = reader.state.next
      /\ Described.state.windows = reader.state.windows
      /\ Described.state.gaps = reader.state.gaps \cup inner.pending
  BY ShapeParts, DescribedShape DEF Shape
<1>2. /\ r \in Readers /\ reader' = prune(r) /\ r.events = reader.events
      /\ r.state.next = reader.state.next /\ r.state.windows = reader.state.windows
      /\ r.state.gaps \cup inner'.pending = reader.state.gaps \cup inner.pending
  <2> HIDE DEF r
  <2>1. CASE r = reader /\ reader' = prune(reader) /\ inner'.pending = inner.pending
    BY <1>1, <2>1
  <2>2. CASE r = Described /\ reader' = prune(Described) /\ inner'.pending = {}
    BY <1>1, <2>2
  <2> QED
    BY <2>1, <2>2 DEF r, Retains
<1> HIDE DEF r
<1>3. up # "down" /\ \A e \in r.events : e.seq <= r.state.next
  BY <1>2 DEF Numbers, Retains
<1>4. \A e, f \in r.events : e.seq = f.seq => e = f
  BY <1>2, KnownParts DEF Numbers
<1>5. /\ prune(r).events = r.events \ Pruned(r.events)
      /\ \A e \in r.events :
              e.seq <= world.expired \/ \E f \in prune(r).events : e.seq <= f.seq
      /\ Cardinality(prune(r).events) <= MaxEvents
  BY <1>1, <1>2, <1>4, PruneEvents
<1>6. /\ prune(r).state.next = r.state.next
      /\ prune(r).state.gaps = r.state.gaps \cup Seqs(Pruned(r.events))
      /\ prune(r).state.earliest <= r.state.next
      /\ \A e \in prune(r).events : prune(r).state.earliest < e.seq
      /\ \A w \in Works : prune(r).state.windows[w] \in {0, r.state.windows[w]}
  BY <1>1, <1>2, <1>3, PruneState
<1>7. reader'.state.gaps \cup inner'.pending
        = reader.state.gaps \cup inner.pending \cup Seqs(Pruned(reader.events))
  BY <1>2, <1>6
<1> QED
  BY <1>2, <1>5, <1>6, <1>7

LEMMA RetainsKnown ==
  ASSUME Shape, Phase, Numbers, Retains
  PROVE  /\ Known' \subseteq Known /\ InFlight' = InFlight /\ BatchEvents' = BatchEvents
         /\ Complete' = Complete /\ StatesLeft' = StatesLeft /\ Asked' = Asked
<1>1. BatchEvents' = BatchEvents /\ InFlight' = InFlight
  BY DEF Retains, InFlight, BatchEvents, At
<1>2. Complete' = Complete /\ StatesLeft' = StatesLeft
  BY DEF Retains, Complete, StatesLeft
<1>3. reader'.events \subseteq reader.events
  BY RetainsEffect
<1>4. Known' \subseteq Known
  BY <1>1, <1>2, <1>3 DEF Retains, Known
<1>5. Asked' = Asked
  BY DEF Retains, Asked, At, BatchEvents
<1> QED
  BY <1>1, <1>2, <1>4, <1>5

LEMMA NumbersRetains ==
  ASSUME Shape, Phase, Numbers, Retains
  PROVE  Numbers'
<1>1. /\ Known' \subseteq Known /\ InFlight' = InFlight /\ BatchEvents' = BatchEvents
      /\ Complete' = Complete /\ StatesLeft' = StatesLeft
  BY RetainsKnown
<1>2. /\ reader'.events \subseteq reader.events
      /\ reader'.state.next = reader.state.next
      /\ reader'.state.gaps \cup inner'.pending
           = reader.state.gaps \cup inner.pending \cup Seqs(Pruned(reader.events))
      /\ reader'.state.earliest <= reader.state.next
  BY RetainsEffect
<1>3. /\ inner'.producer = inner.producer /\ inner'.queue = inner.queue /\ up' = up
      /\ writer'.batch = writer.batch /\ ghost'.committed = ghost.committed /\ up # "down"
      /\ ~At("write")'
  BY DEF Retains, At
<1>4. \A n \in Seqs(Pruned(reader.events)) : n <= inner.producer
  <2>1. Pruned(reader.events) \subseteq Known
    BY KnownParts DEF Pruned
  <2> QED
    BY <1>3, <2>1 DEF Numbers, Seqs
<1>5. \A n \in reader'.state.gaps \cup inner'.pending : n <= inner'.producer
  BY <1>2, <1>3, <1>4 DEF Numbers
<1>6. HeadBehindQueue'
  BY <1>1, <1>2 DEF Numbers, HeadBehindQueue
<1>7. /\ \A e \in Known' \cup BatchEvents' : e.seq <= inner'.producer
      /\ reader'.state.next <= inner'.producer
      /\ \A e \in ghost'.committed \cup reader'.events : e.seq <= reader'.state.next
      /\ \A j \in Complete' : \A e \in j.lines, f \in InFlight' : e.seq < f.seq
      /\ \A s \in StatesLeft' : s.next <= reader'.state.next
  BY <1>1, <1>2, <1>3 DEF Numbers
<1>8. \A s \in StatesLeft' \cup {reader'.state} : s.earliest <= s.next
  BY <1>1, <1>2 DEF Numbers
<1>9. (\A e, f \in Known' : e.seq = f.seq => e = f) /\ Ordered(inner'.queue) /\ Ordered(writer'.batch)
  BY <1>1, <1>3 DEF Numbers
<1> QED
  BY <1>3, <1>5, <1>6, <1>7, <1>8, <1>9 DEF Numbers

(* The startup records are the only events that a start makes known.       *)
LEMMA StartsUpKnown ==
  ASSUME Shape, Phase, StartsUp
  PROVE  /\ Known' \subseteq Known \cup BatchEvents' /\ InFlight' = BatchEvents'
         /\ Complete' = {disk.journal} \cup disk.cut /\ Complete' \subseteq Complete
         /\ StatesLeft' = {reader.state} /\ StatesLeft' \subseteq StatesLeft
         /\ Asked' = Asked
         /\ UNCHANGED <<reader, up, works, world>>
         /\ ghost'.committed = ghost.committed \cup reader.events
         /\ \A e \in BatchEvents' : /\ inner.producer < e.seq /\ e.seq <= inner'.producer
                                    /\ e.kind # "output"
<1>1. /\ UNCHANGED <<reader, up, works, world>> /\ disk.saved = reader.state
      /\ Complete' = {disk.journal} \cup disk.cut /\ StatesLeft' = {reader.state}
      /\ inner'.queue = <<>> /\ writer'.pc = "write" /\ writer'.cause = "startup"
      /\ ghost'.committed = ghost.committed \cup reader.events
      /\ \A i \in DOMAIN writer'.batch :
           /\ inner.producer < writer'.batch[i].event.seq
           /\ writer'.batch[i].event.seq <= inner'.producer
           /\ writer'.batch[i].event.kind # "output"
  BY StartsUpEffect
<1>2. Complete' \subseteq Complete /\ StatesLeft' \subseteq StatesLeft
  BY <1>1 DEF Complete, StatesLeft
<1>3. InFlight' = BatchEvents'
  <2>1. DOMAIN inner'.queue = {}
    BY <1>1, EmptySeq
  <2> QED
    BY <1>1, <2>1 DEF InFlight, At
<1>4. Known' \subseteq Known \cup BatchEvents'
  BY <1>1, <1>2, <1>3 DEF Known
<1>5. Asked' = Asked
  BY <1>1 DEF Asked, StartsUp
<1>6. \A e \in BatchEvents' : /\ inner.producer < e.seq /\ e.seq <= inner'.producer
                              /\ e.kind # "output"
  BY <1>1 DEF BatchEvents
<1> QED
  BY <1>1, <1>2, <1>3, <1>4, <1>5, <1>6

LEMMA NumbersStartsUp ==
  ASSUME Shape, Phase, Numbers, StartsUp
  PROVE  Numbers'
<1>1. /\ Known' \subseteq Known \cup BatchEvents' /\ InFlight' = BatchEvents'
      /\ Complete' \subseteq Complete /\ StatesLeft' \subseteq StatesLeft
      /\ UNCHANGED <<reader, up, works, world>>
      /\ ghost'.committed = ghost.committed \cup reader.events
      /\ \A e \in BatchEvents' : inner.producer < e.seq /\ e.seq <= inner'.producer
  BY StartsUpKnown
<1>2. /\ up = "starting" /\ inner'.queue = <<>> /\ inner'.pending = inner.pending
      /\ inner.producer < inner'.producer /\ Ordered(writer'.batch) /\ Shape'
      /\ \A e, f \in BatchEvents' : e.seq = f.seq => e = f
  BY StartsUpEffect
<1>3. /\ inner.producer \in Nat /\ inner'.producer \in Nat /\ reader.state.next \in Nat
      /\ \A n \in reader.state.gaps \cup inner.pending : n \in Nat
      /\ \A e \in Known : e.seq \in Nat
  BY <1>2, ShapeParts, KnownParts DEF Shape, Inners, Readers, States, FiniteSets_
<1>4. \A e \in BatchEvents' : e.seq \in Nat
  BY <1>2, KnownParts DEF Shape, Inners, Writers, BatchEvents, Messages, Events
<1>5. \A e \in Known : e.seq <= inner.producer
  BY <1>2 DEF Numbers
<1>6. \A e, f \in Known' : e.seq = f.seq => e = f
  <2> SUFFICES ASSUME NEW e \in Known', NEW f \in Known', e.seq = f.seq PROVE e = f
    OBVIOUS
  <2>1. CASE e \in Known /\ f \in Known
    BY <2>1 DEF Numbers
  <2>2. CASE e \in BatchEvents' /\ f \in BatchEvents'
    BY <2>2, <1>2
  <2>3. \A g \in Known, h \in BatchEvents' : g.seq # h.seq
    BY <1>1, <1>3, <1>4, <1>5
  <2> QED
    BY <1>1, <2>1, <2>2, <2>3
<1>7. DOMAIN inner'.queue = {}
  BY <1>2, EmptySeq
<1>8. HeadBehindQueue'
  <2>1. reader.state.next <= inner.producer
    BY <1>2 DEF Numbers
  <2> QED
    BY <1>1, <1>3, <1>4, <2>1 DEF HeadBehindQueue
<1>9. /\ \A e \in Known' \cup BatchEvents' : e.seq <= inner'.producer
      /\ \A n \in reader'.state.gaps \cup inner'.pending : n <= inner'.producer
      /\ reader'.state.next <= inner'.producer
  <2>1. \A e \in Known : e.seq <= inner'.producer
    BY <1>2, <1>3, <1>5
  <2>2. \A n \in reader.state.gaps \cup inner.pending : n <= inner'.producer
    BY <1>2, <1>3 DEF Numbers
  <2>3. reader.state.next <= inner'.producer
    BY <1>2, <1>3 DEF Numbers
  <2> QED
    BY <1>1, <1>2, <2>1, <2>2, <2>3
<1>10. /\ \A e \in ghost'.committed \cup reader'.events : e.seq <= reader'.state.next
       /\ \A s \in StatesLeft' : s.next <= reader'.state.next
       /\ \A s \in StatesLeft' \cup {reader'.state} : s.earliest <= s.next
  BY <1>1, <1>2 DEF Numbers
<1>11. Ordered(inner'.queue)
  BY <1>7 DEF Ordered
<1>12. \A j \in Complete' : \A e \in j.lines, f \in InFlight' : e.seq < f.seq
  <2>1. \A j \in Complete' : \A e \in j.lines : e.seq \in Nat /\ e.seq <= inner.producer
    BY <1>1, <1>3, <1>5, KnownParts
  <2> QED
    BY <1>1, <1>3, <1>4, <2>1
<1> QED
  BY <1>2, <1>6, <1>7, <1>8, <1>9, <1>10, <1>11, <1>12 DEF Numbers

(* Compaction and a new state file make nothing known.                     *)
LEMMA CompactRenameKnown ==
  ASSUME Shape, Phase, CompactRename
  PROVE  /\ Known' \subseteq Known /\ InFlight' = InFlight /\ BatchEvents' = BatchEvents
         /\ StatesLeft' = StatesLeft /\ Asked' = Asked
         /\ \A j \in Complete' : j \in Complete \/ j.lines = reader.events
         /\ UNCHANGED <<inner, reader, up, works, world, ghost>> /\ up # "down"
         /\ ~At("write")' /\ ~At("settle") /\ writer'.batch = writer.batch
<1>1. /\ UNCHANGED <<inner, reader, up, works, world, ghost>>
      /\ writer.pc = "compact" /\ writer'.pc = "compacted"
      /\ writer'.cause = writer.cause /\ writer'.batch = writer.batch
      /\ disk'.journal.lines = reader.events /\ Complete' = {disk'.journal} \cup Complete
      /\ StatesLeft' = StatesLeft /\ up # "down"
  BY CompactRenameEffect
<1>2. BatchEvents' = BatchEvents /\ InFlight' = InFlight /\ Asked' = Asked
  BY <1>1 DEF BatchEvents, InFlight, Asked, At
<1>3. \A j \in Complete' : j \in Complete \/ j.lines = reader.events
  BY <1>1
<1>4. Known' \subseteq Known
  BY <1>1, <1>2, <1>3 DEF Known
<1> QED
  BY <1>1, <1>2, <1>3, <1>4 DEF At

LEMMA PersistRenameKnown ==
  ASSUME Shape, Phase, PersistRename
  PROVE  /\ Known' = Known /\ InFlight' = InFlight /\ BatchEvents' = BatchEvents
         /\ StatesLeft' = StatesLeft \cup {reader.state} /\ Asked' = Asked
         /\ Complete' = Complete
         /\ UNCHANGED <<inner, reader, up, works, world, ghost>> /\ up # "down"
         /\ ~At("write")' /\ ~At("settle") /\ writer'.batch = writer.batch
<1>1. /\ UNCHANGED <<inner, reader, up, works, world, ghost>>
      /\ writer.pc = "persist" /\ writer'.pc = "persisted"
      /\ writer'.cause = writer.cause /\ writer'.batch = writer.batch
      /\ Complete' = Complete /\ StatesLeft' = {reader.state} \cup StatesLeft
      /\ up # "down"
  BY PersistRenameEffect
<1>2. BatchEvents' = BatchEvents /\ InFlight' = InFlight /\ Asked' = Asked
  BY <1>1 DEF BatchEvents, InFlight, Asked, At
<1>3. Complete' = Complete /\ StatesLeft' = StatesLeft \cup {reader.state}
  BY <1>1
<1>4. Known' = Known
  BY <1>1, <1>2, <1>3 DEF Known
<1> QED
  BY <1>1, <1>2, <1>3, <1>4 DEF At

(* Numbers: a step after which only the files may be others.               *)
LEMMA NumbersFiles ==
  ASSUME Shape, Phase, Numbers, Known' \subseteq Known, InFlight' = InFlight,
         BatchEvents' = BatchEvents, UNCHANGED <<inner, reader, up, works, world, ghost>>,
         up # "down", ~At("write")', writer'.batch = writer.batch,
         \A j \in Complete' : j \in Complete \/ j.lines = reader.events,
         StatesLeft' \subseteq StatesLeft \cup {reader.state}
  PROVE  Numbers'
<1>1. \A e, f \in Known' : e.seq = f.seq => e = f
  BY DEF Numbers
<1>2. Ordered(inner'.queue) /\ Ordered(writer'.batch) /\ HeadBehindQueue'
  BY DEF Numbers, HeadBehindQueue
<1>3. \A j \in Complete' : \A e \in j.lines, f \in InFlight' : e.seq < f.seq
  <2>1. \A e \in reader.events, f \in InFlight : e.seq < f.seq
    <3>1. \A e \in reader.events : e.seq \in Nat /\ e.seq <= reader.state.next
      BY KnownParts DEF Numbers
    <3>2. \A f \in InFlight : f.seq \in Nat /\ f.seq > reader.state.next
      BY KnownParts DEF Numbers, HeadBehindQueue
    <3>3. reader.state.next \in Nat
      BY KnownParts
    <3> QED
      BY <3>1, <3>2, <3>3
  <2> QED
    BY <2>1 DEF Numbers
<1>4. \A s \in StatesLeft' : s.next <= reader'.state.next
  BY KnownParts DEF Numbers
<1>5. \A s \in StatesLeft' \cup {reader'.state} : s.earliest <= s.next
  BY DEF Numbers
<1>6. /\ \A e \in Known' \cup BatchEvents' : e.seq <= inner'.producer
      /\ \A n \in reader'.state.gaps \cup inner'.pending : n <= inner'.producer
      /\ reader'.state.next <= inner'.producer
      /\ \A e \in ghost'.committed \cup reader'.events : e.seq <= reader'.state.next
  BY DEF Numbers
<1> QED
  BY <1>1, <1>2, <1>3, <1>4, <1>5, <1>6 DEF Numbers

LEMMA NumbersRenames ==
  ASSUME Shape, Phase, Numbers, CompactRename \/ PersistRename
  PROVE  Numbers'
<1>1. CASE CompactRename
  <2>1. /\ Known' \subseteq Known /\ InFlight' = InFlight /\ BatchEvents' = BatchEvents
        /\ StatesLeft' = StatesLeft
        /\ \A j \in Complete' : j \in Complete \/ j.lines = reader.events
        /\ UNCHANGED <<inner, reader, up, works, world, ghost>> /\ up # "down"
        /\ ~At("write")' /\ writer'.batch = writer.batch
    BY <1>1, CompactRenameKnown
  <2> QED
    BY <2>1, NumbersFiles
<1>2. CASE PersistRename
  <2>1. /\ Known' = Known /\ InFlight' = InFlight /\ BatchEvents' = BatchEvents
        /\ StatesLeft' = StatesLeft \cup {reader.state} /\ Complete' = Complete
        /\ UNCHANGED <<inner, reader, up, works, world, ghost>> /\ up # "down"
        /\ ~At("write")' /\ writer'.batch = writer.batch
    BY <1>2, PersistRenameKnown
  <2>2. Known' \subseteq Known /\ \A j \in Complete' : j \in Complete \/ j.lines = reader.events
    BY <2>1
  <2> QED
    BY <2>1, <2>2, NumbersFiles
<1> QED
  BY <1>1, <1>2

(* A pause of the queue makes nothing known.                               *)
LEMMA TimeoutGapsKnown ==
  ASSUME Shape, Phase, TimeoutGaps
  PROVE  /\ Known' = Known /\ InFlight' = InFlight /\ BatchEvents' = BatchEvents
         /\ Complete' = Complete /\ StatesLeft' = StatesLeft /\ Asked' = Asked
         /\ up = "running" /\ ~At("write") /\ ~At("write")'
<1>1. /\ UNCHANGED <<disk, up, works, world, ghost>>
      /\ writer.pc = "timeout" /\ writer'.pc \in {"persist", "retry"}
      /\ writer'.cause \in {writer.cause, "gaps"} /\ writer'.batch = writer.batch
      /\ inner'.queue = inner.queue /\ reader'.events = reader.events
  BY TimeoutGapsEffect
<1>2. writer.cause # "append" /\ up = "running"
  BY <1>1 DEF Phase
<1>3. BatchEvents' = BatchEvents /\ InFlight' = InFlight /\ Asked' = Asked
  BY <1>1, <1>2 DEF BatchEvents, InFlight, Asked, At
<1>4. Complete' = Complete /\ StatesLeft' = StatesLeft
  BY <1>1 DEF Complete, StatesLeft
<1>5. Known' = Known
  BY <1>1, <1>3, <1>4 DEF Known
<1> QED
  BY <1>1, <1>2, <1>3, <1>4, <1>5 DEF At

LEMMA NumbersTimeoutGaps ==
  ASSUME Shape, Phase, Numbers, TimeoutGaps
  PROVE  Numbers'
<1>1. /\ Known' = Known /\ InFlight' = InFlight /\ BatchEvents' = BatchEvents
      /\ Complete' = Complete /\ StatesLeft' = StatesLeft
      /\ up = "running" /\ ~At("write") /\ ~At("write")'
  BY TimeoutGapsKnown
<1>2. /\ UNCHANGED <<disk, up, works, world, ghost>> /\ writer'.batch = writer.batch
      /\ inner'.producer = inner.producer /\ inner'.pending = {}
      /\ inner'.queue = inner.queue
      /\ reader'.events = reader.events
      /\ reader'.state.earliest = reader.state.earliest
      /\ reader'.state.gaps = reader.state.gaps \cup inner.pending
      /\ reader.state.next <= reader'.state.next
      /\ \/ reader'.state.next = reader.state.next
         \/ (inner.queue = <<>> /\ reader'.state.next \in reader'.state.gaps)
      /\ Shape'
  BY TimeoutGapsEffect
<1>3. /\ reader.state.next \in Nat /\ reader'.state.next \in Nat
      /\ reader.state.earliest \in Nat
      /\ \A e \in Known : e.seq \in Nat
      /\ \A s \in StatesLeft : s.next \in Nat
      /\ \A j \in Complete : j.lines \subseteq Known
      /\ ghost.committed \cup reader.events \subseteq Known
  BY <1>2, KnownParts DEF Shape, Readers, States
<1>4. \A n \in reader'.state.gaps \cup inner'.pending : n <= inner'.producer
  BY <1>1, <1>2 DEF Numbers
<1>5. reader'.state.next <= inner'.producer
  BY <1>1, <1>2, <1>4 DEF Numbers
<1>6. HeadBehindQueue'
  <2>1. CASE reader'.state.next = reader.state.next
    BY <1>1, <2>1 DEF Numbers, HeadBehindQueue
  <2>2. CASE inner.queue = <<>>
    <3>1. DOMAIN inner.queue = {}
      BY <2>2, EmptySeq
    <3>2. InFlight = {}
      BY <1>1, <3>1 DEF InFlight
    <3> QED
      BY <1>1, <3>2 DEF HeadBehindQueue
  <2> QED
    BY <1>2, <2>1, <2>2
<1>7. \A e \in ghost'.committed \cup reader'.events : e.seq <= reader'.state.next
  <2>1. \A e \in ghost.committed \cup reader.events : e.seq \in Nat /\ e.seq <= reader.state.next
    BY <1>1, <1>3 DEF Numbers
  <2> QED
    BY <1>2, <1>3, <2>1
<1>8. \A j \in Complete' : \A e \in j.lines, f \in InFlight' : e.seq < f.seq
  BY <1>1 DEF Numbers
<1>9. \A s \in StatesLeft' : s.next <= reader'.state.next
  BY <1>1, <1>2, <1>3 DEF Numbers
<1>10. \A s \in StatesLeft' \cup {reader'.state} : s.earliest <= s.next
  BY <1>1, <1>2, <1>3 DEF Numbers
<1>11. \A e \in Known' \cup BatchEvents' : e.seq <= inner'.producer
  BY <1>1, <1>2 DEF Numbers
<1> QED
  BY <1>1, <1>2, <1>4, <1>5, <1>6, <1>7, <1>8, <1>9, <1>10, <1>11 DEF Numbers

(* A process that ends makes nothing known.                                *)
LEMMA EndKnown ==
  ASSUME Shape, Phase, Crash \/ Exit
  PROVE  /\ Known' \subseteq Known /\ InFlight' = {} /\ StatesLeft' = StatesLeft
         /\ Asked' = {}
         /\ \A j \in Complete' : \E i \in Complete : i.lines \subseteq j.lines
         /\ up' = "down" /\ reader'.events = {} /\ reader'.state = NewState
         /\ ghost'.acked = ghost.acked /\ ghost'.committed = ghost.committed
         /\ ghost'.booted = ghost.booted /\ ghost'.taken = ghost.taken
         /\ ghost'.behind = ghost.behind /\ ghost'.removed = ghost.removed
         /\ world'.expired = world.expired
         /\ \A w \in Works : works'[w].output = works[w].output
         /\ ~At("write")' /\ ~At("settle")' /\ inner'.queue = <<>> /\ writer'.batch = <<>>
<1>1. /\ FilesQuiet /\ StatesLeft' = StatesLeft
      /\ up' = "down" /\ world'.expired = world.expired
      /\ \A w \in Works : works'[w].output = works[w].output
      /\ ghost'.acked = ghost.acked /\ ghost'.committed = ghost.committed
      /\ ghost'.booted = ghost.booted /\ ghost'.taken = ghost.taken
      /\ ghost'.behind = ghost.behind /\ ghost'.removed = ghost.removed
      /\ reader'.events = {} /\ reader'.state = NewState
      /\ InFlight' = {} /\ Asked' = {}
      /\ writer'.pc = "none" /\ inner'.queue = <<>> /\ writer'.batch = <<>>
  BY EndEffect
<1>2. \A j \in Complete' : \E i \in Complete :
        i.lines \subseteq j.lines /\ j.lines \subseteq i.lines \cup Unwritten
  BY <1>1 DEF FilesQuiet
<1>3. Unwritten \subseteq Known
  BY DEF Unwritten, InFlight, Known
<1>4. \A j \in Complete' : j.lines \subseteq Known
  BY <1>2, <1>3 DEF Known
<1>5. ghost'.committed \subseteq Known
  BY <1>1 DEF Known
<1>6. Known' \subseteq Known
  BY <1>1, <1>4, <1>5 DEF Known
<1> QED
  BY <1>1, <1>2, <1>6 DEF At

LEMMA NumbersEnd ==
  ASSUME Shape, Phase, Numbers, Crash \/ Exit
  PROVE  Numbers'
<1>1. /\ Known' \subseteq Known /\ InFlight' = {} /\ StatesLeft' = StatesLeft
      /\ up' = "down" /\ reader'.state = NewState
      /\ ~At("write")' /\ inner'.queue = <<>> /\ writer'.batch = <<>>
  BY EndKnown
<1>2. DOMAIN inner'.queue = {} /\ DOMAIN writer'.batch = {}
  BY <1>1, EmptySeq
<1>3. Ordered(inner'.queue) /\ Ordered(writer'.batch) /\ HeadBehindQueue'
  BY <1>1, <1>2 DEF Ordered, HeadBehindQueue
<1>4. \A s \in StatesLeft' \cup {reader'.state} : s.earliest <= s.next
  <2>1. NewState.earliest <= NewState.next
    BY DEF NewState
  <2> QED
    BY <1>1, <2>1 DEF Numbers
<1>5. \A e, f \in Known' : e.seq = f.seq => e = f
  BY <1>1 DEF Numbers
<1> QED
  BY <1>1, <1>3, <1>4, <1>5 DEF Numbers

(* Nor does a new start.                                                   *)
LEMMA InitializeKnown ==
  ASSUME Shape, Phase, initialize,
         NEW journal \in Complete, NEW saved \in StatesLeft, Starts(journal, saved)
  PROVE  /\ Known' \subseteq Known /\ InFlight' = {} /\ BatchEvents' = {}
         /\ \A j \in Complete' : j.lines = journal.lines
         /\ StatesLeft' = {saved} /\ StatesLeft' \subseteq StatesLeft
         /\ Asked' = {} /\ journal \in Journals /\ saved \in States
         /\ reader'.events \subseteq track_tail(Replay(journal, saved)).events
         /\ track_tail(Replay(journal, saved)).events \subseteq Replay(journal, saved).events
         /\ Replay(journal, saved).events \subseteq journal.lines
         /\ up' # "down" /\ ~At("write")' /\ ~At("settle")'
<1> DEFINE found == Replay(journal, saved)
<1>1. /\ up' = "starting" /\ inner'.queue = <<>>
      /\ writer'.pc = "compact" /\ writer'.cause = "boot" /\ writer'.batch = <<>>
      /\ ghost'.acked = ghost.acked /\ ghost'.committed = ghost.committed
  BY InitializeEffect
<1>2. /\ reader' = prune(track_tail(found)) /\ disk'.journal.lines = journal.lines
      /\ Complete' = {disk'.journal, journal} /\ StatesLeft' = {saved}
  BY DEF Starts
<1>3. journal \in Journals /\ saved \in States
  BY DiskParts
<1>4. /\ found \in Readers /\ track_tail(found) \in Readers /\ world.expired \in Nat
      /\ \A e \in found.events : e \in journal.lines
  BY <1>3, FoundShape, ShapeParts
<1> HIDE DEF found
<1>5. reader'.events \subseteq track_tail(found).events
  BY <1>2, <1>4, PruneEvents
<1>6. track_tail(found).events \subseteq found.events
  BY <1>4, TrackTail
<1>7. DOMAIN inner'.queue = {} /\ DOMAIN writer'.batch = {}
  BY <1>1, EmptySeq
<1>8. InFlight' = {} /\ BatchEvents' = {} /\ Asked' = {}
  BY <1>1, <1>7 DEF InFlight, BatchEvents, Asked, At
<1>9. \A j \in Complete' : j.lines = journal.lines
  BY <1>2
<1>10. Known' \subseteq Known
  <2>1. journal.lines \subseteq Known /\ ghost'.committed \subseteq Known
    BY <1>1 DEF Known
  <2>2. reader'.events \subseteq Known
    BY <1>4, <1>5, <1>6, <2>1
  <2> QED
    BY <1>8, <1>9, <2>1, <2>2 DEF Known
<1> QED
  BY <1>1, <1>2, <1>3, <1>4, <1>5, <1>6, <1>8, <1>9, <1>10 DEF At, found

(* What a start shows.                                                     *)
LEMMA InitializeReader ==
  ASSUME Shape, NEW journal \in Complete, NEW saved \in StatesLeft, Starts(journal, saved)
  PROVE  /\ reader'.state.next = Replay(journal, saved).state.next
         /\ Replay(journal, saved).state.next \in Nat
         /\ saved.next <= Replay(journal, saved).state.next
         /\ \A e \in journal.lines : e.seq <= Replay(journal, saved).state.next
         /\ \A n \in reader'.state.gaps : n <= Replay(journal, saved).state.next
         /\ reader'.state.earliest <= Replay(journal, saved).state.next
         /\ \A e \in reader'.events : reader'.state.earliest < e.seq
         /\ \A w \in Works :
              reader'.state.windows[w]
                \in {0, track_tail(Replay(journal, saved)).state.windows[w]}
<1> DEFINE found == Replay(journal, saved)
           r == track_tail(found)
<1>1. journal \in Journals /\ saved \in States
  BY DiskParts
<1>2. /\ world.expired \in Nat /\ found \in Readers /\ r \in Readers
      /\ \A e \in found.events : e.seq <= found.state.next
      /\ \A e \in r.events : e.seq <= r.state.next
  BY <1>1, FoundShape, ShapeParts
<1>3. /\ saved.next <= found.state.next
      /\ \A e \in journal.lines : e.seq <= found.state.next
      /\ \A n \in found.state.gaps : n <= found.state.next
  BY <1>1, ReplayState
<1>4. reader' = prune(r)
  BY DEF Starts
<1> HIDE DEF found
<1>5. /\ r.state.next = found.state.next
      /\ r.state.gaps = found.state.gaps \cup Seqs(Trimmed(found.events))
      /\ r.events \subseteq found.events
  BY <1>2, TrackTail
<1> HIDE DEF r
<1>6. /\ prune(r).state.next = r.state.next
      /\ prune(r).state.gaps = r.state.gaps \cup Seqs(Pruned(r.events))
      /\ prune(r).state.earliest <= r.state.next
      /\ \A e \in prune(r).events : prune(r).state.earliest < e.seq
      /\ \A w \in Works : prune(r).state.windows[w] \in {0, r.state.windows[w]}
  BY <1>2, PruneState
<1>7. \A n \in reader'.state.gaps : n <= found.state.next
  <2>1. Trimmed(found.events) \subseteq found.events /\ Pruned(r.events) \subseteq found.events
    BY <1>5 DEF Trimmed, Tail_, Pruned
  <2>2. \A n \in Seqs(Trimmed(found.events)) \cup Seqs(Pruned(r.events)) : n <= found.state.next
    BY <1>2, <2>1 DEF Seqs
  <2> QED
    BY <1>3, <1>4, <1>5, <1>6, <2>2
<1>8. found.state.next \in Nat
  BY <1>2, ReaderParts
<1> QED
  BY <1>3, <1>4, <1>5, <1>6, <1>7, <1>8 DEF r, found

LEMMA NumbersInitialize ==
  ASSUME Shape, Phase, Numbers, Cover, initialize
  PROVE  Numbers'
<1>1. PICK journal \in Complete, saved \in StatesLeft : Starts(journal, saved)
  BY InitializeEffect
<1> DEFINE next == Replay(journal, saved).state.next
<1>2. /\ Known' \subseteq Known /\ InFlight' = {} /\ BatchEvents' = {}
      /\ \A j \in Complete' : j.lines = journal.lines
      /\ StatesLeft' = {saved} /\ StatesLeft' \subseteq StatesLeft
      /\ reader'.events \subseteq journal.lines /\ up' # "down" /\ ~At("write")'
  BY <1>1, InitializeKnown
<1>3. /\ reader'.state.next = next /\ next \in Nat
      /\ saved.next <= next
      /\ \A e \in journal.lines : e.seq <= next
      /\ \A n \in reader'.state.gaps : n <= next
      /\ reader'.state.earliest <= next
  BY <1>1, InitializeReader
<1>4. /\ inner'.producer = next /\ inner'.pending = {} /\ inner'.queue = <<>>
      /\ writer'.batch = <<>> /\ ghost'.committed = ghost.committed
  BY <1>1, InitializeEffect DEF Starts
<1> HIDE DEF next
<1>5. \A e \in ghost.committed : e.seq <= next
  <2> SUFFICES ASSUME NEW e \in ghost.committed PROVE e.seq <= next
    OBVIOUS
  <2>1. e.seq <= saved.next
    BY DEF Cover
  <2>2. e.seq \in Nat /\ saved.next \in Nat
    BY KnownParts
  <2> QED
    BY <1>3, <2>1, <2>2
<1>6. \A e \in Known' \cup BatchEvents' : e.seq <= next
  BY <1>2, <1>3, <1>4, <1>5 DEF Known
<1>7. DOMAIN inner'.queue = {} /\ DOMAIN writer'.batch = {}
  BY <1>4, EmptySeq
<1>8. Ordered(inner'.queue) /\ Ordered(writer'.batch) /\ HeadBehindQueue'
  BY <1>2, <1>7 DEF Ordered, HeadBehindQueue
<1>9. \A e \in ghost'.committed \cup reader'.events : e.seq <= reader'.state.next
  BY <1>2, <1>3, <1>4, <1>5
<1>10. \A s \in StatesLeft' \cup {reader'.state} : s.earliest <= s.next
  BY <1>2, <1>3 DEF Numbers
<1>11. \A e, f \in Known' : e.seq = f.seq => e = f
  BY <1>2 DEF Numbers
<1>12. \A s \in StatesLeft' : s.next <= reader'.state.next
  BY <1>2, <1>3
<1> QED
  BY <1>2, <1>3, <1>4, <1>6, <1>8, <1>9, <1>10, <1>11, <1>12 DEF Numbers

(* An event that grows old changes none of the sets.                       *)
LEMMA ExpireKnown ==
  ASSUME Shape, Phase, Expire
  PROVE  /\ InFlight' = InFlight /\ Known' = Known /\ Complete' = Complete
         /\ StatesLeft' = StatesLeft /\ BatchEvents' = BatchEvents /\ Asked' = Asked
         /\ UNCHANGED <<disk, inner, reader, writer, up, works, ghost>>
<1>1. UNCHANGED <<disk, inner, reader, writer, up, works, ghost>>
  BY ExpireEffect
<1> QED
  BY <1>1, SameKnown

LEMMA NumbersExpire ==
  ASSUME Shape, Phase, Numbers, Expire
  PROVE  Numbers'
BY ExpireKnown DEF Numbers, HeadBehindQueue, At
(* Retention, by the steps.                                                *)
LEMMA RetentionSame ==
  ASSUME Retention, reader' = reader, FilesQuiet, world'.expired = world.expired,
         up' # "down" => up # "down", At("settle") => At("settle")'
  PROVE  Retention'
<1>1. ~At("settle")' => Cardinality(reader'.events) <= MaxEvents
  BY DEF Retention
<1>2. \A e \in reader'.events : reader'.state.earliest < e.seq
  BY DEF Retention
<1>3. up' # "down" /\ ~disk'.journal.torn => reader'.events \subseteq disk'.journal.lines
  BY DEF Retention, FilesQuiet
<1>4. \A j \in disk'.cut : disk'.journal.lines \subseteq j.lines
  BY DEF Retention, FilesQuiet
<1>5. \A s \in StatesLeft' : world'.expired <= s.next
  BY DEF Retention, FilesQuiet, StatesLeft
<1> QED
  BY <1>1, <1>2, <1>3, <1>4, <1>5 DEF Retention

(* What a producer's step changes of what is known.                        *)
LEMMA ProducedKnown ==
  ASSUME Shape, Phase, Produced
  PROVE  /\ Complete' = Complete /\ StatesLeft' = StatesLeft
         /\ BatchEvents' = BatchEvents /\ Asked' = Asked
         /\ \/ Known' = Known /\ InFlight' = InFlight
            \/ \E event \in Events, ack \in BOOLEAN :
                 /\ Queued_(event, ack)
                 /\ Known' = Known \cup {event} /\ InFlight' = InFlight \cup {event}
<1>1. UNCHANGED <<disk, reader, writer, up, ghost>>
  BY DEF Produced
<1>2. CASE Drops \/ inner' = inner
  <2>1. inner'.queue = inner.queue
    BY <1>2, DropsShape
  <2> QED
    BY <1>1, <2>1, SameKnown
<1>3. ASSUME NEW event \in Events, NEW ack \in BOOLEAN, Queued_(event, ack)
      PROVE  /\ InFlight' = InFlight \cup {event} /\ Known' = Known \cup {event}
             /\ Complete' = Complete /\ StatesLeft' = StatesLeft
             /\ BatchEvents' = BatchEvents /\ Asked' = Asked
  BY <1>1, <1>3, QueuedKnown DEF Queued_
<1> QED
  BY <1>2, <1>3 DEF Produced

LEMMA RetentionAppendWrite ==
  ASSUME Shape, Phase, Numbers, Retention, AppendWrite
  PROVE  Retention'
<1>1. /\ UNCHANGED <<inner, up, works, world>> /\ up # "down"
      /\ writer'.pc = "settle" /\ reader' = track_tail(Appended)
      /\ disk'.journal.torn = disk.journal.torn
      /\ IF disk.journal.torn THEN disk' = disk
         ELSE /\ disk'.journal.lines = disk.journal.lines \cup BatchEvents
              /\ disk'.cut = {}
  BY AppendWriteEffect
<1>2. /\ BatchEvents \subseteq InFlight /\ StatesLeft' = StatesLeft
      /\ reader'.events \subseteq reader.events \cup BatchEvents
  BY AppendWriteKnown
<1>3. reader'.state.earliest = reader.state.earliest
  BY <1>1, AppendedShape, TrackTail
<1>4. ASSUME NEW e \in reader'.events PROVE reader'.state.earliest < e.seq
  <2>1. CASE e \in reader.events
    BY <2>1, <1>3 DEF Retention
  <2>2. CASE e \in BatchEvents
    <3>1. e.seq > reader.state.next /\ reader.state.earliest <= reader.state.next
      BY <2>2, <1>2 DEF Numbers, HeadBehindQueue
    <3>2. e.seq \in Nat /\ reader.state.next \in Nat /\ reader.state.earliest \in Nat
      BY <2>2, KnownParts
    <3> QED
      BY <1>3, <3>1, <3>2
  <2> QED
    BY <1>2, <2>1, <2>2
<1>5. ~disk'.journal.torn => reader'.events \subseteq disk'.journal.lines
  <2>1. ~disk.journal.torn => reader.events \subseteq disk.journal.lines
    BY <1>1 DEF Retention
  <2> QED
    BY <1>1, <1>2, <2>1
<1>6. \A j \in disk'.cut : disk'.journal.lines \subseteq j.lines
  BY <1>1 DEF Retention
<1>7. \A s \in StatesLeft' : world'.expired <= s.next
  BY <1>1, <1>2 DEF Retention
<1>8. At("settle")'
  BY <1>1 DEF At
<1> QED
  BY <1>4, <1>5, <1>6, <1>7, <1>8 DEF Retention

LEMMA RetentionRetains ==
  ASSUME Shape, Phase, Numbers, Retention, Retains
  PROVE  Retention'
<1>1. StatesLeft' = StatesLeft
  BY RetainsKnown
<1>2. /\ reader'.events \subseteq reader.events
      /\ \A e \in reader'.events : reader'.state.earliest < e.seq
      /\ Cardinality(reader'.events) <= MaxEvents
  BY RetainsEffect
<1>3. world' = world /\ up # "down" /\ disk' = disk
  BY DEF Retains
<1>4. ~disk'.journal.torn => reader'.events \subseteq disk'.journal.lines
  BY <1>2, <1>3 DEF Retention
<1>5. \A s \in StatesLeft' : world'.expired <= s.next
  BY <1>1, <1>3 DEF Retention
<1>6. \A j \in disk'.cut : disk'.journal.lines \subseteq j.lines
  BY <1>3 DEF Retention
<1> QED
  BY <1>2, <1>4, <1>5, <1>6 DEF Retention

LEMMA RetentionEnd ==
  ASSUME Shape, Phase, Retention, Crash \/ Exit
  PROVE  Retention'
<1>1. /\ StatesLeft' = StatesLeft /\ up' = "down" /\ reader'.events = {}
      /\ world'.expired = world.expired
  BY EndKnown
<1>2. Cardinality(reader'.events) <= MaxEvents
  BY <1>1, FS_EmptySet, HistoryAssumption
<1>3. \A s \in StatesLeft' : world'.expired <= s.next
  BY <1>1 DEF Retention
<1>4. \A j \in disk'.cut : disk'.journal.lines \subseteq j.lines
  BY EndEffect DEF Retention, FilesQuiet
<1> QED
  BY <1>1, <1>2, <1>3, <1>4 DEF Retention

LEMMA RetentionInitialize ==
  ASSUME Shape, Phase, Numbers, Retention, initialize
  PROVE  Retention'
<1>1. PICK journal \in Complete, saved \in StatesLeft : Starts(journal, saved)
  BY InitializeEffect
<1> DEFINE found == Replay(journal, saved)
<1>2. /\ journal.lines \subseteq Known /\ StatesLeft' \subseteq StatesLeft
      /\ track_tail(found).events \subseteq journal.lines
      /\ reader'.events \subseteq journal.lines
      /\ journal \in Journals /\ saved \in States
  BY <1>1, InitializeKnown, KnownParts
<1>3. \A e \in reader'.events : reader'.state.earliest < e.seq
  BY <1>1, InitializeReader
<1>4. /\ reader' = prune(track_tail(found)) /\ world'.expired = world.expired
      /\ track_tail(found) \in Readers /\ world.expired \in Nat
      /\ disk'.journal.lines = journal.lines /\ disk'.cut = {journal}
  BY <1>1, <1>2, InitializeEffect, FoundShape, ShapeParts DEF Starts
<1> HIDE DEF found
<1>5. \A e, f \in track_tail(found).events : e.seq = f.seq => e = f
  BY <1>2 DEF Numbers
<1>6. Cardinality(reader'.events) <= MaxEvents
  BY <1>4, <1>5, PruneEvents
<1>7. reader'.events \subseteq disk'.journal.lines
  BY <1>2, <1>4
<1>8. \A j \in disk'.cut : disk'.journal.lines \subseteq j.lines
  BY <1>4
<1>9. \A s \in StatesLeft' : world'.expired <= s.next
  BY <1>2, <1>4 DEF Retention
<1> QED
  BY <1>3, <1>6, <1>7, <1>8, <1>9 DEF Retention

LEMMA RetentionKept ==
  ASSUME Shape, Phase, Numbers, Retention, Next
  PROVE  Retention'
<1>1. CASE Quiet
  BY <1>1, RetentionSame DEF Quiet, At
<1>2. CASE Produced \/ Receive
  <2>1. /\ UNCHANGED <<disk, reader, up>> /\ world'.expired = world.expired
        /\ (At("settle") => At("settle")')
    BY <1>2, ReceiveEffect DEF Produced, At
  <2> QED
    BY <2>1, SameFiles, RetentionSame
<1>3. CASE AppendWrite
  BY <1>3, RetentionAppendWrite
<1>4. CASE AppendSettles \/ Maintain
  BY <1>4, RetainsSteps, RetentionRetains
<1>5. CASE StartsUp
  <2>1. /\ UNCHANGED <<reader, up, world>> /\ ~At("settle") /\ FilesQuiet
    BY <1>5, StartsUpKnown, SyncedQuiet DEF StartsUp, At
  <2> QED
    BY <2>1, RetentionSame
<1>6. CASE CompactRename
  <2>1. /\ UNCHANGED <<reader, up, world>> /\ StatesLeft' = StatesLeft /\ writer.pc = "compact"
        /\ disk'.journal.lines = reader.events /\ disk'.cut = {}
    BY <1>6, CompactRenameEffect
  <2> QED
    BY <2>1 DEF Retention, At
<1>7. CASE PersistRename
  <2>1. /\ UNCHANGED <<reader, up, world>> /\ ~At("settle")
        /\ StatesLeft' = StatesLeft \cup {reader.state} /\ up # "down"
        /\ disk'.journal = disk.journal /\ disk'.cut = disk.cut
    BY <1>7, PersistRenameKnown, PersistRenameEffect
  <2>2. disk.saved \in StatesLeft /\ disk.saved.next \in Nat /\ reader.state.next \in Nat
        /\ world.expired \in Nat
    BY KnownParts, ShapeParts DEF StatesLeft
  <2>3. world.expired <= disk.saved.next /\ disk.saved.next <= reader.state.next
    BY <2>1, <2>2 DEF Retention, Numbers
  <2>4. world.expired <= reader.state.next
    BY <2>2, <2>3
  <2> QED
    BY <2>1, <2>4 DEF Retention
<1>8. CASE TimeoutGaps
  <2>1. /\ StatesLeft' = StatesLeft /\ ~At("settle")
        /\ reader'.events = reader.events /\ UNCHANGED <<disk, up, world>>
        /\ reader'.state.earliest = reader.state.earliest
    BY <1>8, TimeoutGapsKnown, TimeoutGapsEffect DEF At
  <2> QED
    BY <2>1 DEF Retention
<1>9. CASE Crash \/ Exit
  BY <1>9, RetentionEnd
<1>10. CASE initialize
  BY <1>10, RetentionInitialize
<1>11. CASE Expire
  <2>1. /\ StatesLeft' = StatesLeft
        /\ UNCHANGED <<disk, reader, writer, up>>
        /\ \A s \in StatesLeft : world'.expired <= s.next
    BY <1>11, ExpireKnown, ExpireEffect
  <2> QED
    BY <2>1 DEF Retention, At
<1> QED
  BY <1>1, <1>2, <1>3, <1>4, <1>5, <1>6, <1>7, <1>8, <1>9, <1>10, <1>11, NextCases

LEMMA NumbersKeptByNext ==
  ASSUME Shape, Phase, Numbers, Cover, Next
  PROVE  Numbers'
<1>1. CASE Quiet
  BY <1>1, NumbersQuiet
<1>2. CASE Produced
  BY <1>2, NumbersProduced
<1>3. CASE Receive \/ AppendWrite
  BY <1>3, NumbersReceive, NumbersAppendWrite
<1>4. CASE AppendSettles \/ Maintain
  BY <1>4, RetainsSteps, NumbersRetains
<1>5. CASE StartsUp \/ CompactRename \/ PersistRename
  BY <1>5, NumbersStartsUp, NumbersRenames
<1>6. CASE TimeoutGaps \/ Crash \/ Exit \/ Expire
  BY <1>6, NumbersTimeoutGaps, NumbersEnd, NumbersExpire
<1>7. CASE initialize
  BY <1>7, NumbersInitialize
<1> QED
  BY <1>1, <1>2, <1>3, <1>4, <1>5, <1>6, <1>7, NextCases
(* Windows: steps after which no window is new.                            *)
LEMMA WindowsSame ==
  ASSUME Shape, Windows, Shape', \A w \in Works : works[w].output <= works'[w].output,
         \A e \in Known' : e.kind = "output" => e \in Known,
         \A s \in StatesLeft' \cup {reader'.state} :
           \E t \in StatesLeft \cup {reader.state} :
             t.next <= s.next /\ \A w \in Works : s.windows[w] \in {0, t.windows[w]}
  PROVE  Windows'
<1>1. /\ \A e \in Known : e \in Events /\ e.seq \in Nat /\ e.offset \in Nat
      /\ \A e \in Known : e.kind = "output" => e.work \in Works
      /\ \A w \in Works : works[w].output \in Nat /\ works'[w].output \in Nat
      /\ \A t \in StatesLeft \cup {reader.state} :
           t.next \in Nat /\ \A w \in Works : t.windows[w] \in Nat
  BY KnownParts, EventFields, ShapeParts DEF Shape, States, WorkStates
<1>2. \A s \in StatesLeft' \cup {reader'.state} : s.next \in Nat
  BY KnownParts DEF Shape, StatesLeft, Readers, Disks, States
<1>3. \A e, f \in Known' : e.kind = "output" /\ f.kind = "output" /\ e.work = f.work
                             /\ e.seq < f.seq => e.offset < f.offset
  BY DEF Windows
<1>4. \A e \in Known' : e.kind = "output" => e.offset < works'[e.work].output
  BY <1>1 DEF Windows
<1>5. ASSUME NEW s \in StatesLeft' \cup {reader'.state}
      PROVE  /\ \A w \in Works : s.windows[w] <= works'[w].output
             /\ \A e \in Known' : e.kind = "output" /\ s.next < e.seq
                                    => s.windows[e.work] <= e.offset
  <2>1. PICK t \in StatesLeft \cup {reader.state} :
          t.next <= s.next /\ \A w \in Works : s.windows[w] \in {0, t.windows[w]}
    OBVIOUS
  <2>2. \A w \in Works : t.windows[w] <= works[w].output
    BY DEF Windows
  <2>3. \A w \in Works : s.windows[w] <= works'[w].output
    BY <1>1, <2>1, <2>2
  <2>4. ASSUME NEW e \in Known', e.kind = "output", s.next < e.seq
        PROVE  s.windows[e.work] <= e.offset
    <3>1. t.next < e.seq
      BY <1>1, <1>2, <2>1, <2>4
    <3>2. t.windows[e.work] <= e.offset
      BY <2>4, <3>1 DEF Windows
    <3> QED
      BY <1>1, <2>1, <2>4, <3>2
  <2> QED
    BY <2>3, <2>4
<1> QED
  BY <1>3, <1>4, <1>5 DEF Windows

(* A new event has the offset at which its work has arrived.               *)
LEMMA WindowsProduced ==
  ASSUME Shape, Phase, Numbers, Windows, Produced
  PROVE  Windows'
<1>1. Shape' /\ Phase'
  BY ProducedShape
<1>2. StatesLeft' = StatesLeft /\ UNCHANGED <<reader, up>> /\ up = "running"
  BY ProducedKnown DEF Produced, Running
<1>3. \A w \in Works : works[w].output <= works'[w].output
  BY DEF Produced
<1>4. CASE Known' = Known
  <2>1. \A s \in StatesLeft' \cup {reader'.state} :
          s \in StatesLeft \cup {reader.state} /\ s.next <= s.next
    BY <1>2, KnownParts
  <2> QED
    BY <1>1, <1>3, <1>4, <2>1, WindowsSame
<1>5. CASE \E event \in Events, ack \in BOOLEAN :
             Queued_(event, ack) /\ Known' = Known \cup {event}
  <2>1. PICK event \in Events, ack \in BOOLEAN :
               Queued_(event, ack) /\ Known' = Known \cup {event}
    BY <1>5
  <2>2. /\ event.seq = inner.producer + 1
        /\ event.kind = "output" => /\ event.offset = works[event.work].output
                                    /\ works'[event.work].output = event.offset + 1
    BY <2>1 DEF Queued_, Queues
  <2>3. /\ \A e \in Known \cup {event} : e \in Events /\ e.seq \in Nat /\ e.offset \in Nat
        /\ \A e \in Known \cup {event} : e.kind = "output" => e.work \in Works
        /\ \A w \in Works : works[w].output \in Nat /\ works'[w].output \in Nat
        /\ \A t \in StatesLeft \cup {reader.state} :
             t.next \in Nat /\ \A w \in Works : t.windows[w] \in Nat
        /\ inner.producer \in Nat
    BY <1>1, KnownParts, EventFields, ShapeParts DEF Shape, States, WorkStates
  <2>4. \A e \in Known : e.seq < event.seq
    BY <1>2, <2>2, <2>3 DEF Numbers
  <2>5. \A e \in Known : e.kind = "output" => e.offset < works[e.work].output
    BY DEF Windows
  <2>6. \A e, f \in Known' : e.kind = "output" /\ f.kind = "output" /\ e.work = f.work
                               /\ e.seq < f.seq => e.offset < f.offset
    <3> SUFFICES ASSUME NEW e \in Known', NEW f \in Known', e.kind = "output",
                        f.kind = "output", e.work = f.work, e.seq < f.seq
                 PROVE  e.offset < f.offset
      OBVIOUS
    <3>1. CASE e \in Known /\ f \in Known
      BY <3>1 DEF Windows
    <3>2. CASE e \in Known /\ f = event
      BY <3>2, <2>2, <2>3, <2>5
    <3>3. CASE e = event
      BY <3>3, <2>1, <2>3, <2>4
    <3> QED
      BY <2>1, <3>1, <3>2, <3>3
  <2>7. \A e \in Known' : e.kind = "output" => e.offset < works'[e.work].output
    <3> SUFFICES ASSUME NEW e \in Known', e.kind = "output"
                 PROVE  e.offset < works'[e.work].output
      OBVIOUS
    <3>1. CASE e \in Known
      BY <3>1, <1>3, <2>3, <2>5
    <3>2. CASE e = event
      BY <3>2, <2>2, <2>3
    <3> QED
      BY <2>1, <3>1, <3>2
  <2>8. ASSUME NEW s \in StatesLeft \cup {reader.state}
        PROVE  /\ \A w \in Works : s.windows[w] <= works'[w].output
               /\ \A e \in Known' : e.kind = "output" /\ s.next < e.seq
                                      => s.windows[e.work] <= e.offset
    <3>1. \A w \in Works : s.windows[w] <= works[w].output
      BY DEF Windows
    <3>2. \A w \in Works : s.windows[w] <= works'[w].output
      BY <1>3, <2>3, <3>1
    <3>3. ASSUME NEW e \in Known', e.kind = "output", s.next < e.seq
          PROVE  s.windows[e.work] <= e.offset
      <4>1. CASE e \in Known
        BY <3>3, <4>1 DEF Windows
      <4>2. CASE e = event
        BY <3>1, <3>3, <4>2, <2>2, <2>3
      <4> QED
        BY <2>1, <4>1, <4>2
    <3> QED
      BY <3>2, <3>3
  <2> QED
    BY <1>2, <2>6, <2>7, <2>8 DEF Windows
<1> QED
  BY <1>4, <1>5, ProducedKnown

(* A window that opens at output of a reader that is not ahead of it.      *)
LEMMA WindowsTrimmed ==
  ASSUME Shape, Windows, NEW r \in Readers, r.events \subseteq Known,
         \A e \in r.events : e.seq <= r.state.next,
         NEW t \in StatesLeft \cup {reader.state}, t.next <= r.state.next,
         r.state.windows = t.windows
  PROVE  /\ \A w \in Works : track_tail(r).state.windows[w] <= works[w].output
         /\ \A e \in Known : e.kind = "output" /\ r.state.next < e.seq
                               => track_tail(r).state.windows[e.work] <= e.offset
<1>1. /\ track_tail(r).events \subseteq r.events
      /\ \A w \in Works :
           \/ track_tail(r).state.windows[w] = r.state.windows[w]
           \/ \E f \in track_tail(r).events :
                /\ f.kind = "output" /\ f.work = w
                /\ track_tail(r).state.windows[w] = f.offset
  BY TrackTail
<1>2. /\ \A e \in Known : e \in Events /\ e.seq \in Nat /\ e.offset \in Nat
      /\ \A e \in Known : e.kind = "output" => e.work \in Works
      /\ \A w \in Works : works[w].output \in Nat
      /\ t.next \in Nat /\ r.state.next \in Nat
  BY KnownParts, EventFields, ShapeParts, ReaderParts
<1>3. ASSUME NEW w \in Works PROVE track_tail(r).state.windows[w] <= works[w].output
  <2>1. CASE track_tail(r).state.windows[w] = r.state.windows[w]
    BY <2>1 DEF Windows
  <2>2. ASSUME NEW f \in track_tail(r).events, f.kind = "output", f.work = w,
               track_tail(r).state.windows[w] = f.offset
        PROVE  track_tail(r).state.windows[w] <= works[w].output
    <3>1. f \in Known
      BY <1>1
    <3>2. f.offset < works[w].output
      BY <2>2, <3>1 DEF Windows
    <3> QED
      BY <2>2, <3>1, <3>2, <1>2
  <2> QED
    BY <1>1, <2>1, <2>2
<1>4. ASSUME NEW e \in Known, e.kind = "output", r.state.next < e.seq
      PROVE  track_tail(r).state.windows[e.work] <= e.offset
  <2>1. CASE track_tail(r).state.windows[e.work] = r.state.windows[e.work]
    <3>1. t.next < e.seq
      BY <1>2, <1>4
    <3> QED
      BY <1>4, <2>1, <3>1 DEF Windows
  <2>2. ASSUME NEW f \in track_tail(r).events, f.kind = "output", f.work = e.work,
               track_tail(r).state.windows[e.work] = f.offset
        PROVE  track_tail(r).state.windows[e.work] <= e.offset
    <3>1. f \in Known /\ f.seq <= r.state.next
      BY <1>1
    <3>2. f.seq < e.seq
      BY <1>2, <1>4, <3>1
    <3>3. f.offset < e.offset
      BY <1>4, <2>2, <3>1, <3>2 DEF Windows
    <3> QED
      BY <2>2, <3>1, <3>3, <1>2
  <2>3. e.work \in Works
    BY <1>2, <1>4
  <2> QED
    BY <1>1, <2>1, <2>2, <2>3
<1> QED
  BY <1>3, <1>4

LEMMA WindowsAppendWrite ==
  ASSUME Shape, Phase, Numbers, Numbers', Windows, AppendWrite
  PROVE  Windows'
<1>1. /\ UNCHANGED <<inner, up, works, world>> /\ up # "down"
      /\ reader' = track_tail(Appended) /\ Shape'
  BY AppendWriteEffect
<1>2. /\ Known' \subseteq Known /\ StatesLeft' = StatesLeft
      /\ BatchEvents \subseteq InFlight
  BY AppendWriteKnown
<1>3. /\ Appended \in Readers /\ Appended.events = reader.events \cup BatchEvents
      /\ reader.state.next <= Appended.state.next
      /\ \A e \in BatchEvents : e.seq <= Appended.state.next
      /\ Appended.state.windows = reader.state.windows
  BY AppendedShape
<1>4. Appended.events \subseteq Known
  BY <1>2, <1>3, KnownParts
<1>5. \A e \in Appended.events : e.seq <= Appended.state.next
  <2>1. \A e \in reader.events : e.seq <= reader.state.next /\ e.seq \in Nat
    BY <1>1, KnownParts DEF Numbers
  <2>2. reader.state.next \in Nat /\ Appended.state.next \in Nat
    BY <1>3, KnownParts, ReaderParts
  <2> QED
    BY <1>3, <2>1, <2>2
<1>6. /\ \A w \in Works : reader'.state.windows[w] <= works[w].output
      /\ \A e \in Known : e.kind = "output" /\ Appended.state.next < e.seq
                            => reader'.state.windows[e.work] <= e.offset
  BY <1>1, <1>3, <1>4, <1>5, WindowsTrimmed
<1>7. reader'.state.next = Appended.state.next
  BY <1>1, <1>3, TrackTail
<1>8. \A e, f \in Known' : e.kind = "output" /\ f.kind = "output" /\ e.work = f.work
                             /\ e.seq < f.seq => e.offset < f.offset
  BY <1>2 DEF Windows
<1>9. \A e \in Known' : e.kind = "output" => e.offset < works'[e.work].output
  BY <1>1, <1>2 DEF Windows
<1>10. \A s \in StatesLeft' \cup {reader'.state} :
         /\ \A w \in Works : s.windows[w] <= works'[w].output
         /\ \A e \in Known' : e.kind = "output" /\ s.next < e.seq
                                => s.windows[e.work] <= e.offset
  BY <1>1, <1>2, <1>6, <1>7 DEF Windows
<1> QED
  BY <1>8, <1>9, <1>10 DEF Windows

LEMMA WindowsInitialize ==
  ASSUME Shape, Phase, Windows, initialize
  PROVE  Windows'
<1>1. PICK journal \in Complete, saved \in StatesLeft : Starts(journal, saved)
  BY InitializeEffect
<1> DEFINE found == Replay(journal, saved)
<1>2. /\ Known' \subseteq Known /\ StatesLeft' = {saved}
      /\ found.events \subseteq journal.lines /\ journal.lines \subseteq Known
      /\ journal \in Journals /\ saved \in States
  BY <1>1, InitializeKnown, KnownParts
<1>3. /\ reader'.state.next = found.state.next /\ found.state.next \in Nat
      /\ saved.next <= found.state.next
      /\ \A e \in journal.lines : e.seq <= found.state.next
      /\ \A w \in Works :
           reader'.state.windows[w] \in {0, track_tail(found).state.windows[w]}
  BY <1>1, InitializeReader
<1>4. works' = works /\ Shape'
  BY InitializeEffect
<1>5. found \in Readers /\ found.state.windows = saved.windows
  BY <1>2, ReplayState
<1> HIDE DEF found
<1>6. found.events \subseteq Known /\ \A e \in found.events : e.seq <= found.state.next
  BY <1>2, <1>3
<1>7. /\ \A w \in Works : track_tail(found).state.windows[w] <= works[w].output
      /\ \A e \in Known : e.kind = "output" /\ found.state.next < e.seq
                            => track_tail(found).state.windows[e.work] <= e.offset
  BY <1>3, <1>5, <1>6, WindowsTrimmed
<1>8. /\ \A e \in Known : e.offset \in Nat /\ (e.kind = "output" => e.work \in Works)
      /\ \A w \in Works : works[w].output \in Nat
  BY KnownParts, EventFields, ShapeParts
<1>9. /\ \A w \in Works : reader'.state.windows[w] <= works[w].output
      /\ \A e \in Known : e.kind = "output" /\ found.state.next < e.seq
                            => reader'.state.windows[e.work] <= e.offset
  BY <1>3, <1>7, <1>8
<1>10. /\ \A e, f \in Known' : e.kind = "output" /\ f.kind = "output" /\ e.work = f.work
                                /\ e.seq < f.seq => e.offset < f.offset
       /\ \A e \in Known' : e.kind = "output" => e.offset < works'[e.work].output
  BY <1>2, <1>4 DEF Windows
<1>11. \A s \in StatesLeft' \cup {reader'.state} :
         /\ \A w \in Works : s.windows[w] <= works'[w].output
         /\ \A e \in Known' : e.kind = "output" /\ s.next < e.seq
                                => s.windows[e.work] <= e.offset
  BY <1>2, <1>3, <1>4, <1>9 DEF Windows
<1> QED
  BY <1>10, <1>11 DEF Windows

LEMMA WindowsKept ==
  ASSUME Shape, Phase, Numbers, Numbers', Windows, Next
  PROVE  Windows'
<1> DEFINE Like(s, t) ==
      t.next <= s.next /\ \A w \in Works : s.windows[w] \in {0, t.windows[w]}
<1>1. /\ \A t \in StatesLeft \cup {reader.state} : Like(t, t)
      /\ \A w \in Works : works[w].output <= works[w].output
  BY KnownParts, ShapeParts
<1>2. ASSUME Shape', \A w \in Works : works'[w].output = works[w].output,
             \A e \in Known' : e.kind = "output" => e \in Known,
             \A s \in StatesLeft' \cup {reader'.state} :
               \E t \in StatesLeft \cup {reader.state} : Like(s, t)
      PROVE  Windows'
  BY <1>1, <1>2, WindowsSame
<1> HIDE DEF Like
<1>3. CASE Quiet /\ Shape'
  <2>1. /\ Known' \subseteq Known /\ StatesLeft' \subseteq StatesLeft /\ reader' = reader
        /\ \A w \in Works : works'[w].output = works[w].output
    BY <1>3, QuietSets DEF Quiet
  <2> QED
    BY <1>1, <1>2, <1>3, <2>1
<1>4. CASE Produced
  BY <1>4, WindowsProduced
<1>5. CASE Receive
  <2>1. UNCHANGED <<disk, reader, up, works, world>> /\ Shape' /\ Known' = Known
    BY <1>5, ReceiveEffect, NumbersReceive
  <2>2. StatesLeft' = StatesLeft
    BY <2>1 DEF StatesLeft
  <2> QED
    BY <1>1, <1>2, <2>1, <2>2
<1>6. CASE AppendWrite
  BY <1>6, WindowsAppendWrite
<1>7. CASE AppendSettles \/ Maintain
  <2>1. Retains /\ Shape'
    BY <1>7, RetainsSteps
  <2>2. /\ Known' \subseteq Known /\ StatesLeft' = StatesLeft /\ works' = works
        /\ reader'.state.next = reader.state.next
        /\ \A w \in Works : reader'.state.windows[w] \in {0, reader.state.windows[w]}
    BY <2>1, RetainsKnown, RetainsEffect DEF Retains
  <2>3. Like(reader'.state, reader.state)
    BY <2>2, KnownParts DEF Like
  <2> QED
    BY <1>1, <1>2, <2>1, <2>2, <2>3
<1>8. CASE StartsUp
  <2>1. /\ Known' \subseteq Known \cup BatchEvents' /\ StatesLeft' \subseteq StatesLeft
        /\ UNCHANGED <<reader, works>> /\ Shape'
        /\ \A e \in BatchEvents' : e.kind # "output"
    BY <1>8, StartsUpKnown, StartsUpEffect
  <2> QED
    BY <1>1, <1>2, <2>1
<1>9. CASE CompactRename \/ PersistRename
  <2>1. /\ Known' \subseteq Known /\ StatesLeft' \subseteq StatesLeft \cup {reader.state}
        /\ UNCHANGED <<reader, works>> /\ Shape'
    BY <1>9, CompactRenameKnown, CompactRenameEffect, PersistRenameKnown, PersistRenameEffect
  <2> QED
    BY <1>1, <1>2, <2>1
<1>10. CASE TimeoutGaps
  <2>1. /\ Known' = Known /\ StatesLeft' = StatesLeft /\ works' = works /\ Shape'
        /\ reader'.state.windows = reader.state.windows
        /\ reader.state.next <= reader'.state.next
    BY <1>10, TimeoutGapsKnown, TimeoutGapsEffect
  <2>2. Like(reader'.state, reader.state)
    BY <2>1 DEF Like
  <2> QED
    BY <1>1, <1>2, <2>1, <2>2
<1>11. CASE Crash \/ Exit
  <2>1. /\ Known' \subseteq Known /\ StatesLeft' \subseteq StatesLeft
        /\ reader'.state = NewState /\ \A w \in Works : works'[w].output = works[w].output
        /\ Shape'
    BY <1>11, EndKnown, EndEffect
  <2>2. \A w \in Works : NewState.windows[w] = 0
    BY DEF NewState
  <2>3. /\ \A s \in StatesLeft' : /\ \A w \in Works : s.windows[w] <= works'[w].output
                                  /\ \A e \in Known' : e.kind = "output" /\ s.next < e.seq
                                                         => s.windows[e.work] <= e.offset
        /\ \A e, f \in Known' : e.kind = "output" /\ f.kind = "output" /\ e.work = f.work
                                /\ e.seq < f.seq => e.offset < f.offset
        /\ \A e \in Known' : e.kind = "output" => e.offset < works'[e.work].output
    <3>1. \A e \in Known : e.kind = "output" => e.work \in Works
      BY KnownParts, EventFields
    <3> QED
      BY <2>1, <3>1 DEF Windows
  <2>4. /\ \A w \in Works : 0 <= works'[w].output
        /\ \A e \in Known' : e.kind = "output" => e.work \in Works /\ 0 <= e.offset
    <3>1. \A e \in Known : e.offset \in Nat /\ (e.kind = "output" => e.work \in Works)
      BY KnownParts, EventFields
    <3> QED
      BY <2>1, <3>1, ShapeParts
  <2> QED
    BY <2>1, <2>2, <2>3, <2>4 DEF Windows
<1>12. CASE initialize
  BY <1>12, WindowsInitialize
<1>13. CASE Expire
  <2>1. Known' = Known /\ StatesLeft' = StatesLeft /\ UNCHANGED <<reader, works>> /\ Shape'
    BY <1>13, ExpireKnown, ExpireEffect
  <2> QED
    BY <1>1, <1>2, <2>1
<1> QED
  BY <1>3, <1>4, <1>5, <1>6, <1>7, <1>8, <1>9, <1>10, <1>11, <1>12, <1>13, NextCases

(* Cover: steps that describe nothing.                                     *)
LEMMA CoverSame ==
  ASSUME Cover, ghost'.committed = ghost.committed, StatesLeft' \subseteq StatesLeft
  PROVE  Cover'
BY DEF Cover

(* What a state file that was synced describes is the reader's.            *)
LEMMA CoverCommits ==
  ASSUME Numbers, up # "down", StatesLeft' = {reader.state},
         ghost'.committed \subseteq ghost.committed \cup reader.events
  PROVE  Cover'
BY DEF Cover, Numbers

LEMMA CoverKept ==
  ASSUME Shape, Phase, Numbers, Cover, Next
  PROVE  Cover'
<1>1. CASE Quiet
  BY <1>1, QuietSets, CoverSame, CoverCommits DEF Quiet
<1>2. CASE Produced
  BY <1>2, ProducedKnown, CoverSame DEF Produced
<1>3. CASE Receive
  <2>1. UNCHANGED <<disk, ghost>>
    BY <1>3, ReceiveEffect
  <2> QED
    BY <2>1, CoverSame DEF StatesLeft
<1>4. CASE AppendWrite
  BY <1>4, AppendWriteEffect, AppendWriteKnown, CoverSame
<1>5. CASE AppendSettles \/ Maintain
  BY <1>5, RetainsSteps, RetainsKnown, CoverSame DEF Retains
<1>6. CASE StartsUp
  <2>1. up # "down"
    BY <1>6 DEF StartsUp, At, Phase
  <2> QED
    BY <1>6, <2>1, StartsUpKnown, CoverCommits
<1>7. CASE CompactRename
  BY <1>7, CompactRenameKnown, CoverSame
<1>8. CASE PersistRename
  <2>1. /\ ghost' = ghost /\ up # "down" /\ StatesLeft' = StatesLeft \cup {reader.state}
    BY <1>8, PersistRenameKnown
  <2>2. \A e \in ghost.committed : e.seq <= reader.state.next
    BY <2>1 DEF Numbers
  <2> QED
    BY <2>1, <2>2 DEF Cover
<1>9. CASE TimeoutGaps
  BY <1>9, TimeoutGapsKnown, TimeoutGapsEffect, CoverSame
<1>10. CASE Crash \/ Exit
  BY <1>10, EndKnown, CoverSame
<1>11. CASE initialize
  <2>1. PICK journal \in Complete, saved \in StatesLeft : Starts(journal, saved)
    BY <1>11, InitializeEffect
  <2> QED
    BY <1>11, <2>1, InitializeEffect, InitializeKnown, CoverSame
<1>12. CASE Expire
  BY <1>12, ExpireKnown, CoverSame
<1> QED
  BY <1>1, <1>2, <1>3, <1>4, <1>5, <1>6, <1>7, <1>8, <1>9, <1>10, <1>11, <1>12, NextCases
(* What was confirmed is not output.                                       *)
LEMMA AskedPrime ==
  ASSUME Shape', BatchEvents' = BatchEvents, NEW e \in Asked'
  PROVE  e \in BatchEvents /\ e.kind # "output"
<1>1. PICK i \in DOMAIN writer'.batch : writer'.batch[i].ack /\ e = writer'.batch[i].event
  BY DEF Asked
<1>2. writer'.batch \in Seq(Messages)
  BY DEF Shape, Writers
<1>3. writer'.batch[i] \in Messages
  BY <1>2, MessageEvents
<1>4. e \in BatchEvents'
  BY <1>1 DEF BatchEvents
<1> QED
  BY <1>1, <1>3, <1>4 DEF Messages

(* Recorded, but for the journals.                                         *)
Noted(e) ==
  /\ e.kind # "output"
  /\ up # "down" => e \in reader.events
  /\ \A s \in StatesLeft : s.earliest < e.seq

Current == {disk.journal} \cup disk.cut

LEMMA AcknowledgedBy ==
  /\ Acknowledged <=>
       /\ \A e \in ghost.acked \ Excused : Noted(e) /\ \A j \in Complete : e \in j.lines
       /\ \A e \in Asked \ Excused : Noted(e) /\ \A j \in Current : e \in j.lines
  /\ Acknowledged' <=>
       /\ \A e \in ghost'.acked \ Excused' : Noted(e)' /\ \A j \in Complete' : e \in j.lines
       /\ \A e \in Asked' \ Excused' : Noted(e)' /\ \A j \in Current' : e \in j.lines
BY DEF Acknowledged, Recorded, Noted, Current

(* Steps after which what is noted still is, or retention has removed it.  *)
LEMMA NotedSame ==
  ASSUME NEW e, Noted(e), up' # "down" => up # "down",
         up' # "down" /\ e \in reader.events => e \in reader'.events,
         \A s \in StatesLeft' : s \in StatesLeft
           \/ (up # "down" /\ \A f \in reader.events : s.earliest < f.seq)
  PROVE  Noted(e)'
<1>1. up' # "down" => e \in reader'.events
  BY DEF Noted
<1>2. \A s \in StatesLeft' : s.earliest < e.seq
  BY DEF Noted
<1> QED
  BY <1>1, <1>2 DEF Noted

(* Acknowledged: steps that ask for no confirmation.                       *)
LEMMA AcknowledgedSame ==
  ASSUME Acknowledged, Asked' \subseteq Asked, Excused \subseteq Excused',
         up' # "down" => up # "down",
         up' # "down" => reader.events \subseteq reader'.events \cup Excused',
         \A s \in StatesLeft' : s \in StatesLeft
           \/ (up # "down" /\ \A f \in reader.events : s.earliest < f.seq),
         \A j \in Current' : \/ \E k \in Current : k.lines \subseteq j.lines
                             \/ (up # "down" /\ reader.events \subseteq j.lines),
         \/ /\ ghost'.acked = ghost.acked
            /\ \A j \in Complete' : \/ \E k \in Complete : k.lines \subseteq j.lines
                                    \/ (up # "down" /\ reader.events \subseteq j.lines)
         \/ ghost'.acked \subseteq ghost.acked \cup Asked /\ Complete' \subseteq Current
  PROVE  Acknowledged'
<1>1. ASSUME NEW e, Noted(e), e \notin Excused' PROVE Noted(e)'
  BY <1>1, NotedSame
<1>2. ASSUME NEW e \in Asked \ Excused' PROVE Noted(e)' /\ \A j \in Current' : e \in j.lines
  <2>1. Noted(e) /\ \A j \in Current : e \in j.lines
    BY AcknowledgedBy
  <2> QED
    BY <1>1, <2>1 DEF Noted
<1>3. ASSUME NEW e \in ghost'.acked \ Excused'
      PROVE  Noted(e)' /\ \A j \in Complete' : e \in j.lines
  <2>1. CASE e \in ghost.acked
    <3>1. Noted(e) /\ \A j \in Complete : e \in j.lines
      BY <2>1, AcknowledgedBy
    <3>2. \A j \in Complete' : e \in j.lines
      BY <3>1 DEF Noted, Current, Complete
    <3> QED
      BY <1>1, <3>1, <3>2
  <2>2. CASE e \in Asked /\ Complete' \subseteq Current
    <3>1. Noted(e) /\ \A j \in Current : e \in j.lines
      BY <2>2, AcknowledgedBy
    <3> QED
      BY <1>1, <2>2, <3>1
  <2> QED
    BY <2>1, <2>2
<1> QED
  BY <1>2, <1>3, AcknowledgedBy

LEMMA AcknowledgedAppendWrite ==
  ASSUME Shape, Phase, Numbers, Retention, Acknowledged, AppendWrite
  PROVE  Acknowledged'
<1>1. /\ UNCHANGED <<inner, up, works, world>> /\ up # "down"
      /\ writer.pc = "write" /\ writer'.pc = "settle"
      /\ writer'.batch = writer.batch /\ writer'.cause = writer.cause
      /\ reader' = track_tail(Appended)
      /\ disk'.journal.torn = disk.journal.torn
      /\ IF disk.journal.torn THEN disk' = disk
         ELSE /\ disk'.journal.lines = disk.journal.lines \cup BatchEvents
              /\ disk'.cut = {}
      /\ ghost'.acked = ghost.acked
      /\ ghost'.removed = ghost.removed \cup Trimmed(Appended.events)
      /\ ghost'.behind = IF disk.journal.torn THEN ghost.behind \cup BatchEvents
                         ELSE ghost.behind
  BY AppendWriteEffect
<1>2. /\ StatesLeft' = StatesLeft /\ BatchEvents \subseteq InFlight
      /\ Complete' \subseteq Complete \cup {disk'.journal} /\ BatchEvents' = BatchEvents
      /\ disk.journal.lines \subseteq disk'.journal.lines
  BY AppendWriteKnown
<1>3. Appended \in Readers /\ Appended.events = reader.events \cup BatchEvents
  BY AppendedShape
<1>4. Excused \subseteq Excused' /\ Appended.events \subseteq reader'.events \cup Excused'
  <2>1. reader'.events = Appended.events \ Trimmed(Appended.events)
    BY <1>1, <1>3, TrackTail
  <2> QED
    BY <1>1, <2>1 DEF Excused
<1>5. ASSUME NEW e \in ghost.acked \ Excused'
      PROVE  Noted(e)' /\ \A j \in Complete' : e \in j.lines
  <2>1. Noted(e) /\ \A j \in Complete : e \in j.lines
    BY <1>4, AcknowledgedBy
  <2>2. Noted(e)'
    BY <1>1, <1>2, <1>3, <1>4, <2>1, NotedSame
  <2>3. disk.journal \in Complete
    BY DEF Complete
  <2> QED
    BY <1>2, <2>1, <2>2, <2>3
<1>6. ASSUME NEW e \in Asked', e \notin Excused'
      PROVE  Noted(e)' /\ \A j \in Current' : e \in j.lines
  <2>1. Shape'
    BY AppendWriteEffect
  <2>2. e \in BatchEvents /\ e.kind # "output"
    BY <1>2, <2>1, AskedPrime
  <2>3. ~disk.journal.torn /\ e \in reader'.events
    BY <1>1, <1>3, <1>4, <1>6, <2>2 DEF Excused
  <2>4. \A j \in Current' : e \in j.lines
    BY <1>1, <2>2, <2>3 DEF Current
  <2>5. ASSUME NEW s \in StatesLeft PROVE s.earliest < e.seq
    <3>1. s.earliest \in Nat /\ s.next \in Nat /\ e.seq \in Nat /\ reader.state.next \in Nat
      BY <2>2, KnownParts
    <3>2. /\ s.earliest <= s.next /\ s.next <= reader.state.next
          /\ e.seq > reader.state.next
      BY <1>1, <1>2, <2>2 DEF Numbers, HeadBehindQueue
    <3> QED
      BY <3>1, <3>2
  <2> QED
    BY <1>2, <2>2, <2>3, <2>4, <2>5 DEF Noted
<1> QED
  BY <1>1, <1>5, <1>6, AcknowledgedBy

LEMMA AcknowledgedInitialize ==
  ASSUME Shape, Phase, Acknowledged, initialize
  PROVE  Acknowledged'
<1>1. PICK journal \in Complete, saved \in StatesLeft : Starts(journal, saved)
  BY InitializeEffect
<1> DEFINE found == Replay(journal, saved)
<1>2. /\ \A j \in Complete' : j.lines = journal.lines
      /\ StatesLeft' = {saved} /\ Asked' = {}
      /\ journal \in Journals /\ saved \in States
  BY <1>1, InitializeKnown
<1>3. /\ ghost'.removed = ghost.removed \cup (found.events \ reader'.events)
      /\ ghost'.behind = ghost.behind /\ ghost'.acked = ghost.acked
  BY <1>1, InitializeEffect DEF Starts
<1>4. found.events = {e \in journal.lines : ~Retired(e, saved)}
  BY <1>2, ReplayState
<1> HIDE DEF found
<1>5. saved.earliest \in Nat /\ \A e \in journal.lines : e.seq \in Nat
  BY KnownParts
<1>6. ASSUME NEW e \in ghost.acked \ Excused'
      PROVE  Noted(e)' /\ \A j \in Complete' : e \in j.lines
  <2>1. Noted(e) /\ \A j \in Complete : e \in j.lines
    BY <1>3, AcknowledgedBy DEF Excused
  <2>2. e \in journal.lines /\ saved.earliest < e.seq
    BY <2>1 DEF Noted
  <2>3. e \in found.events
    BY <1>4, <1>5, <2>1, <2>2 DEF Retired, Noted
  <2>4. e \in reader'.events
    BY <1>3, <2>3 DEF Excused
  <2> QED
    BY <1>2, <2>1, <2>2, <2>4 DEF Noted
<1> QED
  BY <1>2, <1>3, <1>6, AcknowledgedBy

LEMMA AcknowledgedKept ==
  ASSUME Shape, Phase, Numbers, Retention, Acknowledged, Next
  PROVE  Acknowledged'
<1>0. Current \subseteq Complete
  BY DEF Current, Complete
<1>1. CASE Quiet
  <2>1. /\ StatesLeft' \subseteq StatesLeft
        /\ \A j \in Complete' : \E i \in Complete : i.lines \subseteq j.lines
    BY <1>1, QuietSets
  <2>2. \A j \in Current' : \E k \in Current : k.lines \subseteq j.lines
    BY <1>1 DEF Quiet, FilesQuiet, Current
  <2>3. /\ reader'.events = reader.events /\ Asked' \subseteq Asked /\ Excused' = Excused
        /\ up' # "down" => up # "down"
        /\ \/ ghost'.acked = ghost.acked
           \/ ghost'.acked \subseteq ghost.acked \cup Asked /\ Complete' \subseteq Current
    BY <1>1 DEF Quiet, Excused, Current
  <2> QED
    BY <2>1, <2>2, <2>3, AcknowledgedSame
<1>2. ASSUME Complete' = Complete, Current' = Current, StatesLeft' = StatesLeft,
             Asked' \subseteq Asked, up' = up, ghost' = ghost, reader'.events = reader.events
      PROVE  Acknowledged'
  BY <1>2, AcknowledgedSame DEF Excused
<1>3. CASE Produced
  BY <1>2, <1>3, ProducedKnown DEF Produced, Current
<1>4. CASE Receive
  <2>1. UNCHANGED <<disk, reader, up, ghost>> /\ writer'.pc = "write"
    BY <1>4, ReceiveEffect
  <2>2. Complete' = Complete /\ Current' = Current /\ StatesLeft' = StatesLeft /\ Asked' = {}
    BY <2>1 DEF Complete, Current, StatesLeft, Asked, At
  <2> QED
    BY <1>2, <2>1, <2>2
<1>5. CASE AppendWrite
  BY <1>5, AcknowledgedAppendWrite
<1>6. CASE AppendSettles \/ Maintain
  <2>1. Retains
    BY <1>6, RetainsSteps
  <2>2. /\ Complete' = Complete /\ StatesLeft' = StatesLeft /\ Asked' = Asked
        /\ reader'.events = reader.events \ Pruned(reader.events)
    BY <2>1, RetainsKnown, RetainsEffect
  <2>3. /\ ghost'.removed = ghost.removed \cup Pruned(reader.events) /\ up' = up
        /\ ghost'.behind = ghost.behind /\ ghost'.acked = ghost.acked /\ Current' = Current
    BY <2>1 DEF Retains, Current
  <2> QED
    BY <2>2, <2>3, AcknowledgedSame DEF Excused
<1>7. CASE StartsUp
  <2>1. /\ Complete' \subseteq Complete /\ StatesLeft' \subseteq StatesLeft
        /\ UNCHANGED <<reader, up>> /\ Asked' = Asked
    BY <1>7, StartsUpKnown
  <2>2. /\ Current' = Current /\ ghost'.acked = ghost.acked /\ Excused' = Excused
    BY <1>7, StartsUpEffect DEF Current, Excused
  <2> QED
    BY <2>1, <2>2, AcknowledgedSame
<1>8. CASE CompactRename
  <2>1. /\ UNCHANGED <<reader, up, ghost>> /\ up # "down" /\ StatesLeft' = StatesLeft
        /\ Asked' = Asked /\ Excused' = Excused
        /\ \A j \in Complete' : j \in Complete \/ j.lines = reader.events
    BY <1>8, CompactRenameKnown DEF Excused
  <2>2. \A j \in Current' : j.lines = reader.events
    BY <1>8, CompactRenameEffect DEF Current
  <2> QED
    BY <2>1, <2>2, AcknowledgedSame
<1>9. CASE PersistRename
  <2>1. /\ UNCHANGED <<reader, up, ghost>> /\ up # "down" /\ Complete' = Complete
        /\ StatesLeft' = StatesLeft \cup {reader.state} /\ Asked' = Asked
        /\ Excused' = Excused
    BY <1>9, PersistRenameKnown DEF Excused
  <2>2. Current' = Current
    BY <1>9, PersistRenameEffect DEF Current
  <2>3. \A f \in reader.events : reader.state.earliest < f.seq
    BY DEF Retention
  <2> QED
    BY <2>1, <2>2, <2>3, AcknowledgedSame
<1>10. CASE TimeoutGaps
  <2>1. /\ reader'.events = reader.events /\ UNCHANGED <<disk, up, ghost>>
    BY <1>10, TimeoutGapsEffect
  <2> QED
    BY <1>2, <1>10, <2>1, TimeoutGapsKnown DEF Current
<1>11. CASE Crash \/ Exit
  <2>1. /\ StatesLeft' = StatesLeft /\ up' = "down" /\ Asked' = {}
        /\ \A j \in Complete' : \E i \in Complete : i.lines \subseteq j.lines
        /\ ghost'.acked = ghost.acked /\ Excused' = Excused
    BY <1>11, EndKnown DEF Excused
  <2>2. \A j \in Current' : \E k \in Current : k.lines \subseteq j.lines
    BY <1>11, EndEffect DEF FilesQuiet, Current
  <2> QED
    BY <2>1, <2>2, AcknowledgedSame
<1>12. CASE initialize
  BY <1>12, AcknowledgedInitialize
<1>13. CASE Expire
  BY <1>2, <1>13, ExpireKnown DEF Expire, Current
<1> QED
  BY <1>1, <1>3, <1>4, <1>5, <1>6, <1>7, <1>8, <1>9, <1>10, <1>11, <1>12, <1>13, NextCases
(* What becomes of a number.                                               *)
Traced(n) == \/ \E e \in InFlight \cup reader.events : e.seq = n
             \/ n \in reader.state.gaps \cup inner.pending

LEMMA AccountedBy ==
  /\ Accounted <=> (up \in {"starting", "running"} =>
                      \A n \in 1 .. inner.producer : n > ghost.booted => Traced(n))
  /\ Accounted' <=> (up' \in {"starting", "running"} =>
                       \A n \in 1 .. inner'.producer : n > ghost'.booted => Traced(n)')
<1>1. ASSUME NEW n
      PROVE  /\ n \in Seqs(InFlight \cup reader.events)
                  <=> \E e \in InFlight \cup reader.events : e.seq = n
             /\ n \in Seqs(InFlight \cup reader.events)'
                  <=> \E e \in InFlight' \cup reader'.events : e.seq = n
  BY DEF Seqs
<1> QED
  BY <1>1 DEF Accounted, Traced

(* Accounted: steps that give no number out.                               *)
LEMMA AccountedSame ==
  ASSUME Accounted, inner'.producer = inner.producer, ghost'.booted = ghost.booted,
         up' \in {"starting", "running"} =>
           up \in {"starting", "running"} /\ \A n : Traced(n) => Traced(n)'
  PROVE  Accounted'
<1>1. up' \in {"starting", "running"} =>
        \A n \in 1 .. inner'.producer : n > ghost'.booted => Traced(n)'
  BY AccountedBy
<1> QED
  BY <1>1, AccountedBy

LEMMA AccountedQuiet ==
  ASSUME Shape, Accounted, Quiet
  PROVE  Accounted'
<1>1. /\ inner'.producer = inner.producer /\ inner'.queue = inner.queue
      /\ inner.pending \subseteq inner'.pending /\ reader' = reader
      /\ ghost'.booted = ghost.booted
      /\ up' \in {"starting", "running"} =>
           /\ up \in {"starting", "running"}
           /\ At("write") /\ writer' # writer => Seqs(BatchEvents) \subseteq inner'.pending
  BY DEF Quiet
<1>2. ASSUME up' \in {"starting", "running"}, NEW n, Traced(n)
      PROVE  Traced(n)'
  <2>1. CASE n \in reader.state.gaps \cup inner.pending
    BY <1>1, <2>1 DEF Traced
  <2>2. ASSUME NEW e \in InFlight \cup reader.events, e.seq = n PROVE Traced(n)'
    <3>1. CASE e \in reader.events \/ e \in {inner.queue[i].event : i \in DOMAIN inner.queue}
      BY <1>1, <2>2, <3>1 DEF Traced, InFlight
    <3>2. CASE At("write") /\ e \in BatchEvents
      <4>1. CASE writer' = writer
        BY <2>2, <3>2, <4>1 DEF Traced, InFlight, BatchEvents, At
      <4>2. CASE writer' # writer
        BY <1>1, <1>2, <2>2, <3>2, <4>2 DEF Traced, Seqs
      <4> QED
        BY <4>1, <4>2
    <3> QED
      BY <3>1, <3>2 DEF InFlight
  <2> QED
    BY <1>2, <2>1, <2>2 DEF Traced
<1> QED
  BY <1>1, <1>2, AccountedSame

LEMMA AccountedProduced ==
  ASSUME Shape, Phase, Accounted, Produced
  PROVE  Accounted'
<1>1. UNCHANGED <<reader, up, ghost>>
  BY DEF Produced
<1>2. CASE inner' = inner
  <2>1. InFlight' = InFlight
    BY <1>2, SameKnown DEF Produced
  <2> QED
    BY <1>1, <1>2, <2>1, AccountedSame DEF Traced
<1>3. ASSUME inner'.producer = inner.producer + 1, inner.pending \subseteq inner'.pending,
             InFlight \subseteq InFlight', (\A n : n = inner.producer + 1 => Traced(n)')
      PROVE  Accounted'
  <2> SUFFICES ASSUME up \in {"starting", "running"}, NEW n \in 1 .. inner'.producer,
                      n > ghost.booted
               PROVE  Traced(n)'
    BY <1>1, AccountedBy
  <2>1. inner.producer \in Nat
    BY ShapeParts
  <2>2. CASE n \in 1 .. inner.producer
    <3>1. Traced(n)
      BY <2>2, AccountedBy
    <3> QED
      BY <1>1, <1>3, <3>1 DEF Traced
  <2>3. CASE n = inner.producer + 1
    BY <1>3, <2>3
  <2> QED
    BY <1>3, <2>1, <2>2, <2>3
<1>4. CASE Drops
  <2>1. /\ inner'.producer = inner.producer + 1
        /\ inner'.pending = inner.pending \cup {inner.producer + 1}
        /\ inner'.queue = inner.queue
    BY <1>4, DropsShape
  <2>2. InFlight' = InFlight
    BY <2>1, SameKnown DEF Produced
  <2>3. (\A n : n = inner.producer + 1 => Traced(n)')
    BY <2>1 DEF Traced
  <2> QED
    BY <1>3, <2>1, <2>2, <2>3
<1>5. ASSUME NEW event \in Events, NEW ack \in BOOLEAN, Queued_(event, ack)
      PROVE  Accounted'
  <2>1. /\ InFlight' = InFlight \cup {event}
        /\ inner'.producer = inner.producer + 1 /\ inner'.pending = inner.pending
        /\ event.seq = inner.producer + 1
    BY <1>5, QueuedKnown, QueuesShape DEF Queued_, Queues, Produced
  <2>2. (\A n : n = inner.producer + 1 => Traced(n)')
    BY <2>1 DEF Traced
  <2> QED
    BY <1>3, <2>1, <2>2
<1> QED
  BY <1>2, <1>4, <1>5 DEF Produced

LEMMA AccountedAppendWrite ==
  ASSUME Shape, Phase, Accounted, AppendWrite
  PROVE  Accounted'
<1>1. /\ UNCHANGED <<inner, up, works, world>>
      /\ reader' = track_tail(Appended) /\ ghost'.booted = ghost.booted
      /\ writer.pc = "write"
  BY AppendWriteEffect
<1>2. InFlight' = {inner.queue[i].event : i \in DOMAIN inner.queue}
  BY AppendWriteKnown
<1>3. /\ Appended \in Readers /\ Appended.events = reader.events \cup BatchEvents
      /\ Appended.state.gaps = reader.state.gaps
  BY AppendedShape
<1>4. /\ reader'.events = Appended.events \ Trimmed(Appended.events)
      /\ reader'.state.gaps = Appended.state.gaps \cup Seqs(Trimmed(Appended.events))
  BY <1>1, <1>3, TrackTail
<1>5. ASSUME NEW n, Traced(n) PROVE Traced(n)'
  <2>1. CASE n \in reader.state.gaps \cup inner.pending
    BY <1>1, <1>3, <1>4, <2>1 DEF Traced
  <2>2. ASSUME NEW e \in Appended.events, e.seq = n PROVE Traced(n)'
    BY <1>4, <2>2 DEF Traced, Seqs
  <2>3. ASSUME NEW e \in InFlight', e.seq = n PROVE Traced(n)'
    BY <2>3 DEF Traced
  <2>4. InFlight \cup reader.events \subseteq InFlight' \cup Appended.events
    BY <1>2, <1>3 DEF InFlight
  <2> QED
    BY <1>5, <2>1, <2>2, <2>3, <2>4 DEF Traced
<1> QED
  BY <1>1, <1>5, AccountedSame

LEMMA AccountedRetains ==
  ASSUME Shape, Phase, Numbers, Accounted, Retains
  PROVE  Accounted'
<1>1. InFlight' = InFlight
  BY RetainsKnown
<1>2. /\ reader'.events = reader.events \ Pruned(reader.events)
      /\ reader'.state.gaps \cup inner'.pending
           = reader.state.gaps \cup inner.pending \cup Seqs(Pruned(reader.events))
  BY RetainsEffect
<1>3. inner'.producer = inner.producer /\ ghost'.booted = ghost.booted /\ up' = up
  BY DEF Retains
<1>4. ASSUME NEW n, Traced(n) PROVE Traced(n)'
  <2>1. CASE n \in reader.state.gaps \cup inner.pending
    BY <1>2, <2>1 DEF Traced
  <2>2. ASSUME NEW e \in InFlight \cup reader.events, e.seq = n PROVE Traced(n)'
    BY <1>1, <1>2, <2>2 DEF Traced, Seqs
  <2> QED
    BY <1>4, <2>1, <2>2 DEF Traced
<1> QED
  BY <1>3, <1>4, AccountedSame

LEMMA AccountedStartsUp ==
  ASSUME Shape, Phase, Accounted, StartsUp
  PROVE  Accounted'
<1>1. /\ InFlight' = BatchEvents' /\ UNCHANGED <<reader, up, works, world>>
      /\ ghost'.booted = ghost.booted
  BY StartsUpKnown, StartsUpEffect
<1>2. /\ up = "starting" /\ inner.queue = <<>> /\ inner'.pending = inner.pending
      /\ inner.producer < inner'.producer /\ Shape'
      /\ \A n \in inner.producer + 1 .. inner'.producer : n \in Seqs(BatchEvents')
  BY StartsUpEffect
<1>3. InFlight = {}
  <2>1. DOMAIN inner.queue = {}
    BY <1>2, EmptySeq
  <2> QED
    BY <2>1 DEF InFlight, StartsUp, At
<1>4. inner.producer \in Nat /\ inner'.producer \in Nat
  BY <1>2, ShapeParts DEF Shape, Inners
<1>5. ASSUME NEW n \in 1 .. inner'.producer, n > ghost.booted
      PROVE  Traced(n)'
  <2>1. CASE n \in 1 .. inner.producer
    <3>1. Traced(n)
      BY <1>2, <1>5, <2>1, AccountedBy
    <3> QED
      BY <1>1, <1>2, <1>3, <3>1 DEF Traced
  <2>2. CASE n \in inner.producer + 1 .. inner'.producer
    BY <1>1, <1>2, <2>2 DEF Traced, Seqs
  <2> QED
    BY <1>4, <2>1, <2>2
<1> QED
  BY <1>1, <1>5, AccountedBy

LEMMA AccountedKept ==
  ASSUME Shape, Phase, Numbers, Accounted, Next
  PROVE  Accounted'
<1>1. CASE Quiet
  BY <1>1, AccountedQuiet
<1>2. CASE Produced
  BY <1>2, AccountedProduced
<1>3. CASE Receive
  <2>1. /\ InFlight' = InFlight /\ UNCHANGED <<reader, up, ghost>>
        /\ inner'.producer = inner.producer /\ inner'.pending = inner.pending
    BY <1>3, ReceiveEffect, NumbersReceive
  <2> QED
    BY <2>1, AccountedSame DEF Traced
<1>4. CASE AppendWrite
  BY <1>4, AccountedAppendWrite
<1>5. CASE AppendSettles \/ Maintain
  BY <1>5, RetainsSteps, AccountedRetains
<1>6. CASE StartsUp
  BY <1>6, AccountedStartsUp
<1>7. CASE CompactRename \/ PersistRename
  <2>1. InFlight' = InFlight /\ UNCHANGED <<inner, reader, up, works, world, ghost>>
    BY <1>7, CompactRenameKnown, PersistRenameKnown
  <2> QED
    BY <2>1, AccountedSame DEF Traced
<1>8. CASE TimeoutGaps
  <2>1. /\ InFlight' = InFlight /\ UNCHANGED <<up, ghost>>
        /\ inner'.producer = inner.producer /\ reader'.events = reader.events
        /\ reader'.state.gaps = reader.state.gaps \cup inner.pending
    BY <1>8, TimeoutGapsKnown, TimeoutGapsEffect
  <2> QED
    BY <2>1, AccountedSame DEF Traced
<1>9. CASE Crash \/ Exit
  BY <1>9, EndKnown DEF Accounted
<1>10. CASE initialize
  <2>1. PICK journal \in Complete, saved \in StatesLeft : Starts(journal, saved)
    BY <1>10, InitializeEffect
  <2>2. inner'.producer = ghost'.booted
    BY <2>1 DEF Starts
  <2>3. ghost'.booted \in Nat
    BY <2>1, InitializeReader DEF Starts
  <2>4. \A n \in 1 .. inner'.producer : ~(n > ghost'.booted)
    BY <2>2, <2>3
  <2> QED
    BY <2>4 DEF Accounted
<1>11. CASE Expire
  BY <1>11, ExpireKnown DEF Accounted
<1> QED
  BY <1>1, <1>2, <1>3, <1>4, <1>5, <1>6, <1>7, <1>8, <1>9, <1>10, <1>11, NextCases

(* The queue is bounded.                                                   *)
LEMMA QueueKept ==
  ASSUME Shape, Phase, Len(inner.queue) <= QueueLimit, Numbers, Next
  PROVE  Len(inner'.queue) <= QueueLimit
<1>0. /\ Len(inner.queue) \in Nat /\ QueueLimit \in Nat /\ QueueLimit > 0
      /\ Len(<<>>) = 0
  BY ShapeParts, MessageEvents, HistoryAssumption, EmptySeq
<1>1. CASE inner'.queue = inner.queue
  BY <1>1
<1>2. CASE inner'.queue = <<>>
  BY <1>0, <1>2
<1>3. CASE Produced
  <2>1. CASE Drops \/ inner' = inner
    BY <1>1, <2>1, DropsShape
  <2>2. ASSUME NEW event \in Events, NEW ack \in BOOLEAN, Queued_(event, ack)
        PROVE  Len(inner'.queue) <= QueueLimit
    <3>1. Len(inner'.queue) = Len(inner.queue) + 1 /\ Len(inner.queue) < QueueLimit
      BY <2>2, QueuesShape DEF Queued_, Queues
    <3> QED
      BY <1>0, <3>1
  <2> QED
    BY <1>3, <2>1, <2>2 DEF Produced
<1>4. CASE Receive
  <2>1. Len(inner'.queue) <= Len(inner.queue) /\ Shape'
    BY <1>4, ReceiveEffect
  <2>2. Len(inner'.queue) \in Nat
    BY <2>1, LenProperties DEF Shape, Inners
  <2> QED
    BY <1>0, <2>1, <2>2
<1>5. CASE Quiet
  BY <1>1, <1>5 DEF Quiet
<1>6. CASE AppendWrite \/ CompactRename \/ PersistRename \/ Expire
  BY <1>1, <1>6, AppendWriteEffect, CompactRenameEffect, PersistRenameEffect, ExpireEffect
<1>7. CASE AppendSettles \/ Maintain
  BY <1>1, <1>7, RetainsSteps DEF Retains
<1>8. CASE TimeoutGaps
  BY <1>1, <1>8, TimeoutGapsEffect
<1>9. CASE StartsUp \/ Crash \/ Exit \/ initialize
  BY <1>2, <1>9, StartsUpEffect, EndKnown, InitializeEffect
<1> QED
  BY <1>3, <1>4, <1>5, <1>6, <1>7, <1>8, <1>9, NextCases

-----------------------------------------------------------------------------
(* The invariant.                                                          *)

LEMMA InitShape ==
  ASSUME Init
  PROVE  Shape /\ Phase /\ Len(inner.queue) <= QueueLimit
<1>1. /\ <<>> \in Seq(Messages) /\ Len(<<>>) = 0 /\ QueueLimit \in Nat
      /\ IsFiniteSet({})
  BY EmptySeq, HistoryAssumption, FS_EmptySet
<1>2. NewState \in States
  BY <1>1 DEF NewState, States, FiniteSets_
<1>3. /\ disk.journal \in Journals /\ disk.saved \in States
      /\ disk.old_journals = {} /\ disk.old_saved = {} /\ disk \in Disks
  <2>1. [lines |-> {}, torn |-> FALSE] \in Journals
    BY <1>1 DEF Journals, FiniteSets_
  <2> HIDE DEF NewState
  <2> QED
    BY <1>2, <2>1 DEF Init, Disks
<1>4. inner \in Inners /\ inner.queue = <<>>
  BY <1>1 DEF Init, Inners, FiniteSets_
<1>5. reader \in Readers
  <2> HIDE DEF NewState
  <2> QED
    BY <1>1, <1>2 DEF Init, Readers, FiniteSets_
<1>6. writer \in Writers /\ writer.pc = "none" /\ writer.cause = "none" /\ writer.batch = <<>>
  BY <1>1 DEF Init, Writers, Pcs, Causes
<1>7. works \in [Works -> WorkStates] /\ world \in Worlds /\ ghost \in Ghosts /\ up = "down"
  BY DEF Init, WorkStates, Worlds, Ghosts
<1>8. Shape
  BY <1>3, <1>4, <1>5, <1>6, <1>7 DEF Shape
<1>9. Phase
  BY <1>3, <1>4, <1>6, <1>7 DEF Phase, At
<1> QED
  BY <1>1, <1>4, <1>8, <1>9
LEMMA InitInv ==
  ASSUME Init
  PROVE  HistoryInv
<1>1. Shape /\ Phase /\ Len(inner.queue) <= QueueLimit
  BY InitShape
<1>2. /\ disk.journal.lines = {} /\ disk.saved = NewState /\ disk.cut = {}
      /\ disk.old_journals = {} /\ disk.old_saved = {}
      /\ inner.queue = <<>> /\ writer.batch = <<>> /\ writer.pc = "none" /\ writer.cause = "none"
      /\ reader.events = {} /\ reader.state = NewState /\ up = "down"
      /\ world.expired = 0 /\ ghost.committed = {} /\ ghost.acked = {}
  BY DEF Init
<1>3. DOMAIN inner.queue = {} /\ DOMAIN writer.batch = {}
  BY <1>2, EmptySeq
<1>4. /\ StatesLeft = {NewState} /\ Complete = {disk.journal} /\ InFlight = {}
      /\ BatchEvents = {} /\ Asked = {}
  BY <1>2, <1>3 DEF StatesLeft, Complete, InFlight, BatchEvents, Asked, At
<1>5. Known = {}
  BY <1>2, <1>4 DEF Known
<1>6. /\ NewState.next = 0 /\ NewState.earliest = 0
      /\ \A w \in Works : NewState.windows[w] = 0
  BY DEF NewState
<1>7. Numbers
  BY <1>2, <1>3, <1>4, <1>5, <1>6 DEF Numbers, Ordered, HeadBehindQueue
<1>8. Retention
  <2>1. Cardinality(reader.events) <= MaxEvents
    BY <1>2, FS_EmptySet, HistoryAssumption
  <2> QED
    BY <1>2, <1>4, <1>6, <2>1 DEF Retention
<1>9. Windows
  BY <1>1, <1>2, <1>4, <1>5, <1>6, ShapeParts DEF Windows
<1>10. Cover /\ Acknowledged /\ Accounted
  BY <1>2, <1>4 DEF Cover, Acknowledged, Accounted
<1> QED
  BY <1>1, <1>7, <1>8, <1>9, <1>10 DEF HistoryInv

(* The shape of the state and the writer's phases, by the steps.           *)
LEMMA ShapeKept ==
  ASSUME Shape, Phase, Numbers, Next
  PROVE  Shape' /\ Phase'
<1>1. CASE AppendSettles \/ Maintain
  BY <1>1, RetainsSteps
<1> QED
  BY <1>1, NextCases, ProducedShape, ReceiveEffect, AppendWriteEffect, StartsUpEffect,
     CompactRenameEffect, PersistRenameEffect, TimeoutGapsEffect, EndEffect,
     InitializeEffect, ExpireEffect

(* Nothing of it depends on anything but the variables.                    *)
LEMMA InvStutters ==
  ASSUME HistoryInv, UNCHANGED vars
  PROVE  HistoryInv'
<1>1. UNCHANGED <<disk, inner, reader, writer, up, works, world, ghost>>
  BY DEF vars
<1>2. /\ InFlight' = InFlight /\ Known' = Known /\ Complete' = Complete
      /\ StatesLeft' = StatesLeft /\ BatchEvents' = BatchEvents /\ Asked' = Asked
  BY <1>1, SameKnown
<1>3. Shape' /\ Phase' /\ Len(inner'.queue) <= QueueLimit
  BY <1>1 DEF HistoryInv, Shape, Phase, At
<1>4. Numbers'
  BY <1>1, <1>2 DEF HistoryInv, Numbers, HeadBehindQueue, At
<1>5. Retention' /\ Windows' /\ Cover'
  BY <1>1, <1>2 DEF HistoryInv, Retention, Windows, Cover, At
<1>6. Acknowledged'
  BY <1>1, <1>2 DEF HistoryInv, Acknowledged, Recorded, Excused
<1>7. Accounted'
  BY <1>1, <1>2 DEF HistoryInv, Accounted
<1> QED
  BY <1>3, <1>4, <1>5, <1>6, <1>7 DEF HistoryInv

(* What a crash leaves holds the lines of a file that is there, and        *)
(* perhaps of those of an append that is under way.                        *)
LEMMA JournalLeft ==
  ASSUME Shape, NEW journal \in JournalsLeft
  PROVE  /\ journal \in Journals
         /\ \E j \in Complete : j.lines \subseteq journal.lines
<1>1. disk.journal \in Complete /\ Complete \subseteq Journals
  BY DiskParts DEF Complete
<1>2. journal \in Complete \/ journal \in Partial
  BY DEF JournalsLeft, Complete
<1> QED
  BY <1>1, <1>2, PartialLines

(* The durable history: HistoryInv holds in every reachable state.         *)
THEOREM HistoryInvariant == Spec => []HistoryInv
<1>1. Init => HistoryInv
  BY InitInv
<1>2. HistoryInv /\ [Next]_vars => HistoryInv'
  <2> SUFFICES ASSUME HistoryInv, Next PROVE HistoryInv'
    BY InvStutters
  <2>1. /\ Shape /\ Phase /\ Len(inner.queue) <= QueueLimit /\ Numbers /\ Retention
        /\ Windows /\ Cover /\ Acknowledged /\ Accounted
    BY DEF HistoryInv
  <2>2. Shape' /\ Phase'
    BY <2>1, ShapeKept
  <2>3. Numbers'
    BY <2>1, NumbersKeptByNext
  <2>4. Retention'
    BY <2>1, RetentionKept
  <2>5. Windows'
    BY <2>1, <2>3, WindowsKept
  <2>6. Cover'
    BY <2>1, CoverKept
  <2>7. Acknowledged'
    BY <2>1, AcknowledgedKept
  <2>8. Accounted'
    BY <2>1, AccountedKept
  <2>9. Len(inner'.queue) <= QueueLimit
    BY <2>1, QueueKept
  <2> QED
    BY <2>2, <2>3, <2>4, <2>5, <2>6, <2>7, <2>8, <2>9 DEF HistoryInv
<1> QED
  BY <1>1, <1>2, PTL DEF Spec

(* enqueue and Writer::run: every number given out belongs to an event on  *)
(* its way or readable, or is reported, and the head passes none that is   *)
(* still to be written.                                                    *)
THEOREM NumbersAreKept == Spec => []NumbersKept
<1>1. HistoryInv => NumbersKept
  <2> SUFFICES ASSUME HistoryInv PROVE NumbersKept
    OBVIOUS
  <2>1. /\ Shape /\ Len(inner.queue) <= QueueLimit /\ Numbers /\ Retention /\ Accounted
    BY DEF HistoryInv
  <2>2. HistoryTypeOK
    <3>1. writer.pc \in Pcs /\ writer.cause \in Causes
      BY <2>1, ShapeParts
    <3>2. up \in {"down", "starting", "running", "finished"}
      BY <2>1 DEF Shape
    <3>3. At("idle") => Cardinality(reader.events) <= MaxEvents
      BY <2>1 DEF Retention, At
    <3>4. reader.state.next <= inner.producer \/ up = "down"
      BY <2>1 DEF Numbers
    <3> QED
      BY <2>1, <3>1, <3>2, <3>3, <3>4 DEF HistoryTypeOK, Pcs, Causes
  <2>3. HeadBehindQueue /\ NothingVanishes
    BY <2>1 DEF Numbers, Accounted, NothingVanishes, Running
  <2> QED
    BY <2>2, <2>3 DEF NumbersKept
<1> QED
  BY <1>1, HistoryInvariant, PTL

(* initialize: a number never names two events, of those a state file has  *)
(* described, those that can be read and those on their way, whichever     *)
(* files a crash and a directory that was not synced have left.            *)
THEOREM NumbersStayUnique == Spec => []NumbersAreUnique
<1>1. HistoryInv => NumbersAreUnique
  BY KnownParts DEF HistoryInv, Numbers, NumbersAreUnique
<1> QED
  BY <1>1, HistoryInvariant, PTL

(* critical: a confirmed event is replayed from whatever files a crash can *)
(* leave at any moment, unless retention has removed it or it stands       *)
(* behind a failed append that could not be taken back.                    *)
THEOREM ConfirmedSurvives == Spec => []AckedSurvives
<1>1. HistoryInv => AckedSurvives
  <2> SUFFICES ASSUME HistoryInv, NEW j \in JournalsLeft, NEW s \in StatesLeft,
                      NEW e \in ghost.acked, e \notin Excused
               PROVE  e \in Replay(j, s).events
    BY DEF AckedSurvives, Excused
  <2>1. Shape /\ Acknowledged
    BY DEF HistoryInv
  <2>2. e.kind # "output" /\ (\A k \in Complete : e \in k.lines) /\ s.earliest < e.seq
    BY <2>1 DEF Acknowledged, Recorded
  <2>3. j \in Journals /\ \E k \in Complete : k.lines \subseteq j.lines
    BY <2>1, JournalLeft
  <2>4. e \in j.lines /\ e \in Events /\ e.seq \in Nat
    BY <2>2, <2>3, EventFields DEF Journals, FiniteSets_
  <2>5. s \in States /\ s.earliest \in Nat
    BY <2>1, KnownParts
  <2>6. ~Retired(e, s)
    BY <2>2, <2>4, <2>5 DEF Retired
  <2> QED
    BY <2>3, <2>4, <2>5, <2>6, ReplayState
<1> QED
  BY <1>1, HistoryInvariant, PTL
-----------------------------------------------------------------------------
(* Pages.                                                                  *)

(* A page shows what is after its cursor and not after its last event, and *)
(* the last is an event of the page as soon as there is one to show.       *)
LEMMA PageShown ==
  ASSUME NEW E \in FiniteSets_(Events), NEW after \in Nat, NEW limit \in Nat, limit > 0
  PROVE  LET later == {e \in E : e.seq > after}
             shown == {e \in later : Cardinality({f \in later : f.seq < e.seq}) < limit}
             last  == Max({after} \cup Seqs(shown))
         IN /\ last \in Nat /\ after <= last
            /\ last = after \/ \E g \in shown : last = g.seq
            /\ \A e \in later : e.seq <= last => e \in shown
            /\ later # {} => after < last
<1> DEFINE later == {e \in E : e.seq > after}
           below(e) == {f \in later : f.seq < e.seq}
           shown == {e \in later : Cardinality(below(e)) < limit}
           N == {after} \cup Seqs(shown)
           last == Max(N)
<1>1. later \in SUBSET E /\ shown \in SUBSET E /\ \A e \in E : e \in Events /\ e.seq \in Nat
  BY EventFields DEF FiniteSets_
<1>2. later \in FiniteSets_(Events) /\ shown \in FiniteSets_(Events) /\ IsFiniteSet(later)
  <2> HIDE DEF later, shown
  <2> QED BY <1>1, PartFinite
<1>3. N \in SUBSET Nat /\ IsFiniteSet(N) /\ N # {}
  <2> HIDE DEF shown
  <2>1. Seqs(shown) \in FiniteSets_(Nat)
    BY <1>2, SeqsFinite DEF FiniteSets_
  <2>2. {after} \in FiniteSets_(Nat)
    BY FS_Singleton DEF FiniteSets_
  <2>3. N \in FiniteSets_(Nat)
    BY <2>1, <2>2, UnionFinite
  <2> QED
    BY <2>3 DEF FiniteSets_
<1>4. last \in N /\ \A n \in N : n <= last
  <2> HIDE DEF N
  <2> QED BY <1>3, MaxOf
<1>5. after \in N /\ \A e \in shown : e.seq \in N
  BY DEF Seqs
<1>6. last = after \/ \E g \in shown : last = g.seq
  <2> HIDE DEF last, shown
  <2> QED BY <1>4 DEF Seqs
<1>7. last \in Nat /\ after <= last
  <2> HIDE DEF N
  <2> QED BY <1>3, <1>4, <1>5
<1> HIDE DEF last, N
<1>8. \A e \in later : below(e) \subseteq later /\ IsFiniteSet(below(e))
                         /\ Cardinality(below(e)) \in Nat
  <2> SUFFICES ASSUME NEW e \in later
               PROVE  below(e) \subseteq later /\ IsFiniteSet(below(e))
                        /\ Cardinality(below(e)) \in Nat
    OBVIOUS
  <2>1. below(e) \in SUBSET later
    OBVIOUS
  <2> HIDE DEF below, later
  <2> QED BY <1>2, <2>1, FS_Subset, FS_CardinalityType
<1>9. ASSUME NEW e \in later, e.seq <= last PROVE e \in shown
  <2>1. last # after
    <3>1. e.seq > after /\ e.seq \in Nat
      BY <1>1
    <3> QED
      BY <1>7, <1>9, <3>1
  <2>2. PICK g \in shown : last = g.seq
    BY <1>6, <2>1
  <2>3. below(e) \subseteq below(g)
    <3>1. \A f \in later : f.seq < e.seq => f.seq < g.seq
      BY <1>1, <1>9, <2>2
    <3> QED
      BY <3>1
  <2>4. Cardinality(below(g)) < limit /\ g \in later
    OBVIOUS
  <2>5. Cardinality(below(e)) <= Cardinality(below(g))
    <3>1. below(e) \in SUBSET below(g) /\ IsFiniteSet(below(g))
      BY <1>8, <2>3, <2>4
    <3> HIDE DEF below
    <3> QED BY <3>1, FS_Subset
  <2>6. Cardinality(below(e)) \in Nat /\ Cardinality(below(g)) \in Nat
    BY <1>8, <2>4
  <2>7. Cardinality(below(e)) < limit
    <3> HIDE DEF below
    <3> QED BY <2>4, <2>5, <2>6
  <2> QED
    BY <2>7
<1>10. ASSUME later # {} PROVE after < last
  <2>1. Seqs(later) \in SUBSET Nat /\ Seqs(later) # {}
    BY <1>1, <1>10 DEF Seqs
  <2>2. Min(Seqs(later)) \in Seqs(later) /\ \A y \in Seqs(later) : Min(Seqs(later)) <= y
    <3> HIDE DEF later
    <3> QED BY <2>1, MinOf
  <2>3. PICK m \in later : m.seq = Min(Seqs(later))
    BY <2>2 DEF Seqs
  <2>4. \A f \in later : ~(f.seq < m.seq)
    <3>1. \A f \in later : f.seq \in Nat /\ m.seq <= f.seq
      BY <1>1, <2>2, <2>3 DEF Seqs
    <3> QED
      BY <3>1, <1>1
  <2>5. below(m) = {}
    BY <2>4
  <2>6. Cardinality(below(m)) = 0
    BY <2>5, FS_EmptySet
  <2>7. m \in shown
    BY <2>6
  <2>8. m.seq <= last /\ m.seq > after /\ m.seq \in Nat
    BY <1>1, <1>4, <1>5, <2>7
  <2> QED
    BY <1>7, <2>8
<1> QED
  BY <1>6, <1>7, <1>9, <1>10 DEF last, N

(* page, for any positive limit: no event that can be read is skipped, the *)
(* cursor does not pass an event on its way, and it moves on while the     *)
(* head is ahead.                                                          *)
LEMMA PageIsRight ==
  ASSUME Shape, Numbers, up # "down", NEW after \in Nat, NEW limit \in Nat, limit > 0
  PROVE  LET p == page(after, limit) IN
         /\ \A e \in reader.events : after < e.seq /\ e.seq <= p.next_cursor => e \in p.events
         /\ \A e \in InFlight : e.seq > after => e.seq > p.next_cursor
         /\ after < reader.state.next => after < p.next_cursor
         /\ p.next_cursor \in Nat
         /\ p.next_cursor <= after \/ p.next_cursor <= reader.state.next
<1> DEFINE later == {e \in reader.events : e.seq > after}
           shown == {e \in later : Cardinality({f \in later : f.seq < e.seq}) < limit}
           last == Max({after} \cup Seqs(shown))
           passes == Cardinality(shown) < limit /\ \A e \in later : e.seq <= last
           cursor == IF passes THEN Max({last, reader.state.next}) ELSE last
           p == page(after, limit)
<1>1. p.events = shown /\ p.next_cursor = cursor
  BY DEF page
<1>2. /\ reader.events \in FiniteSets_(Events) /\ reader.state.next \in Nat
      /\ \A e \in reader.events \cup InFlight : e.seq \in Nat
  BY ReaderParts, KnownParts DEF Shape
<1>3. /\ last \in Nat /\ after <= last
      /\ last = after \/ \E g \in shown : last = g.seq
      /\ \A e \in later : e.seq <= last => e \in shown
      /\ later # {} => after < last
  BY <1>2, PageShown
<1>4. later \subseteq reader.events /\ shown \subseteq later
  OBVIOUS
<1>5. later = {} => Cardinality(shown) = 0
  <2>1. later = {} => shown = {}
    OBVIOUS
  <2> HIDE DEF shown, later
  <2> QED BY <2>1, FS_EmptySet
<1>6. \A e \in reader.events : e.seq > after => e \in later
  OBVIOUS
<1> HIDE DEF shown, later, last, p
<1>7. Max({last, reader.state.next}) \in {last, reader.state.next}
        /\ last <= Max({last, reader.state.next})
        /\ reader.state.next <= Max({last, reader.state.next})
  <2> DEFINE N == {last, reader.state.next}
  <2>1. N \in SUBSET Nat /\ N # {} /\ IsFiniteSet(N)
    <3>1. IsFiniteSet({last}) /\ \A x : IsFiniteSet({last} \cup {x})
      BY FS_Singleton, FS_AddElement
    <3>2. N = {last} \cup {reader.state.next}
      OBVIOUS
    <3> QED
      BY <1>2, <1>3, <3>1, <3>2
  <2>2. Max(N) \in N /\ \A n \in N : n <= Max(N)
    <3> HIDE DEF N
    <3> QED BY <2>1, MaxOf
  <2> QED
    BY <2>2
<1>8. /\ cursor \in Nat /\ last <= cursor
      /\ cursor = last \/ (cursor = reader.state.next /\ \A e \in later : e.seq <= last)
  BY <1>2, <1>3, <1>7
<1>9. after < reader.state.next => after < cursor
  <2>1. CASE later # {}
    BY <1>3, <1>8, <2>1
  <2>2. CASE later = {}
    <3>1. passes
      BY <1>5, <2>2
    <3>2. cursor \in Nat /\ reader.state.next <= cursor
      BY <1>7, <1>8, <3>1
    <3> HIDE DEF cursor
    <3> QED
      BY <1>2, <3>2
  <2> QED
    BY <2>1, <2>2
<1> HIDE DEF cursor
<1>10. ASSUME NEW e \in reader.events, after < e.seq, e.seq <= cursor
       PROVE  e \in shown
  <2>1. e \in later
    BY <1>2, <1>6, <1>10
  <2>2. e.seq <= last
    BY <1>8, <1>10, <2>1
  <2> QED
    BY <1>3, <2>1, <2>2
<1>11. ASSUME NEW e \in InFlight, e.seq > after
       PROVE  e.seq > cursor
  <2>1. e.seq > reader.state.next
    BY DEF Numbers, HeadBehindQueue
  <2>2. \A g \in shown : g.seq <= reader.state.next /\ g.seq \in Nat
    BY <1>2, <1>4 DEF Numbers
  <2>3. e.seq > last
    BY <1>2, <1>3, <1>11, <2>1, <2>2
  <2> QED
    BY <1>8, <2>1, <2>3
<1>12. cursor <= after \/ cursor <= reader.state.next
  <2>1. \A g \in shown : g.seq <= reader.state.next /\ g.seq \in Nat
    BY <1>2, <1>4 DEF Numbers
  <2>2. CASE cursor = last
    BY <1>2, <1>3, <2>1, <2>2
  <2>3. CASE cursor = reader.state.next
    BY <1>2, <2>3
  <2> QED
    BY <1>8, <2>2, <2>3
<1>13. /\ \A e \in reader.events : after < e.seq /\ e.seq <= p.next_cursor => e \in p.events
       /\ \A e \in InFlight : e.seq > after => e.seq > p.next_cursor
       /\ after < reader.state.next => after < p.next_cursor
       /\ p.next_cursor \in Nat
       /\ p.next_cursor <= after \/ p.next_cursor <= reader.state.next
  BY <1>1, <1>8, <1>9, <1>10, <1>11, <1>12
<1> QED
  BY <1>13 DEF p

(* page, whatever the size of the pages: a collector that goes on from     *)
(* next_cursor is shown every event that can be read and gets on while the *)
(* head is ahead, and no number is passed without an event or a gap.       *)
THEOREM PagesSkipNothing == Spec => []PageSkipsNothing
<1>1. HistoryInv => PageSkipsNothing
  <2> SUFFICES ASSUME HistoryInv, up = "running", NEW after \in 0 .. inner.producer,
                      NEW limit \in 1 .. MaxPage
               PROVE  LET p == page(after, limit) IN
                      /\ \A e \in reader.events :
                           after < e.seq /\ e.seq <= p.next_cursor => e \in p.events
                      /\ \A e \in InFlight : e.seq > after => e.seq > p.next_cursor
                      /\ after < reader.state.next => after < p.next_cursor
                      /\ \A n \in after + 1 .. p.next_cursor :
                           n > ghost.booted =>
                             n \in Seqs(p.events) \cup reader.state.gaps \cup inner.pending
    BY DEF PageSkipsNothing, Running
  <2> DEFINE p == page(after, limit)
  <2>1. Shape /\ Numbers /\ Accounted
    BY DEF HistoryInv
  <2>2. after \in Nat /\ limit \in Nat /\ limit > 0 /\ inner.producer \in Nat
    BY <2>1, ShapeParts, HistoryAssumption
  <2>3. /\ \A e \in reader.events : after < e.seq /\ e.seq <= p.next_cursor => e \in p.events
        /\ \A e \in InFlight : e.seq > after => e.seq > p.next_cursor
        /\ after < reader.state.next => after < p.next_cursor
        /\ p.next_cursor \in Nat
        /\ p.next_cursor <= after \/ p.next_cursor <= reader.state.next
    BY <2>1, <2>2, PageIsRight
  <2> HIDE DEF p
  <2>4. ASSUME NEW n \in after + 1 .. p.next_cursor, n > ghost.booted
        PROVE  n \in Seqs(p.events) \cup reader.state.gaps \cup inner.pending
    <3>1. reader.state.next <= inner.producer /\ reader.state.next \in Nat
      BY <2>1, KnownParts DEF Numbers
    <3>2. n \in 1 .. inner.producer /\ after < n /\ n <= p.next_cursor
      BY <2>2, <2>3, <3>1
    <3>3. \/ \E e \in InFlight \cup reader.events : e.seq = n
          \/ n \in reader.state.gaps \cup inner.pending
      BY <2>1, <2>4, <3>2, AccountedBy DEF Traced
    <3>4. ASSUME NEW e \in InFlight \cup reader.events, e.seq = n PROVE n \in Seqs(p.events)
      <4>1. e \notin InFlight
        BY <2>2, <2>3, <3>2, <3>4
      <4>2. e \in p.events
        BY <2>3, <3>2, <3>4, <4>1
      <4> QED
        BY <3>4, <4>2 DEF Seqs
    <3> QED
      BY <3>3, <3>4
  <2> QED
    BY <2>3, <2>4 DEF p
<1> QED
  BY <1>1, HistoryInvariant, PTL

=============================================================================
