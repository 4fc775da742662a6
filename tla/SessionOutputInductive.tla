----------------------- MODULE SessionOutputInductive -----------------------
(***************************************************************************)
(* The inductive invariant of SessionOutput, from which OutputProofs       *)
(* derives that a ring says exactly what it lost and that no cut of the    *)
(* bytes into reads changes the text.                                      *)
(***************************************************************************)
EXTENDS SessionOutput

Chars == {"one", "two", "three", Replacement}
Texts == Seq(Chars)
TextChunks == [seq : Nat, text : Texts]

RingShape ==
  /\ ring \in [chunks : Seq(TextChunks), bytes : Nat, next_seq : Nat, truncated_seq : Int]
  /\ pushed \in Seq(Texts \ {<<>>})

(* The chunks of the ring have the last numbers that were given.           *)
Consecutive ==
  /\ ring.next_seq = Len(pushed)
  /\ \A i \in DOMAIN ring.chunks :
       ring.chunks[i].seq = ring.next_seq - 1 - Len(ring.chunks) + i

(* Both limits.                                                            *)
Bounded ==
  /\ ring.bytes = SizeOf(Retained) /\ ring.bytes <= MaxBytes
  /\ Len(ring.chunks) <= MaxChunks

(* Of the chunks that lost their beginning only the last is known; those   *)
(* behind it are as they were pushed.                                      *)
Truncations ==
  /\ ring.truncated_seq \in -1 .. ring.next_seq - 1
  /\ \A c \in Retained :
       /\ c.seq > ring.truncated_seq => c.text = pushed[c.seq + 1]
       /\ c.seq = ring.truncated_seq => c.text # pushed[c.seq + 1]

RingInv == RingShape /\ Consecutive /\ Bounded /\ Truncations

Reading == {"read", "notify_read"}

(* What was pushed and what waits are what one reading of the whole output *)
(* would give.                                                             *)
DecodeInv ==
  /\ input \in Seq(Bytes)
  /\ sup \in Reading \cup {"finish", "notify_finish", "over", "notify_over"}
  /\ LET d == Decoded(input)
     IN IF sup \in Reading
        THEN pending = d.pending /\ FlattenSeq(pushed) = d.text
        ELSE pending = <<>> /\ FlattenSeq(pushed) = d.text \o Rest(d.pending)

OutputInv == RingInv /\ DecodeInv
=============================================================================
