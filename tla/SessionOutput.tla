--------------------------- MODULE SessionOutput ----------------------------
(***************************************************************************)
(* The output of one session: bytes of the terminal go through a streaming *)
(* UTF-8 decoder into a bounded ring of chunks (src/src/session/output.rs) *)
(* from which clients read with a cursor, waiting for more                 *)
(* (src/src/session.rs).                                                   *)
(*                                                                         *)
(* A byte is an ASCII character ("A"), the first of a character of two or  *)
(* three bytes ("L2", "L3") or a continuation ("C"); a character is known  *)
(* by its width.                                                           *)
(***************************************************************************)
EXTENDS Integers, Sequences, FiniteSets, SequencesExt

CONSTANTS
  MaxBytes,     \* output_max_bytes: what the ring may hold.
  MaxChunks,    \* Chunks the ring may hold (4096).
  MaxInput      \* Bound: bytes the session prints.

ASSUME OutputAssumption == {MaxBytes, MaxChunks} \subseteq Nat \ {0} /\ MaxInput \in Nat

VARIABLES
  input,        \* Every byte read so far.
  pending,      \* Utf8StreamDecoder::pending.
  ring,         \* OutputBuffer.
  pushed,       \* The texts that were pushed.
  sup,          \* The point the supervisor has reached.
  ended,        \* The session is in a terminal state.
  reader        \* A client's read_output.

vars == <<input, pending, ring, pushed, sup, ended, reader>>

Bytes == {"A", "L2", "L3", "C"}
Replacement == "fffd"
CharOf == [A |-> "one", L2 |-> "two", L3 |-> "three"]
Width(c) == CASE c = "one" -> 1 [] c = "two" -> 2 [] OTHER -> 3

(* The bytes of a text, one by one: the place of its character and which   *)
(* of that character's bytes it is.                                        *)
BytesIn(text) == {p \in (DOMAIN text) \X (1 .. 3) : p[2] <= Width(text[p[1]])}
Size(text) == Cardinality(BytesIn(text))
SizeOf(chunks) == Cardinality(UNION {{c} \X BytesIn(c.text) : c \in chunks})

Least(S) == CHOOSE n \in S : \A m \in S : n <= m
Suffix(s, n) == SubSeq(s, n + 1, Len(s))

-----------------------------------------------------------------------------
(* Utf8StreamDecoder.                                                      *)

Need(b) == CASE b = "A" -> 1 [] b = "L2" -> 2 [] b = "L3" -> 3 [] b = "C" -> 0

(* The place behind the byte at i and the continuations that belong to it. *)
Behind(bytes, i) ==
  Least({j \in i + 1 .. Len(bytes) + 1 :
           j >= i + Need(bytes[i]) \/ j = Len(bytes) + 1 \/ bytes[j] # "C"})

(* What from_utf8 takes for a beginning whose other bytes may yet come.    *)
Waits(bytes, i) ==
  Behind(bytes, i) = Len(bytes) + 1 /\ Len(bytes) + 1 < i + Need(bytes[i])

CharAt(bytes, i) ==
  IF Behind(bytes, i) = i + Need(bytes[i]) THEN CharOf[bytes[i]] ELSE Replacement

(* push: whole characters and replacements for what can be none; a         *)
(* beginning of a character waits for the bytes to come.                   *)
Decoding(bytes) ==
  LET from[i \in 1 .. Len(bytes) + 1] ==
        IF i > Len(bytes) \/ Waits(bytes, i)
        THEN [text |-> <<>>, pending |-> SubSeq(bytes, i, Len(bytes))]
        ELSE LET rest == from[Behind(bytes, i)]
             IN [rest EXCEPT !.text = <<CharAt(bytes, i)>> \o @]
  IN from

Decoded(bytes) == Decoding(bytes)[1]

(* finish: what still waits is one replacement.                            *)
Rest(bytes) == IF bytes = <<>> THEN <<>> ELSE <<Replacement>>

Mut_decode(bytes) ==
  LET d == Decoded(pending \o bytes) IN [text |-> d.text \o Rest(d.pending), pending |-> <<>>]

decode(bytes) == Decoded(pending \o bytes)

-----------------------------------------------------------------------------
(* OutputBuffer.                                                           *)

(* The end of a text that is larger than the ring, from a boundary on.     *)
Clipped(text) ==
  Suffix(text, Least({n \in 0 .. Len(text) : Size(Suffix(text, n)) <= MaxBytes}))

(* push: the oldest chunks go while there are too many bytes or chunks.    *)
push(text) ==
  LET kept == Clipped(text)
      all == Append(ring.chunks, [seq |-> ring.next_seq, text |-> kept])
      bytes == ring.bytes + Size(kept)
      left(n) == bytes - SizeOf({all[i] : i \in 1 .. n})
      evicted == Least({n \in 0 .. Len(all) :
                          /\ left(n) <= MaxBytes \/ n = Len(all)
                          /\ Len(all) - n <= MaxChunks})
  IN [chunks |-> Suffix(all, evicted),
      bytes |-> left(evicted),
      next_seq |-> ring.next_seq + 1,
      truncated_seq |-> IF kept # text THEN ring.next_seq ELSE ring.truncated_seq]

Retained == {ring.chunks[i] : i \in DOMAIN ring.chunks}
FirstSeq == IF ring.chunks = <<>> THEN ring.next_seq ELSE ring.chunks[1].seq

Mut_since(cursor) ==
  [cursor |-> ring.next_seq,
   chunks |-> {c \in Retained : c.seq >= cursor},
   overrun |-> cursor < FirstSeq]

(* The chunks of an answer are in the order of their numbers.              *)
since(cursor) ==
  [cursor |-> ring.next_seq,
   chunks |-> {c \in Retained : c.seq >= cursor},
   overrun |-> cursor < FirstSeq \/ cursor <= ring.truncated_seq]

-----------------------------------------------------------------------------
Init ==
  /\ input = <<>> /\ pending = <<>> /\ pushed = <<>>
  /\ ring = [chunks |-> <<>>, bytes |-> 0, next_seq |-> 0, truncated_seq |-> -1]
  /\ sup = "read" /\ ended = FALSE
  /\ reader = [pc |-> "idle", cursor |-> 0, woken |-> FALSE]

(* Where the supervisor is while it notifies, by where it goes from there. *)
Notifying == [read |-> "notify_read", finish |-> "notify_finish", over |-> "notify_over"]

(* Session::push_output: an empty text leaves everything as it is.         *)
push_output(text, next) ==
  \/ text = <<>> /\ sup' = next /\ UNCHANGED <<ring, pushed>>
  \/ /\ text # <<>>
     /\ ring' = push(text)
     /\ pushed' = Append(pushed, text)
     /\ sup' = Notifying[next]

(* The supervisor reads what the terminal has.                             *)
ReadTerminal ==
  /\ sup = "read"
  /\ \E n \in 1 .. MaxInput - Len(input) : \E bytes \in [1 .. n -> Bytes] :
       /\ input' = input \o bytes
       /\ pending' = decode(bytes).pending
       /\ push_output(decode(bytes).text, "read")
  /\ UNCHANGED <<ended, reader>>

(* The stream is sealed: the rest is pushed, then the end published.       *)
SealOutput ==
  /\ sup = "read"
  /\ pending' = <<>>
  /\ push_output(Rest(pending), "finish")
  /\ UNCHANGED <<input, ended, reader>>

Finish ==
  /\ sup = "finish"
  /\ ended' = TRUE
  /\ sup' = Notifying["over"]
  /\ UNCHANGED <<input, pending, ring, pushed, reader>>

Mut_Listening == reader.pc = "waiting"

(* A reader listens from before it looks, not from when it begins to wait. *)
Listening == reader.pc \in {"armed", "looked", "waiting"}

(* notify_waiters comes after the lock was released.                       *)
Notify ==
  /\ \E next \in DOMAIN Notifying : sup = Notifying[next] /\ sup' = next
  /\ reader' = [reader EXCEPT !.woken = @ \/ Listening]
  /\ UNCHANGED <<input, pending, ring, pushed, ended>>

-----------------------------------------------------------------------------
(* read_output, again and again from where the last one ended.             *)

ReaderFrame == UNCHANGED <<input, pending, ring, pushed, sup, ended>>

ReaderArms ==
  /\ reader.pc = "idle" \/ (reader.pc = "waiting" /\ reader.woken)
  /\ reader' = [reader EXCEPT !.pc = "armed", !.woken = FALSE]
  /\ ReaderFrame

HasNews == since(reader.cursor).chunks # {} \/ ended

ReaderLooks ==
  /\ reader.pc = "armed"
  /\ reader' = IF HasNews THEN [reader EXCEPT !.pc = "idle", !.cursor = ring.next_seq]
               ELSE [reader EXCEPT !.pc = "looked"]
  /\ ReaderFrame

ReaderWaits ==
  /\ reader.pc = "looked"
  /\ reader' = [reader EXCEPT !.pc = "waiting"]
  /\ ReaderFrame

(* The deadline passes, and one more look is returned whatever it shows.   *)
ReaderTimesOut ==
  /\ reader.pc = "waiting"
  /\ reader' = [reader EXCEPT !.pc = "idle", !.cursor = ring.next_seq]
  /\ ReaderFrame

Read == ReaderArms \/ ReaderLooks \/ ReaderWaits

Next ==
  \/ ReadTerminal \/ SealOutput \/ Finish \/ Notify
  \/ Read \/ ReaderTimesOut

(* Tasks run; Vivado need not print or end, and no timeout need pass.      *)
OutputFairness ==
  /\ WF_vars(Finish) /\ WF_vars(Notify)
  /\ WF_vars(ReaderLooks) /\ WF_vars(ReaderWaits)
  /\ WF_vars(reader.pc = "waiting" /\ ReaderArms)

Spec == Init /\ [][Next]_vars /\ OutputFairness

-----------------------------------------------------------------------------
(* Properties.                                                             *)

(* OutputBuffer::push: the counters of the ring agree with its chunks,     *)
(* which stay within both limits.                                          *)
RingAgrees ==
  /\ ring.bytes = SizeOf(Retained) /\ ring.bytes <= MaxBytes
  /\ Len(ring.chunks) <= MaxChunks
  /\ ring.next_seq = Len(pushed)
  /\ \A i \in DOMAIN ring.chunks :
       ring.chunks[i].seq = ring.next_seq - 1 - Len(ring.chunks) + i
  /\ pending \in Seq(Bytes) /\ Len(pending) <= 2

(* Where a character, or what cannot be one, begins.                       *)
Starts(bytes) ==
  {i \in DOMAIN bytes :
     ~ \E j \in DOMAIN bytes : /\ j < i /\ i - j < Need(bytes[j])
                               /\ \A k \in j + 1 .. i : bytes[k] = "C"}

Whole(bytes, i) ==
  /\ Need(bytes[i]) > 0 /\ i + Need(bytes[i]) - 1 <= Len(bytes)
  /\ \A k \in i + 1 .. i + Need(bytes[i]) - 1 : bytes[k] = "C"

(* The text of bytes that are decoded all at once.                         *)
IsLossy(text, bytes) ==
  /\ Len(text) = Cardinality(Starts(bytes))
  /\ \A i \in Starts(bytes) :
       text[Cardinality({j \in Starts(bytes) : j <= i})] =
         IF Whole(bytes, i) THEN CharOf[bytes[i]] ELSE Replacement

(* Utf8StreamDecoder: however the output is cut into reads, the text is    *)
(* that of the whole output, no character lost, split or doubled.          *)
DecodesAll == IsLossy(FlattenSeq(pushed) \o Rest(pending), input)

(* since: a client that is told of no overrun has got everything from its  *)
(* cursor on, and one that is told has lost something.                     *)
OverrunIsExact ==
  \A cursor \in 0 .. ring.next_seq :
    LET r == since(cursor) IN
    r.overrun <=> r.chunks # {[seq |-> n, text |-> pushed[n + 1]] :
                                n \in cursor .. ring.next_seq - 1}

(* OutputBuffer: the ring stays within its limits and every loss that this *)
(* causes is reported to those, and only those, whom it concerns.          *)
RingIsExact == RingAgrees /\ OverrunIsExact

(* read_output: a reader that waits gets what is new without its timeout:  *)
(* no notification falls between its look and its wait.                    *)
ReaderReturns ==
  reader.pc \in {"looked", "waiting"} /\ HasNews ~> reader.pc = "idle"
=============================================================================
