----------------------------- MODULE RingBuffer -----------------------------
(***************************************************************************)
(* The ring buffer that keeps the tail of ffmpeg's stderr                  *)
(* (stream/ringbuf.go).  r.mu makes Write and Snapshot atomic.             *)
(***************************************************************************)
EXTENDS Integers, Sequences

CONSTANTS
  Size,      \* capacity: 8192 in the code
  Bytes,     \* the byte values written
  MaxWrite   \* bound: longest write

ASSUME SizeAssumption == Size \in Nat \ {0} /\ MaxWrite \in Nat

VARIABLES
  buf,    \* the array, indexed from 0
  full,   \* the array has been filled once
  head,   \* next write position
  last    \* history variable: the last Size bytes written, oldest first

vars == <<buf, full, head, last>>

Zero == 0   \* what make([]byte, n) fills the array with

Init ==
  /\ buf = [i \in 0..Size-1 |-> Zero]
  /\ full = FALSE /\ head = 0
  /\ last = <<>>

\* copy(b[at:], q)
Copy(b, at, q) ==
  [i \in DOMAIN b |-> IF i \in at..at+Len(q)-1 THEN q[i-at+1] ELSE b[i]]

LastN(s) == IF Len(s) <= Size THEN s ELSE SubSeq(s, Len(s)-Size+1, Len(s))

\* The array after a write of fewer than Size bytes, in one or two pieces.
Put(p) ==
  LET k == Size - head
  IN  IF head + Len(p) <= Size THEN Copy(buf, head, p)
      ELSE Copy(Copy(buf, head, SubSeq(p, 1, k)), 0, SubSeq(p, k+1, Len(p)))

\* Mutant: an exact fit does not mark the buffer full.
ExactFitNotFull(p) ==
  LET h == head + Len(p)
  IN  /\ buf' = Put(p)
      /\ head' = IF h >= Size THEN h - Size ELSE h
      /\ full' = (full \/ h > Size)

Advance(p) ==
  LET h == head + Len(p)
  IN  /\ buf' = Put(p)
      /\ head' = IF h >= Size THEN h - Size ELSE h
      /\ full' = (full \/ h >= Size)

Write(p) ==
  /\ IF Len(p) >= Size
     THEN /\ buf' = Copy(buf, 0, SubSeq(p, Len(p)-Size+1, Len(p)))
          /\ head' = 0 /\ full' = TRUE
     ELSE Advance(p)
  /\ last' = LastN(last \o p)

Snapshot ==
  IF full THEN [i \in 1..Size |-> buf[(IF i <= Size - head
                                       THEN head + i - 1
                                       ELSE i - 1 - (Size - head))]]
  ELSE [i \in 1..head |-> buf[i-1]]

Next == \E n \in 0..MaxWrite : \E p \in [1..n -> Bytes] : Write(p)

Spec == Init /\ [][Next]_vars

\* The types of the fields; head stays a valid index.
TypeOK ==
  /\ buf \in [0..Size-1 -> Bytes \cup {Zero}]
  /\ full \in BOOLEAN
  /\ head \in 0..Size-1

\* The buffer is well formed and Snapshot is the tail of everything written, in
\* chronological order, after any sequence of short, exactly fitting, wrapping
\* and oversized writes.
SnapshotIsTail == TypeOK /\ Snapshot = last

=============================================================================
