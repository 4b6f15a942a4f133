---------------------------- MODULE MmapGeometry ----------------------------
(***************************************************************************)
(* The address arithmetic of plugins/queue/mmap.                           *)
(*                                                                         *)
(* The queue is an unbounded tape of segments numbered 0, 1, 2, ... of     *)
(* SegmentSize bytes each.  Segment id lives in the file GetIndex(id), so  *)
(* QueueCapacitySegments files are reused in a ring.  A record is a header *)
(* of uInt64Size bytes that holds the length, never split over two         *)
(* segments, followed by the payload, which may span several.              *)
(***************************************************************************)
EXTENDS Integers

CONSTANTS
  SegmentSize,            \* bytes per segment (q.SegmentSize)
  QueueCapacitySegments,  \* segment files in the ring
  MaxEventSize,           \* the longest payload Enqueue accepts
  uInt64Size              \* bytes of a record header, 8 in the code

\* Initialize rounds SegmentSize to a positive multiple of the page size, so a
\* header always fits into a segment with room to spare.
ASSUME GeometryAssumption ==
  /\ SegmentSize \in Nat
  /\ QueueCapacitySegments \in Nat \ {0}
  /\ MaxEventSize \in Nat
  /\ uInt64Size \in Nat \ {0}
  /\ uInt64Size < SegmentSize

Offsets == 0 .. SegmentSize - 1
Indexes == 0 .. QueueCapacitySegments - 1

\* What the metadata file stores for each of its four offsets.
Position == [id : Nat, offset : Offsets]
Origin == [id |-> 0, offset |-> 0]

\* The order of the tape.
Before(p, q) == p.id < q.id \/ (p.id = q.id /\ p.offset < q.offset)
AtOrBefore(p, q) == ~Before(q, p)

GetIndex(segmentID) == segmentID % QueueCapacitySegments

\* Mutant: an offset that reaches the end of its segment stays there.
AdvanceNoWrap(p, n) == [id |-> p.id, offset |-> p.offset + n]

\* The step every read and write ends with: an offset that reached the end of
\* its segment is the start of the next one.
Advance(p, n) ==
  IF p.offset + n = SegmentSize
  THEN [id |-> p.id + 1, offset |-> 0]
  ELSE [id |-> p.id, offset |-> p.offset + n]

\* Where writeLength and readLength place the header of a record.
HeaderAt(p) ==
  IF p.offset + uInt64Size > SegmentSize
  THEN [id |-> p.id + 1, offset |-> 0]
  ELSE p

\* How many of the remaining bytes one ReadAt or WriteAt moves: it stops at the
\* end of the mapped file.
Chunk(p, remaining) ==
  LET room == SegmentSize - p.offset
  IN IF remaining < room THEN remaining ELSE room

\* Mutant: one segment too many.
FullOffByOne(r, w) ==
  w.id >= r.id + QueueCapacitySegments - MaxEventSize \div SegmentSize

\* Queue.IsFull, from the reading and the writing offset.
Full(r, w) ==
  w.id >= r.id + QueueCapacitySegments - 1 - MaxEventSize \div SegmentSize

\* The configurations whose IsFull really leaves room for the largest record
\* when the header has to move to the next segment.
EventFits == (MaxEventSize % SegmentSize) + uInt64Size <= SegmentSize
=============================================================================
