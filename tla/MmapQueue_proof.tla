-------------------------- MODULE MmapQueue_proof --------------------------
(***************************************************************************)
(* The mmap queue's safety for every segment size, ring size, event size   *)
(* and number of events, crashes and restarts.                             *)
(***************************************************************************)
EXTENDS MmapQueueFifo, SequenceTheorems, FiniteSetTheorems, FunctionTheorems,
        TLAPS

-----------------------------------------------------------------------------
\* Address arithmetic.

\* Two segments less than a ring apart share a file only if they are the same:
\* what GetIndex, id % capacity, relies on.
LEMMA WindowInjective ==
  ASSUME NEW a \in Nat, NEW b \in Nat,
         GetIndex(a) = GetIndex(b), a <= b, b < a + QueueCapacitySegments
  PROVE  a = b
<1> DEFINE N == QueueCapacitySegments
<1>1. N \in Nat /\ N > 0
  BY GeometryAssumption
<1>2. /\ a = N * (a \div N) + (a % N) /\ b = N * (b \div N) + (b % N)
      /\ a \div N \in Int /\ b \div N \in Int
  BY <1>1
<1> DEFINE d == (b \div N) - (a \div N)
<1>3. d \in Int /\ b - a = N * d
  BY <1>1, <1>2 DEF GetIndex
<1>4. d < 1
  <2> SUFFICES ASSUME d >= 1 PROVE FALSE
    BY <1>3
  <2>1. N * d >= N
    BY <1>1, <1>3
  <2> QED BY <1>1, <1>3, <2>1
<1>5. d > -1
  <2> SUFFICES ASSUME d <= -1 PROVE FALSE
    BY <1>3
  <2>1. N * d <= -N
    BY <1>1, <1>3
  <2> QED BY <1>1, <1>3, <2>1
<1> QED BY <1>1, <1>3, <1>4, <1>5

\* Every segment has a file in the ring.
LEMMA IndexInRing ==
  ASSUME NEW id \in Nat
  PROVE  GetIndex(id) \in Indexes
BY GeometryAssumption DEF GetIndex, Indexes

\* The cursor after a read or write that stays within its segment, in
\* positions and in absolute addresses.
LEMMA AdvanceProperties ==
  ASSUME NEW p \in Position, NEW n \in Nat, p.offset + n <= SegmentSize
  PROVE  /\ Advance(p, n) \in Position
         /\ AtOrBefore(p, Advance(p, n))
         /\ p.id <= Advance(p, n).id
         /\ Address(Advance(p, n)) = Address(p) + n
<1>1. CASE p.offset + n = SegmentSize
  <2>1. (p.id + 1) * SegmentSize = p.id * SegmentSize + SegmentSize
    BY GeometryAssumption DEF Position
  <2> QED BY <1>1, <2>1, GeometryAssumption
           DEF Position, Offsets, Advance, AtOrBefore, Before, Address
<1>2. CASE p.offset + n # SegmentSize
  BY <1>2, GeometryAssumption
     DEF Position, Offsets, Advance, AtOrBefore, Before, Address
<1> QED BY <1>1, <1>2

\* A header is placed at or after the cursor, whole, and at most
\* uInt64Size - 1 bytes are skipped.
LEMMA HeaderProperties ==
  ASSUME NEW p \in Position
  PROVE  /\ HeaderAt(p) \in Position
         /\ AtOrBefore(p, HeaderAt(p))
         /\ p.id <= HeaderAt(p).id
         /\ HeaderAt(p).id <= p.id + 1
         /\ HeaderAt(p).id = p.id + 1 => HeaderAt(p).offset = 0
         /\ HeaderAt(p).offset + uInt64Size <= SegmentSize
BY GeometryAssumption
   DEF Position, Offsets, HeaderAt, AtOrBefore, Before

\* One chunk stays within its segment and within what is left to move.
LEMMA ChunkProperties ==
  ASSUME NEW p \in Position, NEW r \in Nat
  PROVE  /\ Chunk(p, r) \in Nat
         /\ Chunk(p, r) <= r
         /\ p.offset + Chunk(p, r) <= SegmentSize
BY GeometryAssumption DEF Position, Offsets, Chunk

\* The order of positions is transitive.
LEMMA OrderTransitive ==
  ASSUME NEW p \in Position, NEW q \in Position, NEW r \in Position,
         AtOrBefore(p, q), AtOrBefore(q, r)
  PROVE  AtOrBefore(p, r)
BY GeometryAssumption DEF Position, Offsets, AtOrBefore, Before

\* A function on 1..n is a sequence of length n.
LEMMA FunctionIsSequence ==
  ASSUME NEW S, NEW n \in Nat, NEW f \in [1 .. n -> S]
  PROVE  f \in Seq(S) /\ Len(f) = n
OBVIOUS

\* The bytes of a Store are typed, and lie in the file of their segment.
LEMMA StoreProperties ==
  ASSUME TypeOK, NEW p \in Position, NEW n \in Nat, NEW first \in Nat
  PROVE  /\ Store(p, n, first) \in [Indexes -> [Offsets -> Byte]]
         /\ \A i \in Indexes, o \in Offsets :
              \/ Store(p, n, first)[i][o] = cells[i][o]
              \/ /\ i = GetIndex(p.id) /\ Store(p, n, first)[i][o].id = p.id
                 /\ p.offset <= o /\ o < p.offset + n
<1> DEFINE x == GetIndex(p.id)
           row == [o \in Offsets |->
                     IF o \in p.offset .. p.offset + n - 1
                     THEN [id |-> p.id, ev |-> born, len |-> wlen,
                           k |-> first + (o - p.offset)]
                     ELSE cells[x][o]]
<1>1. x \in Indexes
  BY IndexInRing DEF Position
<1>2. Store(p, n, first) = [cells EXCEPT ![x] = row]
  BY DEF Store
<1>3. \A o \in Offsets : cells[x][o] \in Byte
  BY <1>1 DEF TypeOK
<1>4. row \in [Offsets -> Byte]
  <2> SUFFICES ASSUME NEW o \in Offsets
               PROVE  (IF o \in p.offset .. p.offset + n - 1
                       THEN [id |-> p.id, ev |-> born, len |-> wlen,
                             k |-> first + (o - p.offset)]
                       ELSE cells[x][o]) \in Byte
    OBVIOUS
  <2>1. CASE o \in p.offset .. p.offset + n - 1
    <3>1. born \in Nat /\ wlen \in Nat
      BY DEF TypeOK
    <3>2. first + (o - p.offset) \in Nat
      BY <2>1 DEF Position, Offsets
    <3> QED BY <2>1, <3>1, <3>2 DEF Byte, Position
  <2>2. CASE o \notin p.offset .. p.offset + n - 1
    BY <2>2, <1>3
  <2> QED BY <2>1, <2>2
<1>5. cells \in [Indexes -> [Offsets -> Byte]]
  BY DEF TypeOK
<1>6. \A o \in Offsets :
        \/ row[o] = cells[x][o]
        \/ row[o].id = p.id /\ p.offset <= o /\ o < p.offset + n
  BY GeometryAssumption DEF Position, Offsets
<1> HIDE DEF row, x
<1> QED
  BY <1>1, <1>2, <1>4, <1>5, <1>6 DEF x

-----------------------------------------------------------------------------
\* Type correctness, one step per action.

\* The bytes one ReadBytes appends.
LEMMA ReadBytesType ==
  ASSUME TypeOK, ReadBytes
  PROVE  /\ rgot' \in Seq(Nat \X Int) /\ Len(rgot') <= rlen
         /\ rat' \in Position /\ rat.id <= rat'.id
<1> DEFINE n == Chunk(rat, rlen - Len(rgot))
           at(j) == cells[GetIndex(rat.id)][rat.offset + j - 1]
           piece == [j \in 1 .. n |-> <<at(j).ev, at(j).k - uInt64Size + 1>>]
<1>1. rat \in Position /\ rlen - Len(rgot) \in Nat /\ rlen \in Nat
      /\ rgot \in Seq(Nat \X Int) /\ Len(rgot) \in Nat
  BY DEF TypeOK
<1>2. n \in Nat /\ n <= rlen - Len(rgot) /\ rat.offset + n <= SegmentSize
  BY <1>1, ChunkProperties
<1>3. \A j \in 1 .. n : at(j) \in Byte
  <2> TAKE j \in 1 .. n
  <2>1. GetIndex(rat.id) \in Indexes
    BY <1>1, IndexInRing DEF Position
  <2>2. rat.offset + j - 1 \in Offsets
    BY <1>1, <1>2, GeometryAssumption DEF Position, Offsets
  <2>3. cells \in [Indexes -> [Offsets -> Byte]]
    BY DEF TypeOK
  <2> HIDE DEF n
  <2> QED BY <2>1, <2>2, <2>3
<1>4. piece \in [1 .. n -> Nat \X Int]
  <2> SUFFICES ASSUME NEW j \in 1 .. n
               PROVE  <<at(j).ev, at(j).k - uInt64Size + 1>> \in Nat \X Int
    OBVIOUS
  <2>1. at(j) \in Byte
    BY <1>3
  <2> HIDE DEF at, n
  <2> QED BY <2>1, GeometryAssumption DEF Byte
<1>5. piece \in Seq(Nat \X Int) /\ Len(piece) = n
  <2> HIDE DEF n, piece
  <2> QED BY <1>2, <1>4, FunctionIsSequence
<1>6. rgot' = rgot \o piece /\ rat' = Advance(rat, n)
  BY DEF ReadBytes
<1> HIDE DEF n, piece
<1>7. rgot' \in Seq(Nat \X Int) /\ Len(rgot') = Len(rgot) + n
  BY <1>1, <1>5, <1>6, ConcatProperties
<1>8. rat' \in Position /\ rat.id <= rat'.id
  BY <1>1, <1>2, <1>6, AdvanceProperties
<1> QED BY <1>1, <1>2, <1>7, <1>8

\* The length a ReadLength may return.
LEMMA LengthsAtType ==
  ASSUME TypeOK, NEW p \in Position
  PROVE  LengthsAt(p) \subseteq Nat
<1>1. cells[GetIndex(p.id)][p.offset + 0] \in Byte
  <2>1. GetIndex(p.id) \in Indexes
    BY IndexInRing DEF Position
  <2>2. p.offset + 0 \in Offsets
    BY GeometryAssumption DEF Position, Offsets
  <2> QED BY <2>1, <2>2 DEF TypeOK
<1>2. cells[GetIndex(p.id)][p.offset + 0].len \in Nat
  BY <1>1 DEF Byte
<1> QED BY <1>2, GeometryAssumption DEF LengthsAt

\* Every step keeps the state well typed.
LEMMA TypeStep == TypeOK /\ [Next]_vars => TypeOK'
<1> SUFFICES ASSUME TypeOK, [Next]_vars PROVE TypeOK'
  OBVIOUS
<1> USE DEF meta, producer, consumer, flusher
<1>0. Origin \in Position
  BY GeometryAssumption DEF Origin, Position, Offsets
<1>1. ASSUME NEW len \in Lengths, EnqueueBegin(len) PROVE TypeOK'
  BY <1>1, QueueAssumption DEF EnqueueBegin, TypeOK
<1>2. CASE WriteLength
  <2>1. HeaderAt(wat) \in Position
        /\ HeaderAt(wat).offset + uInt64Size <= SegmentSize
    BY HeaderProperties DEF TypeOK
  <2>2. cells' \in [Indexes -> [Offsets -> Byte]]
    BY <1>2, <2>1, StoreProperties, GeometryAssumption DEF WriteLength
  <2>3. wat' \in Position
    BY <1>2, <2>1, AdvanceProperties, GeometryAssumption DEF WriteLength
  <2> QED BY <1>2, <2>2, <2>3 DEF WriteLength, TypeOK
<1>3. CASE WriteBytes
  <2> DEFINE n == Chunk(wat, wlen - wcount)
  <2>1. wlen - wcount \in Nat /\ wat \in Position /\ wcount \in Nat
        /\ wlen \in Nat /\ wcount <= wlen
    BY DEF TypeOK
  <2>2. n \in Nat /\ n <= wlen - wcount /\ wat.offset + n <= SegmentSize
    BY <2>1, ChunkProperties
  <2>3. cells' = Store(wat, n, uInt64Size + wcount) /\ wat' = Advance(wat, n)
        /\ wcount' = wcount + n /\ wpc' \in {"put", "bytes"}
    BY <1>3 DEF WriteBytes
  <2> HIDE DEF n
  <2>4. cells' \in [Indexes -> [Offsets -> Byte]]
    BY <2>1, <2>2, <2>3, StoreProperties, GeometryAssumption
  <2>5. wat' \in Position
    BY <2>1, <2>2, <2>3, AdvanceProperties
  <2>6. wcount' \in 0 .. wlen
    BY <2>1, <2>2, <2>3
  <2> QED BY <1>3, <2>3, <2>4, <2>5, <2>6 DEF WriteBytes, TypeOK
<1>4. CASE PutWritingOffset
  <2> DEFINE late == status # "open"
             r == [ev |-> born, len |-> wlen, start |-> writing, end |-> wat,
                   late |-> late]
  <2>1. accepted' \in SUBSET Record
    <3>1. late \in BOOLEAN
      OBVIOUS
    <3>2. r \in Record
      <4> HIDE DEF late
      <4> QED BY <3>1 DEF TypeOK, Record
    <3>3. accepted' = accepted \cup {r}
      BY <1>4 DEF PutWritingOffset
    <3> HIDE DEF r
    <3> QED BY <3>2, <3>3 DEF TypeOK
  <2> QED BY <1>0, <1>4, <2>1 DEF PutWritingOffset, TypeOK
<1>5. CASE DequeueBegin
  BY <1>5 DEF DequeueBegin, TypeOK
<1>6. CASE ReadLength
  <2>1. HeaderAt(rat) \in Position
        /\ HeaderAt(rat).offset + uInt64Size <= SegmentSize
    BY HeaderProperties DEF TypeOK
  <2>2. rat' \in Position
    BY <1>6, <2>1, AdvanceProperties, GeometryAssumption DEF ReadLength
  <2>3. rlen' \in Nat
    BY <1>6, <2>1, LengthsAtType DEF ReadLength
  <2>4. rgot' \in Seq(Nat \X Int) /\ Len(rgot') <= rlen'
    BY <1>6, <2>3 DEF ReadLength, TypeOK
  <2> QED BY <1>6, <2>2, <2>3, <2>4 DEF ReadLength, TypeOK
<1>7. CASE ReadBytes
  <2>1. /\ rgot' \in Seq(Nat \X Int) /\ Len(rgot') <= rlen
        /\ rat' \in Position
    BY <1>7, ReadBytesType
  <2> QED BY <1>7, <2>1 DEF ReadBytes, TypeOK
<1>8. CASE PutReadingOffset
  <2>1. unacked' \in Seq(Position)
    BY <1>8, AppendProperties DEF PutReadingOffset, TypeOK
  <2> QED BY <1>0, <1>8, <2>1 DEF PutReadingOffset, TypeOK
<1>9. ASSUME NEW i \in 1 .. Len(unacked), Ack(i) PROVE TypeOK'
  <2>1. unacked' \in Seq(Position)
    BY <1>9, SubSeqProperties DEF Ack, TypeOK
  <2>2. committed' \in Position
    BY <1>9, ElementOfSeq DEF Ack, TypeOK
  <2> QED BY <1>9, <2>1, <2>2 DEF Ack, TypeOK
<1>10. CASE Flush
  BY <1>0, <1>10 DEF Flush, FlushOnTimer, FlushOnSignal, FlushOnDone,
     FlushGetWriting, FlushPutWatermark, TypeOK
<1>11. CASE Close
  BY <1>11 DEF Close, TypeOK
<1>12. CASE Exit \/ Crash
  <2>1. \A i \in 1 .. Len(unacked) : unacked[i] \in Position
    BY ElementOfSeq DEF TypeOK
  <2>2. \A p, q \in Position : Torn(p, q) \in Position
    BY DEF Torn, Position
  <2>3. watermark' \in Position /\ committed' \in Position
    BY <1>12, <2>1, <2>2 DEF Exit, Crash, TypeOK
  <2>4. LoseMemory
    BY <1>12 DEF Exit, Crash
  <2> QED BY <1>0, <2>3, <2>4 DEF LoseMemory, TypeOK
<1>13. CASE Initialize
  <2>1. sound' \in BOOLEAN
    BY <1>13 DEF Initialize, Resumable
  <2> QED BY <1>13, <2>1 DEF Initialize, TypeOK
<1>14. CASE UNCHANGED vars
  BY <1>14 DEF vars, TypeOK
<1> QED
  BY <1>1, <1>2, <1>3, <1>4, <1>5, <1>6, <1>7, <1>8, <1>9, <1>10, <1>11,
     <1>12, <1>13, <1>14
  DEF Next, Enqueue, Dequeue, Acknowledge, PollEmpty

\* The initial state is well typed.
LEMMA TypeInit == Init => TypeOK
<1> SUFFICES ASSUME Init PROVE TypeOK
  OBVIOUS
<1>1. Origin \in Position /\ Zero \in Byte
  BY GeometryAssumption DEF Origin, Position, Offsets, Zero, Byte
<1> QED BY <1>1 DEF Init, TypeOK

(***************************************************************************)
(* TypeOK is an invariant of the queue: in particular every offset ever    *)
(* put into the metadata lies within a segment.                            *)
(***************************************************************************)
THEOREM TypeCorrect == Spec => []TypeOK
BY TypeInit, TypeStep, PTL DEF Spec

-----------------------------------------------------------------------------
\* The space IsFull reserves.

\* The segments between the writing offset and the limit IsFull computes hold
\* the largest record, even if its header has to move to the next segment.
LEMMA RecordFits ==
  ASSUME EventFits, NEW p \in Position, NEW len \in 0 .. MaxEventSize
  PROVE  Address(HeaderAt(p)) + uInt64Size + len
           <= (p.id + (MaxEventSize \div SegmentSize) + 2) * SegmentSize
<1> DEFINE S == SegmentSize
           K == MaxEventSize \div S
           R == MaxEventSize % S
           h == HeaderAt(p)
<1>1. S \in Nat /\ S > 0 /\ uInt64Size \in Nat /\ MaxEventSize \in Nat
  BY GeometryAssumption
<1>2. K \in Nat /\ R \in Nat /\ MaxEventSize = K * S + R
  BY <1>1
<1>3. R + uInt64Size <= S
  BY DEF EventFits
<1>4. h \in Position /\ h.offset + uInt64Size <= S
      /\ (h.id = p.id \/ (h.id = p.id + 1 /\ h.offset = 0))
  BY HeaderProperties, GeometryAssumption DEF Position
<1>5. p.id \in Nat /\ len \in Nat /\ len <= MaxEventSize
  BY <1>1 DEF Position
<1>6. (p.id + K + 2) * S = p.id * S + K * S + S + S
  <2>1. \A x, y, z \in Nat : (x + y + 2) * z = x * z + y * z + z + z
    OBVIOUS
  <2> HIDE DEF K, S
  <2> QED BY <1>1, <1>2, <1>5, <2>1
<1>7. Address(h) + uInt64Size + R <= p.id * S + S + S
  <2>1. CASE h.id = p.id
    <3>1. R <= S
      BY <1>1, <1>2, <1>3
    <3>2. h.id * S = p.id * S /\ p.id * S \in Nat
      BY <2>1, <1>1, <1>5
    <3> HIDE DEF h, R
    <3> QED BY <3>1, <3>2, <1>1, <1>2, <1>4 DEF Address, Position, Offsets
  <2>2. CASE h.id = p.id + 1 /\ h.offset = 0
    <3>1. h.id * S = p.id * S + S /\ p.id * S \in Nat
      BY <2>2, <1>1, <1>5
    <3> HIDE DEF h, R
    <3> QED BY <2>2, <3>1, <1>1, <1>2, <1>3 DEF Address
  <2> QED BY <1>4, <2>1, <2>2
<1>8. Address(h) \in Nat /\ K * S \in Nat /\ p.id * S \in Nat
  BY <1>1, <1>2, <1>4, <1>5 DEF Address, Position, Offsets
<1> HIDE DEF h, R, K
<1>9. Address(h) + uInt64Size + len <= (p.id * S + S + S) + K * S
  BY <1>1, <1>2, <1>5, <1>7, <1>8
<1> QED BY <1>1, <1>6, <1>8, <1>9 DEF h, K

\* A cursor with something left to write before the limit lies in a segment
\* before the limit.
LEMMA CursorInWindow ==
  ASSUME NEW p \in Position, NEW n \in Nat \ {0}, NEW m \in Nat,
         Address(p) + n <= m * SegmentSize
  PROVE  p.id < m
<1> SUFFICES ASSUME p.id >= m PROVE FALSE
  BY DEF Position
<1>1. p.id * SegmentSize >= m * SegmentSize
  BY GeometryAssumption DEF Position
<1>2. Address(p) >= p.id * SegmentSize /\ Address(p) \in Nat
  BY GeometryAssumption DEF Position, Offsets, Address
<1>3. m * SegmentSize \in Nat /\ p.id * SegmentSize \in Nat
  BY GeometryAssumption DEF Position
<1> QED BY <1>1, <1>2, <1>3

-----------------------------------------------------------------------------
\* The inductive invariant.

\* Only the two writes touch the files, and what they store is filed under
\* the segment it belongs to.
LEMMA TaggedStep ==
  ASSUME TypeOK, Tagged, NEW p \in Position, NEW n \in Nat, NEW first \in Nat,
         cells' = Store(p, n, first)
  PROVE  Tagged'
<1> SUFFICES ASSUME NEW i \in Indexes, NEW o \in Offsets, cells'[i][o].id # -1
             PROVE  GetIndex(cells'[i][o].id) = i
  BY DEF Tagged, GetIndex
<1>1. \/ cells'[i][o] = cells[i][o]
      \/ i = GetIndex(p.id) /\ cells'[i][o].id = p.id
  BY StoreProperties
<1> QED BY <1>1 DEF Tagged

\* The invariant holds initially.
LEMMA IndInit == Init => IndInv
<1> SUFFICES ASSUME Init PROVE IndInv
  OBVIOUS
<1>1. Tagged
  BY DEF Init, Tagged, Zero
<1> QED
  BY <1>1, TypeInit DEF Init, IndInv, ReaderForward, WriterBounded, ClosedIsIdle

\* Every step keeps it, if the largest event fits the space IsFull reserves.
LEMMA IndStep ==
  ASSUME EventFits
  PROVE  IndInv /\ [Next]_vars => IndInv'
<1> SUFFICES ASSUME IndInv, [Next]_vars PROVE IndInv'
  OBVIOUS
<1> USE DEF meta, producer, consumer, flusher
<1>t. TypeOK /\ TypeOK'
  BY TypeStep DEF IndInv
<1>p. /\ writing \in Position /\ reading \in Position
      /\ wat \in Position /\ rat \in Position
      /\ wlen \in Nat /\ wcount \in Nat /\ wcount <= wlen
  BY <1>t DEF TypeOK
<1>f. \A r, w \in Position : \A q \in Position :
        (~Full(r, w) /\ r.id <= q.id) => ~Full(q, w)
  BY GeometryAssumption DEF Full, Position
<1>1. ASSUME NEW len \in Lengths, EnqueueBegin(len) PROVE IndInv'
  <2>1. WriterBounded'
    <3>1. AtOrBefore(writing, writing)
      BY <1>p DEF AtOrBefore, Before, Position, Offsets
    <3> QED
      BY <1>1, <3>1 DEF EnqueueBegin, WriterBounded, Full, AtOrBefore, Before
  <2> QED
    BY <1>1, <1>t, <2>1
    DEF EnqueueBegin, IndInv, Tagged, ReaderForward, ClosedIsIdle
<1>2. CASE WriteLength
  <2> DEFINE h == HeaderAt(wat)
  <2>1. h \in Position /\ AtOrBefore(wat, h)
        /\ h.offset + uInt64Size <= SegmentSize
    BY <1>p, HeaderProperties
  <2>2. Tagged'
    BY <1>2, <1>t, <2>1, TaggedStep, GeometryAssumption
    DEF IndInv, WriteLength
  <2>3. wat' = Advance(h, uInt64Size) /\ wat' \in Position
        /\ AtOrBefore(h, wat') /\ Address(wat') = Address(h) + uInt64Size
    BY <1>2, <2>1, AdvanceProperties, GeometryAssumption DEF WriteLength
  <2>4. wat = writing /\ wcount = 0 /\ wlen <= MaxEventSize
        /\ ~Full(reading, writing)
    BY <1>2 DEF IndInv, WriterBounded, WriteLength
  <2>5. AtOrBefore(writing, wat')
    BY <1>p, <2>1, <2>3, <2>4, OrderTransitive
  <2>6. Address(h) + uInt64Size + wlen
          <= (writing.id + (MaxEventSize \div SegmentSize) + 2) * SegmentSize
    BY <1>p, <2>4, RecordFits, GeometryAssumption
  <2>7. Address(wat') + (wlen - wcount)
          <= (writing.id + (MaxEventSize \div SegmentSize) + 2) * SegmentSize
    <3> HIDE DEF h
    <3> QED BY <1>p, <2>3, <2>4, <2>6
  <2>8. WriterBounded'
    BY <1>2, <2>4, <2>5, <2>7
    DEF WriteLength, WriterBounded, Full, AtOrBefore, Before, Address
  <2> QED
    BY <1>2, <1>t, <2>2, <2>8 DEF WriteLength, IndInv, ReaderForward, ClosedIsIdle
<1>3. CASE WriteBytes
  <2> DEFINE n == Chunk(wat, wlen - wcount)
             limit == (writing.id + (MaxEventSize \div SegmentSize) + 2)
                        * SegmentSize
  <2>1. n \in Nat /\ n <= wlen - wcount /\ wat.offset + n <= SegmentSize
    BY <1>p, ChunkProperties
  <2>2. cells' = Store(wat, n, uInt64Size + wcount) /\ wat' = Advance(wat, n)
        /\ wcount' = wcount + n /\ wpc' \in {"put", "bytes"}
    BY <1>3 DEF WriteBytes
  <2> HIDE DEF n
  <2>3. Tagged'
    BY <1>p, <1>t, <2>1, <2>2, TaggedStep, GeometryAssumption DEF IndInv
  <2>4. wat' \in Position /\ AtOrBefore(wat, wat')
        /\ Address(wat') = Address(wat) + n
    BY <1>p, <2>1, <2>2, AdvanceProperties
  <2>5. wlen <= MaxEventSize /\ ~Full(reading, writing)
        /\ AtOrBefore(writing, wat)
        /\ Address(wat) + (wlen - wcount) <= limit
    BY <1>3 DEF IndInv, WriterBounded, WriteBytes
  <2>6. AtOrBefore(writing, wat')
    BY <1>p, <2>4, <2>5, OrderTransitive
  <2>7. Address(wat') + (wlen - wcount') <= limit
    <3>1. Address(wat) \in Int /\ limit \in Int
      BY <1>p, GeometryAssumption DEF Address, Position, Offsets
    <3> HIDE DEF limit
    <3> QED BY <1>p, <2>1, <2>2, <2>4, <2>5, <3>1
  <2>8. WriterBounded'
    BY <1>3, <2>2, <2>5, <2>6, <2>7
    DEF WriteBytes, WriterBounded, Full, AtOrBefore, Before, Address
  <2> QED
    BY <1>3, <1>t, <2>3, <2>8 DEF WriteBytes, IndInv, ReaderForward, ClosedIsIdle
<1>4. CASE PutWritingOffset
  BY <1>4, <1>t
  DEF PutWritingOffset, IndInv, Tagged, ReaderForward, WriterBounded,
      ClosedIsIdle
<1>5. CASE DequeueBegin
  BY <1>5, <1>t, <1>p
  DEF DequeueBegin, IndInv, Tagged, ReaderForward, WriterBounded, ClosedIsIdle,
      Position, Full, AtOrBefore, Before, Address
<1>6. CASE ReadLength
  <2> DEFINE h == HeaderAt(rat)
  <2>1. h \in Position /\ rat.id <= h.id
        /\ h.offset + uInt64Size <= SegmentSize
    BY <1>p, HeaderProperties
  <2>2. rat' \in Position /\ h.id <= rat'.id
    BY <1>6, <2>1, AdvanceProperties, GeometryAssumption DEF ReadLength
  <2>3. rat.id <= rat'.id
    <3> HIDE DEF h
    <3> QED BY <1>p, <2>1, <2>2 DEF Position
  <2>4. ReaderForward'
    BY <1>6, <1>p, <2>2, <2>3 DEF ReadLength, IndInv, ReaderForward, Position
  <2> QED
    BY <1>6, <1>t, <2>4
    DEF ReadLength, IndInv, Tagged, WriterBounded, ClosedIsIdle, Full,
        AtOrBefore, Before, Address
<1>7. CASE ReadBytes
  <2>1. rat' \in Position /\ rat.id <= rat'.id
    BY <1>7, <1>t, ReadBytesType
  <2>2. ReaderForward'
    BY <1>7, <1>p, <2>1 DEF ReadBytes, IndInv, ReaderForward, Position
  <2> QED
    BY <1>7, <1>t, <2>2
    DEF ReadBytes, IndInv, Tagged, WriterBounded, ClosedIsIdle, Full,
        AtOrBefore, Before, Address
<1>8. CASE PutReadingOffset
  <2>1. reading' = rat /\ reading.id <= rat.id
    BY <1>8 DEF PutReadingOffset, IndInv, ReaderForward
  <2>2. ~Full(reading, writing) => ~Full(reading', writing)
    BY <1>f, <1>p, <2>1
  <2>3. WriterBounded'
    BY <1>8, <2>2
    DEF PutReadingOffset, IndInv, WriterBounded, Full, AtOrBefore, Before,
        Address
  <2> QED
    BY <1>8, <1>t, <2>3
    DEF PutReadingOffset, IndInv, Tagged, ReaderForward, ClosedIsIdle
<1>9. CASE Acknowledge \/ Close \/ UNCHANGED vars
  BY <1>9, <1>t
  DEF Acknowledge, Ack, Close, vars, IndInv, Tagged, ReaderForward,
      WriterBounded, ClosedIsIdle, Full, AtOrBefore, Before, Address
<1>10. CASE Flush
  BY <1>10, <1>t
  DEF Flush, FlushOnTimer, FlushOnSignal, FlushOnDone, FlushGetWriting,
      FlushPutWatermark, IndInv, Tagged, ReaderForward, WriterBounded,
      ClosedIsIdle, Full, AtOrBefore, Before, Address
<1>11. CASE LoseMemory
  BY <1>11, <1>t
  DEF LoseMemory, IndInv, Tagged, ReaderForward, WriterBounded, ClosedIsIdle
<1>12. CASE Initialize
  BY <1>12, <1>t
  DEF Initialize, IndInv, Tagged, ReaderForward, WriterBounded, ClosedIsIdle
<1> QED
  BY <1>1, <1>2, <1>3, <1>4, <1>5, <1>6, <1>7, <1>8, <1>9, <1>10, <1>11, <1>12
  DEF Next, Enqueue, Dequeue, Exit, Crash, PollEmpty

-----------------------------------------------------------------------------
\* A write behind the writing offset and within a ring of the reading offset
\* leaves the unread bytes alone.
LEMMA StorePreserves ==
  ASSUME TypeOK, Tagged, NEW p \in Position, NEW n \in Nat, NEW first \in Nat,
         cells' = Store(p, n, first),
         AtOrBefore(writing, p),
         n > 0 => p.id < reading.id + QueueCapacitySegments
  PROVE  Preserved(reading, writing)
<1> SUFFICES ASSUME NEW i \in Indexes, NEW o \in Offsets,
                    cells[i][o].id # -1,
                    Between([id |-> cells[i][o].id, offset |-> o],
                            reading, writing),
                    cells'[i][o] # cells[i][o]
             PROVE  FALSE
  BY DEF Preserved
<1> DEFINE t == cells[i][o].id
<1>1. t \in Nat
  <2>1. cells[i][o] \in Byte
    BY DEF TypeOK
  <2> QED BY <2>1 DEF Byte
<1>2. writing \in Position /\ reading \in Position
  BY DEF TypeOK
<1>3. i = GetIndex(p.id) /\ p.offset <= o /\ o < p.offset + n
  BY StoreProperties
<1>4. GetIndex(t) = GetIndex(p.id)
  BY <1>3 DEF Tagged
<1> HIDE DEF t
<1>5. reading.id <= t /\ t <= writing.id /\ (t = writing.id => o < writing.offset)
  BY <1>1, <1>2 DEF t, Between, AtOrBefore, Before, Position, Offsets
<1>6. writing.id <= p.id /\ (p.id = writing.id => writing.offset <= p.offset)
  BY <1>2 DEF AtOrBefore, Before, Position, Offsets
<1>7. p.id < reading.id + QueueCapacitySegments
  BY <1>3 DEF Position, Offsets
<1>8. t = p.id
  <2>1. t <= p.id /\ p.id < t + QueueCapacitySegments
    BY <1>1, <1>2, <1>5, <1>6, <1>7, GeometryAssumption DEF Position
  <2> QED BY <1>1, <1>4, <2>1, WindowInjective DEF Position
<1> QED
  BY <1>1, <1>2, <1>3, <1>5, <1>6, <1>8 DEF Position, Offsets

\* Every step leaves the unread bytes alone.
LEMMA PreservedStep ==
  ASSUME EventFits
  PROVE  IndInv /\ [Next]_vars => Preserved(reading, writing)
<1> SUFFICES ASSUME IndInv, [Next]_vars PROVE Preserved(reading, writing)
  OBVIOUS
<1> USE DEF meta, producer, consumer, flusher
<1> DEFINE spare == MaxEventSize \div SegmentSize
<1>p. /\ TypeOK /\ Tagged
      /\ writing \in Position /\ reading \in Position /\ wat \in Position
      /\ wlen \in Nat /\ wcount \in Nat /\ wcount <= wlen
  BY DEF IndInv, TypeOK
<1>s. spare \in Nat
  BY GeometryAssumption
<1>1. CASE UNCHANGED cells
  BY <1>1 DEF Preserved
<1>2. CASE WriteLength
  <2> DEFINE h == HeaderAt(wat)
  <2>1. h \in Position /\ AtOrBefore(wat, h) /\ h.id <= wat.id + 1
    BY <1>p, HeaderProperties
  <2>2. wat = writing /\ ~Full(reading, writing)
    BY <1>2 DEF IndInv, WriterBounded, WriteLength
  <2>3. cells' = Store(h, uInt64Size, 0)
    BY <1>2 DEF WriteLength
  <2> HIDE DEF h
  <2>4. writing.id + 1 < reading.id + QueueCapacitySegments - spare
    BY <1>p, <1>s, <2>2, GeometryAssumption DEF Full, Position
  <2>5. h.id < reading.id + QueueCapacitySegments
    <3> HIDE DEF spare
    <3> QED BY <1>p, <1>s, <2>1, <2>2, <2>4, GeometryAssumption DEF Position
  <2> QED
    BY <1>p, <2>1, <2>2, <2>3, <2>5, StorePreserves, GeometryAssumption
<1>3. CASE WriteBytes
  <2> DEFINE n == Chunk(wat, wlen - wcount)
  <2>1. n \in Nat /\ n <= wlen - wcount
    BY <1>p, ChunkProperties
  <2>2. cells' = Store(wat, n, uInt64Size + wcount)
    BY <1>3 DEF WriteBytes
  <2>3. /\ ~Full(reading, writing) /\ AtOrBefore(writing, wat)
        /\ Address(wat) + (wlen - wcount)
             <= (writing.id + spare + 2) * SegmentSize
    BY <1>3 DEF IndInv, WriterBounded, WriteBytes
  <2> HIDE DEF n
  <2>4. n > 0 => wat.id < writing.id + spare + 2
    <3> SUFFICES ASSUME n > 0 PROVE wat.id < writing.id + spare + 2
      OBVIOUS
    <3>1. wlen - wcount \in Nat \ {0}
      BY <1>p, <2>1
    <3>2. writing.id + spare + 2 \in Nat
      BY <1>p, <1>s DEF Position
    <3> HIDE DEF spare
    <3> QED BY <1>p, <2>3, <3>1, <3>2, CursorInWindow
  <2>5. n > 0 => wat.id < reading.id + QueueCapacitySegments
    <3>1. writing.id + 1 < reading.id + QueueCapacitySegments - spare
      BY <1>p, <1>s, <2>3, GeometryAssumption DEF Full, Position
    <3> HIDE DEF spare
    <3> QED BY <1>p, <1>s, <2>4, <3>1, GeometryAssumption DEF Position
  <2> QED
    BY <1>p, <2>1, <2>2, <2>3, <2>5, StorePreserves, GeometryAssumption
<1>4. ASSUME Next, ~WriteLength, ~WriteBytes PROVE UNCHANGED cells
  BY <1>4
  DEF Next, Enqueue, EnqueueBegin, PutWritingOffset, Dequeue, DequeueBegin,
      ReadLength, ReadBytes, PutReadingOffset, Acknowledge, Ack, Flush,
      FlushOnTimer, FlushOnSignal, FlushOnDone, FlushGetWriting,
      FlushPutWatermark, Close, Exit, Crash, LoseMemory, Initialize, PollEmpty,
      vars
<1> QED BY <1>1, <1>2, <1>3, <1>4 DEF vars

(***************************************************************************)
(* For every configuration whose largest event fits the space IsFull       *)
(* reserves, reusing the segment files never destroys an unread byte,      *)
(* under every interleaving and across crashes and restarts.               *)
(***************************************************************************)
THEOREM RingIsSafe ==
  ASSUME EventFits
  PROVE  Spec => UnreadNeverOverwritten
<1>1. Spec => []IndInv
  BY IndInit, IndStep, PTL DEF Spec
<1>2. IndInv /\ [Next]_vars => [Preserved(reading, writing)]_vars
  BY PreservedStep
<1> QED BY <1>1, <1>2, PTL DEF Spec, UnreadNeverOverwritten

-----------------------------------------------------------------------------
\* Addresses: the tape as one line of bytes.

\* Addresses and positions correspond one to one.
LEMMA AddressOfPosition ==
  ASSUME NEW p \in Position
  PROVE  Address(p) \in Nat /\ PositionOf(Address(p)) = p
<1> DEFINE S == SegmentSize
           a == p.id * S + p.offset
<1>1. S \in Nat /\ S > 0 /\ p.id \in Nat /\ p.offset \in Nat /\ p.offset < S
  BY GeometryAssumption DEF Position, Offsets
<1>2. p.id * S \in Nat /\ a \in Nat
  BY <1>1
<1>3. a \div S \in Nat /\ a % S \in 0 .. S - 1 /\ a = S * (a \div S) + (a % S)
  <2> HIDE DEF a
  <2> QED BY <1>1, <1>2
<1>4. a \div S = p.id
  <2> DEFINE d == (a \div S) - p.id
  <2>1. d \in Int /\ S * d = p.offset - (a % S)
    <3> DEFINE x == a \div S
               y == a % S
    <3>1. x \in Nat /\ y \in Nat /\ p.id * S + p.offset = S * x + y
      BY <1>1, <1>3
    <3> HIDE DEF x, y
    <3>2. \A s, v, w \in Nat : s * (v - w) = s * v - w * s
      OBVIOUS
    <3>3. S * (x - p.id) = S * x - p.id * S
      BY <1>1, <3>1, <3>2
    <3>4. x - p.id \in Int /\ S * (x - p.id) = p.offset - y
      BY <1>1, <3>1, <3>3
    <3> QED BY <3>4 DEF x, y
  <2>2. d < 1
    <3> SUFFICES ASSUME d >= 1 PROVE FALSE
      BY <2>1
    <3>1. S * d >= S
      BY <1>1, <2>1
    <3> QED BY <1>1, <1>3, <2>1, <3>1
  <2>3. d > -1
    <3> SUFFICES ASSUME d <= -1 PROVE FALSE
      BY <2>1
    <3>1. S * d <= -S
      BY <1>1, <2>1
    <3> QED BY <1>1, <1>3, <2>1, <3>1
  <2>4. d = 0
    BY <2>1, <2>2, <2>3
  <2> QED BY <1>1, <1>3, <2>4
<1>5. a % S = p.offset
  <2> DEFINE y == a % S
  <2>1. y \in Nat /\ p.id * S + p.offset = S * p.id + y
    BY <1>1, <1>3, <1>4
  <2> HIDE DEF y
  <2>2. y = p.offset
    BY <1>1, <2>1
  <2> QED BY <2>2 DEF y
<1>6. p = [id |-> p.id, offset |-> p.offset]
  BY DEF Position
<1> QED
  BY <1>2, <1>4, <1>5, <1>6 DEF Address, PositionOf

\* A position is as good as its address.
LEMMA PositionOfAddress ==
  ASSUME NEW a \in Nat
  PROVE  PositionOf(a) \in Position /\ Address(PositionOf(a)) = a
<1> DEFINE S == SegmentSize
<1>1. S \in Nat /\ S > 0
  BY GeometryAssumption
<1>2. a \div S \in Nat /\ a % S \in 0 .. S - 1 /\ a = S * (a \div S) + (a % S)
  BY <1>1
<1> QED
  BY <1>1, <1>2 DEF Address, PositionOf, Position, Offsets

\* The order of the tape is the order of the addresses.
LEMMA OrderOfAddresses ==
  ASSUME NEW p \in Position, NEW q \in Position
  PROVE  Before(p, q) <=> Address(p) < Address(q)
<1> DEFINE S == SegmentSize
<1>1. /\ S \in Nat /\ S > 0 /\ p.id \in Nat /\ q.id \in Nat
      /\ p.offset \in Nat /\ p.offset < S /\ q.offset \in Nat /\ q.offset < S
  BY GeometryAssumption DEF Position, Offsets
<1>2. ASSUME NEW x \in Nat, NEW y \in Nat, x < y PROVE x * S + S <= y * S
  <2>1. x + 1 <= y
    BY <1>2
  <2>2. (x + 1) * S <= y * S
    BY <1>1, <2>1
  <2> QED BY <1>1, <2>2
<1>3. p.id * S \in Nat /\ q.id * S \in Nat
  BY <1>1
<1>4. CASE p.id < q.id
  <2>1. p.id * S + S <= q.id * S
    BY <1>1, <1>2, <1>4
  <2> QED BY <1>1, <1>3, <1>4, <2>1 DEF Before, Address
<1>5. CASE q.id < p.id
  <2>1. q.id * S + S <= p.id * S
    BY <1>1, <1>2, <1>5
  <2> QED BY <1>1, <1>3, <1>5, <2>1 DEF Before, Address
<1>6. CASE p.id = q.id
  BY <1>1, <1>3, <1>6 DEF Before, Address
<1> QED BY <1>1, <1>4, <1>5, <1>6

\* The bytes of one segment from p on.
LEMMA WithinSegment ==
  ASSUME NEW p \in Position, NEW k \in Nat, p.offset + k < SegmentSize
  PROVE  PositionOf(Address(p) + k) = [id |-> p.id, offset |-> p.offset + k]
<1> DEFINE q == [id |-> p.id, offset |-> p.offset + k]
<1>1. q \in Position
  BY GeometryAssumption DEF Position, Offsets
<1>2. Address(q) = Address(p) + k
  BY GeometryAssumption DEF Address, Position, Offsets
<1> QED BY <1>1, <1>2, AddressOfPosition

\* Advancing inside a segment adds to the address.
LEMMA AdvanceIs ==
  ASSUME NEW p \in Position, NEW n \in Nat, p.offset + n <= SegmentSize
  PROVE  Advance(p, n) = PositionOf(Address(p) + n)
BY AdvanceProperties, AddressOfPosition

\* The byte of the tape at an address, in the file of its segment.
Cell(a) == LET p == PositionOf(a) IN cells[GetIndex(p.id)][p.offset]

\* The byte that event ev leaves at address a.
Mark(a, ev, len, k) ==
  [id |-> PositionOf(a).id, ev |-> ev, len |-> len, k |-> k]

\* OnTape, byte by byte.
LEMMA OnTapeIs ==
  ASSUME NEW first, NEW ev, NEW len, NEW n
  PROVE  OnTape(first, ev, len, n) <=>
           \A k \in 0 .. n - 1 : Cell(first + k) = Mark(first + k, ev, len, k)
BY DEF OnTape, Cell, Mark

\* A Store leaves the bytes of the current record behind p.
LEMMA StoreWrites ==
  ASSUME TypeOK, NEW p \in Position, NEW n \in Nat, NEW first \in Nat,
         p.offset + n <= SegmentSize, cells' = Store(p, n, first),
         NEW k \in 0 .. n - 1
  PROVE  Cell(Address(p) + k)' = Mark(Address(p) + k, born, wlen, first + k)
<1> DEFINE x == GetIndex(p.id)
           o == p.offset + k
<1>1. p.id \in Nat /\ p.offset \in Nat /\ k \in Nat /\ o \in Offsets
  BY GeometryAssumption DEF Position, Offsets
<1>2. x \in Indexes
  BY <1>1, IndexInRing
<1>3. cells \in [Indexes -> [Offsets -> Byte]]
  BY DEF TypeOK
<1>4. PositionOf(Address(p) + k) = [id |-> p.id, offset |-> o]
  <2>1. p.offset + k < SegmentSize
    BY <1>1, GeometryAssumption DEF Offsets
  <2> QED BY <1>1, <2>1, WithinSegment
<1>5. Cell(Address(p) + k)' = cells'[x][o]
  BY <1>4 DEF Cell
<1>6. o \in p.offset .. p.offset + n - 1 /\ o - p.offset = k
  BY <1>1
<1> HIDE DEF x, o
<1>7. cells'[x][o] = [id |-> p.id, ev |-> born, len |-> wlen, k |-> first + k]
  BY <1>1, <1>2, <1>3, <1>6 DEF Store, x
<1> QED
  BY <1>4, <1>5, <1>7 DEF Mark

\* It keeps the bytes before p that are less than a ring away.
LEMMA StoreKeeps ==
  ASSUME TypeOK, NEW p \in Position, NEW n \in Nat, NEW first \in Nat,
         p.offset + n <= SegmentSize, cells' = Store(p, n, first),
         NEW a \in Nat, a < Address(p),
         n > 0 => p.id < PositionOf(a).id + QueueCapacitySegments
  PROVE  Cell(a)' = Cell(a)
<1> DEFINE q == PositionOf(a)
<1>1. q \in Position /\ Before(q, p)
  BY PositionOfAddress, OrderOfAddresses
<1>2. GetIndex(q.id) \in Indexes /\ q.offset \in Offsets
      /\ q.id \in Nat /\ p.id \in Nat /\ q.offset \in Nat /\ p.offset \in Nat
  BY <1>1, IndexInRing DEF Position, Offsets
<1> SUFFICES ASSUME cells'[GetIndex(q.id)][q.offset]
                      # cells[GetIndex(q.id)][q.offset]
             PROVE FALSE
  BY DEF Cell
<1>3. n > 0 => p.id < q.id + QueueCapacitySegments
  OBVIOUS
<1> HIDE DEF q
<1>4. GetIndex(q.id) = GetIndex(p.id) /\ p.offset <= q.offset
      /\ q.offset < p.offset + n
  <2> DEFINE i == GetIndex(q.id)
             o == q.offset
  <2>1. i \in Indexes /\ o \in Offsets /\ cells'[i][o] # cells[i][o]
    BY <1>2
  <2> HIDE DEF i, o
  <2>2. i = GetIndex(p.id) /\ p.offset <= o /\ o < p.offset + n
    BY <2>1, StoreProperties
  <2> QED BY <2>2 DEF i, o
<1>5. q.id <= p.id /\ p.id < q.id + QueueCapacitySegments
  BY <1>1, <1>2, <1>3, <1>4 DEF Before
<1>6. q.id = p.id
  BY <1>2, <1>4, <1>5, WindowInjective
<1> QED
  BY <1>1, <1>2, <1>4, <1>6 DEF Before

\* A record of the first n bytes grows by a Store behind its last byte.
LEMMA StoreExtends ==
  ASSUME TypeOK, NEW p \in Position, NEW n \in Nat, NEW m \in Nat,
         NEW first \in Nat, Address(p) = first + m,
         p.offset + n <= SegmentSize, cells' = Store(p, n, m),
         n > 0 => p.id < PositionOf(first).id + QueueCapacitySegments,
         OnTape(first, born, wlen, m)
  PROVE  \A k \in 0 .. m + n - 1 :
           Cell(first + k)' = Mark(first + k, born, wlen, k)
<1> TAKE k \in 0 .. m + n - 1
<1>1. k \in Nat
  OBVIOUS
<1>2. CASE k < m
  <2>1. Cell(first + k) = Mark(first + k, born, wlen, k)
    BY <1>1, <1>2 DEF OnTape, Cell, Mark
  <2>2. first + k \in Nat /\ first + k < Address(p)
    BY <1>1, <1>2
  <2>3. PositionOf(first).id <= PositionOf(first + k).id
    <3>1. PositionOf(first) \in Position /\ PositionOf(first + k) \in Position
          /\ ~ Before(PositionOf(first + k), PositionOf(first))
      BY <1>1, <2>2, PositionOfAddress, OrderOfAddresses
    <3> QED
      BY <3>1 DEF Before, Position
  <2>4. n > 0 => p.id < PositionOf(first + k).id + QueueCapacitySegments
    <3>1. PositionOf(first).id \in Nat /\ PositionOf(first + k).id \in Nat
      BY <2>2, PositionOfAddress DEF Position
    <3> QED
      BY <2>3, <3>1, GeometryAssumption DEF Position
  <2>5. Cell(first + k)' = Cell(first + k)
    BY <2>2, <2>4, StoreKeeps
  <2> QED
    BY <2>1, <2>5
<1>3. CASE k >= m
  <2> DEFINE j == k - m
  <2>1. j \in 0 .. n - 1 /\ Address(p) + j = first + k /\ m + j = k
    BY <1>1, <1>3
  <2> HIDE DEF j
  <2>2. Cell(Address(p) + j)' = Mark(Address(p) + j, born, wlen, m + j)
    BY <2>1, StoreWrites
  <2> QED
    BY <2>1, <2>2
<1> QED
  BY <1>1, <1>2, <1>3

-----------------------------------------------------------------------------
\* The chain of the accepted records.

\* Where a record of this life starts, or the next one will.
Boundary(p) == p = writing \/ \E e \in accepted : e.start = p

\* The accepted records lie on the tape in the order of their events, and the
\* one being written comes after them.
Chained ==
  /\ \A e \in accepted :
       /\ Before(e.start, e.end) /\ AtOrBefore(e.end, writing)
       /\ e.ev <= born
       /\ wpc \in {"length", "bytes", "put"} => e.ev < born
  /\ \A d, e \in accepted :
       /\ d.ev < e.ev => AtOrBefore(d.end, e.start)
       /\ d.ev = e.ev => d = e
  /\ wpc \in {"bytes", "put"} => Before(writing, wat)

\* While the queue is open, the watermark and the one doFlush is about to put
\* are not ahead of the publisher.
Marked ==
  status # "closed" =>
    /\ AtOrBefore(watermark, writing)
    /\ fpc \in {"put", "lastput"} => AtOrBefore(fat, writing)

\* Everything committed and accepted before Close lies before p.
Covers(p) ==
  /\ sound => AtOrBefore(committed, p)
  /\ \A e \in accepted : ~e.late => AtOrBefore(e.end, p)

\* The last flush begins after Close, and covers what was accepted before it.
LastFlush ==
  /\ fpc \in {"lastsync", "lastput", "exit"} => status = "closing"
  /\ fpc = "lastput" => Covers(fat)
  /\ fpc = "exit" => Covers(watermark)

\* A closed queue is not flushed, and its sender holds nothing.
ClosedIsEmpty == status = "closed" => fpc = "idle" /\ unacked = <<>>

\* The records are typed.
LEMMA RecordTypes ==
  ASSUME TypeOK
  PROVE  \A e \in accepted : /\ e.ev \in Nat /\ e.len \in Nat
                             /\ e.start \in Position /\ e.end \in Position
                             /\ e.late \in BOOLEAN
BY DEF TypeOK, Record

\* A boundary is never behind the writing offset.
LEMMA BoundaryBehind ==
  ASSUME TypeOK, Chained, NEW p \in Position, Boundary(p)
  PROVE  AtOrBefore(p, writing)
<1>1. writing \in Position
  BY DEF TypeOK
<1>2. ASSUME NEW e \in accepted, e.start = p PROVE AtOrBefore(p, writing)
  <2>1. e.end \in Position /\ Before(e.start, e.end) /\ AtOrBefore(e.end, writing)
    BY RecordTypes DEF Chained
  <2> QED
    BY <1>1, <1>2, <2>1 DEF AtOrBefore, Before, Position, Offsets
<1> QED
  BY <1>1, <1>2 DEF Boundary, AtOrBefore, Before, Position, Offsets

\* Nothing is written at first.
LEMMA ChainInit == Init => Chained /\ Marked
BY GeometryAssumption DEF Init, Chained, Marked, AtOrBefore, Before, Origin

\* The steps that touch neither the records nor the publisher's progress.
LEMMA ChainFrame ==
  ASSUME Chained, UNCHANGED <<writing, accepted, born>>,
         \/ UNCHANGED <<wpc, wat>>
         \/ wpc' = "idle"
  PROVE  Chained'
BY DEF Chained

\* A step of somebody else leaves the marks where they are.
LEMMA MarkFrame ==
  ASSUME Marked,
         \/ status' = "closed"
         \/ /\ status # "closed" \/ status' = status
            /\ UNCHANGED <<writing, watermark>>
            /\ UNCHANGED <<fpc, fat>> \/ fpc' \notin {"put", "lastput"}
  PROVE  Marked'
BY DEF Marked

\* The records are laid out one after the other, and the watermark follows the
\* publisher.
LEMMA ChainStep ==
  ASSUME EventFits, IndInv, Chained, Marked, ClosedIsEmpty, [Next]_vars
  PROVE  Chained' /\ Marked'
<1> USE DEF meta, producer, consumer, flusher
<1>t. TypeOK /\ TypeOK'
  BY TypeStep DEF IndInv
<1>p. /\ writing \in Position /\ wat \in Position /\ watermark \in Position
      /\ wlen \in Nat /\ wcount \in Nat /\ wcount <= wlen /\ born \in Nat
      /\ fat \in Position
  BY <1>t DEF TypeOK
<1>r. \A e \in accepted : /\ e.ev \in Nat /\ e.len \in Nat
                          /\ e.start \in Position /\ e.end \in Position
  BY <1>t, RecordTypes
<1>1. ASSUME NEW len \in Lengths, EnqueueBegin(len) PROVE Chained' /\ Marked'
  <2>1. \A e \in accepted : e.ev <= born' /\ e.ev < born'
    BY <1>1, <1>p, <1>r DEF EnqueueBegin, Chained
  <2> QED
    BY <1>1, <2>1, MarkFrame DEF EnqueueBegin, Chained
<1>2. CASE WriteLength
  <2>1. Before(writing, wat')
    <3> DEFINE h == HeaderAt(wat)
    <3>1. h \in Position /\ AtOrBefore(wat, h)
          /\ h.offset + uInt64Size <= SegmentSize
      BY <1>p, HeaderProperties
    <3>2. wat' \in Position /\ Address(wat') = Address(h) + uInt64Size
      BY <1>2, <3>1, AdvanceProperties, GeometryAssumption DEF WriteLength
    <3>3. Before(h, wat')
      <4>1. Address(h) \in Nat /\ Address(wat') \in Nat
        BY <3>1, <3>2, AddressOfPosition
      <4>2. Address(h) < Address(wat')
        BY <3>2, <4>1, GeometryAssumption
      <4> HIDE DEF h
      <4> QED
        BY <3>1, <3>2, <4>2, OrderOfAddresses
    <3>4. wat = writing
      BY <1>2 DEF IndInv, WriterBounded, WriteLength
    <3> HIDE DEF h
    <3> QED
      BY <1>p, <3>1, <3>2, <3>3, <3>4 DEF AtOrBefore, Before, Position, Offsets
  <2>2. \A e \in accepted : e.ev < born
    BY <1>2 DEF WriteLength, Chained
  <2> QED
    BY <1>2, <2>1, <2>2, MarkFrame DEF WriteLength, Chained, AtOrBefore, Before
<1>3. CASE WriteBytes
  <2>1. Before(writing, wat')
    <3> DEFINE n == Chunk(wat, wlen - wcount)
    <3>1. n \in Nat /\ wat.offset + n <= SegmentSize
      BY <1>p, ChunkProperties
    <3>2. wat' = Advance(wat, n)
      BY <1>3 DEF WriteBytes
    <3> HIDE DEF n
    <3>3. wat' \in Position /\ AtOrBefore(wat, wat')
      BY <1>p, <3>1, <3>2, AdvanceProperties
    <3>4. Before(writing, wat)
      BY <1>3 DEF Chained, WriteBytes
    <3> QED
      BY <1>p, <3>3, <3>4 DEF AtOrBefore, Before, Position, Offsets
  <2>2. \A e \in accepted : e.ev < born
    BY <1>3 DEF WriteBytes, Chained
  <2> QED
    BY <1>3, <2>1, <2>2, MarkFrame DEF WriteBytes, Chained, AtOrBefore, Before
<1>4. CASE PutWritingOffset
  <2>0. PICK new : new = [ev |-> born, len |-> wlen, start |-> writing,
                          end |-> wat, late |-> status # "open"]
    OBVIOUS
  <2>1. accepted' = accepted \cup {new} /\ writing' = wat /\ born' = born
        /\ wpc' \in {"signal", "idle"}
        /\ UNCHANGED <<watermark, fpc, fat, status>>
        /\ wpc = "put"
    BY <1>4, <2>0 DEF PutWritingOffset
  <2>2. /\ new.ev = born /\ new.start = writing /\ new.end = wat
    BY <2>0
  <2>3. Before(writing, wat) /\ \A e \in accepted : e.ev < born
    BY <2>1 DEF Chained
  <2>6. \A e \in accepted :
          /\ Before(e.start, e.end) /\ AtOrBefore(e.end, writing)
          /\ AtOrBefore(e.end, wat)
    BY <1>p, <1>r, <2>3
    DEF Chained, AtOrBefore, Before, Position, Offsets
  <2>7. AtOrBefore(wat, wat)
    BY <1>p DEF AtOrBefore, Before, Position, Offsets
  <2>8. \A e \in accepted' :
          /\ Before(e.start, e.end) /\ AtOrBefore(e.end, writing')
          /\ e.ev <= born
    BY <1>p, <1>r, <2>1, <2>2, <2>3, <2>6, <2>7
  <2>9. \A d, e \in accepted' :
          /\ d.ev < e.ev => AtOrBefore(d.end, e.start)
          /\ d.ev = e.ev => d = e
    BY <1>p, <1>r, <2>1, <2>2, <2>3, <2>6 DEF Chained
  <2>10. Chained'
    BY <2>1, <2>8, <2>9 DEF Chained, AtOrBefore, Before
  <2>11. \A p \in Position : AtOrBefore(p, writing) => AtOrBefore(p, wat)
    BY <1>p, <2>3 DEF AtOrBefore, Before, Position, Offsets
  <2>12. Marked'
    BY <1>p, <2>1, <2>11 DEF Marked, AtOrBefore, Before
  <2> QED
    BY <2>10, <2>12
<1>5. CASE Dequeue \/ Acknowledge \/ Close \/ UNCHANGED vars
  BY <1>5, ChainFrame, MarkFrame
  DEF Dequeue, DequeueBegin, ReadLength, ReadBytes, PutReadingOffset,
      Acknowledge, Ack, Close, vars
<1>6. CASE FlushOnTimer \/ FlushOnSignal \/ FlushOnDone
  BY <1>6, ChainFrame, MarkFrame DEF FlushOnTimer, FlushOnSignal, FlushOnDone
<1>7. CASE FlushGetWriting
  <2>1. Marked'
    BY <1>7, <1>p
    DEF FlushGetWriting, Marked, AtOrBefore, Before, Position, Offsets
  <2> QED
    BY <1>7, <2>1, ChainFrame DEF FlushGetWriting
<1>8. CASE FlushPutWatermark
  <2>1. Marked'
    BY <1>8 DEF FlushPutWatermark, Marked, AtOrBefore, Before
  <2> QED
    BY <1>8, <2>1, ChainFrame DEF FlushPutWatermark
<1>9. CASE LoseMemory
  BY <1>9, ChainFrame, MarkFrame DEF LoseMemory
<1>10. CASE Initialize
  <2>1. /\ accepted' = {e \in accepted : AtOrBefore(e.end, watermark)}
        /\ writing' = watermark /\ watermark' = watermark
        /\ UNCHANGED <<wpc, wat, born, fpc, fat>>
        /\ status = "closed"
    BY <1>10 DEF Initialize
  <2>2. wpc = "idle"
    BY <2>1 DEF IndInv, ClosedIsIdle
  <2>5. \A e \in accepted' : e \in accepted /\ AtOrBefore(e.end, writing')
    BY <2>1
  <2>6. Chained'
    BY <2>1, <2>2, <2>5 DEF Chained, AtOrBefore, Before
  <2>7. fpc \notin {"put", "lastput"}
    BY <2>1 DEF ClosedIsEmpty
  <2>8. Marked'
    BY <1>p, <2>1, <2>7
    DEF Marked, AtOrBefore, Before, Position, Offsets
  <2> QED
    BY <2>6, <2>8
<1> QED
  BY <1>1, <1>2, <1>3, <1>4, <1>5, <1>6, <1>7, <1>8, <1>9, <1>10
  DEF Next, Enqueue, Flush, Exit, Crash, PollEmpty

-----------------------------------------------------------------------------
\* The last flush.

\* The delivered events the sender holds, and the committed offset, are not
\* ahead of the reading offset.
AcksBehind ==
  /\ status # "closed" => AtOrBefore(committed, reading)
  /\ \A j \in 1 .. Len(unacked) : AtOrBefore(unacked[j], reading)

\* A step of somebody else leaves to the last flush what it covers.
LEMMA FlushFrame ==
  ASSUME LastFlush, UNCHANGED <<fpc, fat, status, watermark, sound, committed>>,
         \A e \in accepted' :
           e \in accepted \/ (status # "open" => e.late) 
  PROVE  LastFlush'
<1>1. ASSUME NEW p, Covers(p), status = "closing" PROVE Covers(p)'
  BY <1>1 DEF Covers
<1> QED
  BY <1>1 DEF LastFlush

\* The last flush covers every record that was accepted before Close.
LEMMA FlushStep ==
  ASSUME IndInv, Chained, LastFlush, ClosedIsEmpty,
         sound => Boundary(reading) /\ AcksBehind, [Next]_vars
  PROVE  LastFlush'
<1> USE DEF meta, producer, consumer, flusher
<1>t. TypeOK
  BY DEF IndInv
<1>1. ASSUME NEW len \in Lengths, EnqueueBegin(len) PROVE LastFlush'
  BY <1>1, FlushFrame DEF EnqueueBegin
<1>2. CASE WriteLength \/ WriteBytes
  BY <1>2, FlushFrame DEF WriteLength, WriteBytes
<1>3. CASE PutWritingOffset
  <2> DEFINE new == [ev |-> born, len |-> wlen, start |-> writing, end |-> wat,
                     late |-> status # "open"]
  <2>1. accepted' = accepted \cup {new}
    BY <1>3 DEF PutWritingOffset
  <2>2. status # "open" => new.late
    OBVIOUS
  <2> HIDE DEF new
  <2>3. \A e \in accepted' : e \in accepted \/ (status # "open" => e.late)
    BY <2>1, <2>2
  <2> QED
    BY <1>3, <2>3, FlushFrame DEF PutWritingOffset
<1>4. CASE Dequeue \/ UNCHANGED vars
  BY <1>4, FlushFrame
  DEF Dequeue, DequeueBegin, ReadLength, ReadBytes, PutReadingOffset, vars
<1>5. CASE Acknowledge \/ Close
  BY <1>5 DEF Acknowledge, Ack, Close, LastFlush
<1>6. CASE FlushOnTimer \/ FlushOnSignal
  <2>1. fpc' = "sync" /\ status' = status
    BY <1>6 DEF FlushOnTimer, FlushOnSignal
  <2>2. status # "closed"
    BY <1>6 DEF FlushOnTimer, FlushOnSignal, IndInv, ClosedIsIdle
  <2> QED
    BY <2>1, <2>2 DEF LastFlush
<1>7. CASE FlushOnDone
  BY <1>7 DEF FlushOnDone, LastFlush
<1>8. CASE FlushGetWriting
  <2>1. fpc = "lastsync" => Covers(writing)
    <3>1. sound => AtOrBefore(committed, writing)
      <4> SUFFICES ASSUME sound PROVE AtOrBefore(committed, writing)
        OBVIOUS
      <4>1. AtOrBefore(committed, reading) /\ AtOrBefore(reading, writing)
        BY <1>8, <1>t, BoundaryBehind
        DEF AcksBehind, TypeOK, FlushGetWriting, ClosedIsEmpty
      <4> QED
        BY <1>t, <4>1, OrderTransitive DEF TypeOK
    <3> QED
      BY <3>1 DEF Covers, Chained
  <2>2. ASSUME NEW p, Covers(p) PROVE Covers(p)'
    BY <1>8, <2>2 DEF FlushGetWriting, Covers
  <2>3. PICK p : p = writing
    OBVIOUS
  <2>4. fpc = "lastsync" => Covers(p)'
    BY <2>1, <2>2, <2>3
  <2>5. /\ fpc' = "lastput" => fpc = "lastsync" 
        /\ fpc' \in {"put", "lastput"} /\ fat' = p
        /\ status' = status
    BY <1>8, <2>3 DEF FlushGetWriting, LastFlush
  <2>6. fpc' = "lastput" => Covers(fat)'
    BY <2>4, <2>5 DEF Covers
  <2> QED
    BY <1>8, <2>5, <2>6 DEF LastFlush
<1>9. CASE FlushPutWatermark
  <2>1. ASSUME NEW p, Covers(p) PROVE Covers(p)'
    BY <1>9, <2>1 DEF FlushPutWatermark, Covers
  <2>2. PICK p : p = fat
    OBVIOUS
  <2>3. fpc = "lastput" => Covers(p)'
    BY <2>1, <2>2 DEF LastFlush
  <2>4. /\ fpc' = "exit" => fpc = "lastput"
        /\ fpc' \in {"idle", "exit"} /\ watermark' = p
        /\ status' = status
    BY <1>9, <2>2 DEF FlushPutWatermark, LastFlush
  <2>5. fpc' = "exit" => Covers(watermark)'
    BY <2>3, <2>4 DEF Covers
  <2> QED
    BY <2>4, <2>5 DEF LastFlush
<1>10. CASE LoseMemory
  BY <1>10 DEF LoseMemory, LastFlush
<1>11. CASE Initialize
  BY <1>11 DEF Initialize, ClosedIsEmpty, LastFlush
<1> QED
  BY <1>1, <1>2, <1>3, <1>4, <1>5, <1>6, <1>7, <1>8, <1>9, <1>10, <1>11
  DEF Next, Enqueue, Flush, Exit, Crash, PollEmpty

\* A closed queue holds no batch that could be acknowledged.
LEMMA ClosedStep ==
  ASSUME IndInv, ClosedIsEmpty, [Next]_vars
  PROVE  ClosedIsEmpty'
<1> USE DEF meta, producer, consumer, flusher
<1>1. CASE UNCHANGED <<status, fpc, unacked>>
  BY <1>1 DEF ClosedIsEmpty
<1>2. ASSUME NEW len \in Lengths, EnqueueBegin(len)
      PROVE  UNCHANGED <<status, fpc, unacked>>
  BY <1>2 DEF EnqueueBegin
<1>3. CASE WriteLength \/ WriteBytes \/ PutWritingOffset \/ UNCHANGED vars
  BY <1>1, <1>3 DEF WriteLength, WriteBytes, PutWritingOffset, vars
<1>4. CASE Dequeue
  BY <1>4
  DEF Dequeue, DequeueBegin, ReadLength, ReadBytes, PutReadingOffset,
      IndInv, ClosedIsIdle, ClosedIsEmpty
<1>5. CASE Acknowledge \/ Close
  BY <1>5 DEF Acknowledge, Ack, Close, ClosedIsEmpty
<1>6. CASE Flush
  BY <1>6
  DEF Flush, FlushOnTimer, FlushOnSignal, FlushOnDone, FlushGetWriting,
      FlushPutWatermark, IndInv, ClosedIsIdle, ClosedIsEmpty
<1>7. CASE LoseMemory \/ Initialize
  BY <1>7 DEF LoseMemory, Initialize, ClosedIsEmpty
<1> QED
  BY <1>1, <1>2, <1>3, <1>4, <1>5, <1>6, <1>7
  DEF Next, Enqueue, Exit, Crash, PollEmpty

-----------------------------------------------------------------------------
\* The record that is being written.

\* What has been written of the current record is on the tape, and the cursor
\* is behind it.
Written ==
  wpc \in {"bytes", "put"} =>
    LET first == Address(HeaderAt(writing))
    IN /\ wat = PositionOf(first + uInt64Size + wcount)
       /\ OnTape(first, born, wlen, uInt64Size + wcount)
       /\ wpc = "put" => wcount = wlen

\* In the next state, from the bytes one by one.
LEMMA OnTapeNext ==
  ASSUME NEW first, NEW ev, NEW len, NEW n,
         \A k \in 0 .. n - 1 : Cell(first + k)' = Mark(first + k, ev, len, k)
  PROVE  OnTape(first, ev, len, n)'
BY DEF OnTape, Cell, Mark

\* The bytes of a record that lies between the reading and the writing offset
\* stay.
LEMMA IntactKept ==
  ASSUME TypeOK, Preserved(reading, writing), NEW e \in accepted, Intact(e),
         AtOrBefore(reading, e.start), AtOrBefore(e.end, writing)
  PROVE  Intact(e)'
<1> DEFINE h == HeaderAt(e.start)
           first == Address(h)
           n == uInt64Size + e.len
<1>1. /\ e.len \in Nat /\ e.start \in Position /\ e.end \in Position
      /\ reading \in Position /\ writing \in Position
  BY RecordTypes DEF TypeOK
<1>2. h \in Position /\ AtOrBefore(e.start, h)
  BY <1>1, HeaderProperties
<1>3. first \in Nat /\ n \in Nat
  BY <1>1, <1>2, AddressOfPosition, GeometryAssumption
<1>4. e.end = PositionOf(first + n) /\ OnTape(first, e.ev, e.len, n)
  BY <1>1, <1>3, GeometryAssumption DEF Intact
<1>5. Address(reading) <= first /\ first + n <= Address(writing)
  <2>1. Address(e.end) = first + n
    BY <1>3, <1>4, PositionOfAddress
  <2>2. ~ (Address(h) < Address(e.start)) /\ ~ (Address(e.start) < Address(reading))
        /\ ~ (Address(writing) < Address(e.end))
    BY <1>1, <1>2, OrderOfAddresses DEF AtOrBefore
  <2>3. Address(h) \in Nat /\ Address(e.start) \in Nat /\ Address(reading) \in Nat
        /\ Address(writing) \in Nat
    BY <1>1, <1>2, AddressOfPosition
  <2> HIDE DEF h
  <2> QED
    BY <1>3, <2>1, <2>2, <2>3
<1> HIDE DEF h, first, n
<1>6. ASSUME NEW k \in 0 .. n - 1
      PROVE  Cell(first + k)' = Mark(first + k, e.ev, e.len, k)
  <2> DEFINE a == first + k
             q == PositionOf(a)
             x == GetIndex(q.id)
  <2>1. a \in Nat /\ Address(reading) <= a /\ a < Address(writing)
    BY <1>1, <1>3, <1>5, AddressOfPosition
  <2> HIDE DEF a
  <2>2. q \in Position /\ Address(q) = a
    BY <2>1, PositionOfAddress
  <2>3. cells[x][q.offset] = [id |-> q.id, ev |-> e.ev, len |-> e.len, k |-> k]
    BY <1>4 DEF OnTape, a
  <2>4. Between(q, reading, writing)
    <3>1. ~ (Address(q) < Address(reading)) /\ Address(q) < Address(writing)
      BY <1>1, <2>1, <2>2, AddressOfPosition
    <3> QED
      BY <1>1, <2>2, <3>1, OrderOfAddresses DEF Between, AtOrBefore
  <2>5. x \in Indexes /\ q.offset \in Offsets /\ q.id \in Nat
        /\ q = [id |-> q.id, offset |-> q.offset]
    BY <2>2, IndexInRing DEF Position
  <2> HIDE DEF q, x
  <2>6. cells[x][q.offset].id = q.id
    BY <2>3
  <2>7. cells'[x][q.offset] = cells[x][q.offset]
    BY <2>4, <2>5, <2>6 DEF Preserved
  <2> QED
    BY <2>3, <2>7 DEF Cell, Mark, a, q, x
<1>7. OnTape(first, e.ev, e.len, n)'
  BY <1>6, OnTapeNext
<1> QED
  BY <1>4, <1>7 DEF Intact, first, h, n

\* Every write adds its bytes behind those of the earlier ones, which are less
\* than a ring away.
LEMMA WrittenStep ==
  ASSUME IndInv, Chained, Boundary(reading), Written,
         [Next]_vars
  PROVE  Written'
<1> USE DEF meta, producer, consumer, flusher
<1>t. TypeOK
  BY DEF IndInv
<1>p. /\ writing \in Position /\ wat \in Position /\ reading \in Position
      /\ wlen \in Nat /\ wcount \in Nat /\ wcount <= wlen /\ born \in Nat
      /\ uInt64Size \in Nat
  BY <1>t, GeometryAssumption DEF TypeOK
<1>1. CASE WriteLength
  <2>0. wat = writing /\ wcount = 0
    BY <1>1 DEF WriteLength, IndInv, WriterBounded
  <2>1. PICK h : h = HeaderAt(writing)
    OBVIOUS
  <2>2. h \in Position /\ h.offset + uInt64Size <= SegmentSize
    BY <1>p, <2>1, HeaderProperties
  <2>3. PICK first \in Nat : first = Address(h)
    BY <2>2, AddressOfPosition
  <2>4. PositionOf(first) = h
    BY <2>2, <2>3, AddressOfPosition
  <2>5. cells' = Store(h, uInt64Size, 0) /\ wat' = Advance(h, uInt64Size)
        /\ wpc' = "bytes"
        /\ UNCHANGED <<wlen, wcount, born, writing>>
    BY <1>1, <2>0, <2>1 DEF WriteLength
  <2>6. wat' = PositionOf(first + uInt64Size)
    BY <1>p, <2>2, <2>3, <2>5, AdvanceIs
  <2>7. OnTape(first, born, wlen, 0)
    BY DEF OnTape
  <2>8. \A k \in 0 .. 0 + uInt64Size - 1 :
          Cell(first + k)' = Mark(first + k, born, wlen, k)
    <3>1. Address(h) = first + 0
      BY <2>3
    <3>2. h.id < PositionOf(first).id + QueueCapacitySegments
      BY <2>2, <2>4, GeometryAssumption DEF Position
    <3> QED
      BY <1>p, <1>t, <2>2, <2>5, <2>7, <3>1, <3>2, StoreExtends
  <2>9. PICK b, l : b = born /\ l = wlen
    OBVIOUS
  <2>10. OnTape(first, b, l, uInt64Size)'
    BY <1>p, <2>8, <2>9, OnTapeNext
  <2>11. OnTape(first, born, wlen, uInt64Size)'
    BY <2>5, <2>9, <2>10 DEF OnTape
  <2> QED
    BY <1>p, <2>0, <2>1, <2>3, <2>5, <2>6, <2>11 DEF Written, Address, HeaderAt
<1>2. CASE WriteBytes
  <2> DEFINE spare == MaxEventSize \div SegmentSize
  <2>1. PICK h, first, b, l, m :
          /\ h = HeaderAt(writing) /\ first = Address(h) /\ b = born /\ l = wlen
          /\ m = uInt64Size + wcount
    OBVIOUS
  <2>2. h \in Position /\ writing.id <= h.id /\ first \in Nat /\ m \in Nat
        /\ PositionOf(first) = h
    BY <1>p, <2>1, HeaderProperties, AddressOfPosition
  <2>3. PICK n : n = Chunk(wat, wlen - wcount)
    OBVIOUS
  <2>4. n \in Nat /\ n <= wlen - wcount /\ wat.offset + n <= SegmentSize
    BY <1>p, <2>3, ChunkProperties
  <2>5. /\ cells' = Store(wat, n, m) /\ wat' = Advance(wat, n)
        /\ wcount' = wcount + n
        /\ wpc' = IF wcount + n = wlen THEN "put" ELSE "bytes"
        /\ UNCHANGED <<wlen, born, writing>>
    BY <1>2, <2>1, <2>3 DEF WriteBytes
  <2>6. wat = PositionOf(first + m) /\ OnTape(first, b, l, m)
    BY <1>2, <1>p, <2>1, <2>2 DEF Written, WriteBytes
  <2>7. Address(wat) = first + m
    BY <2>2, <2>6, PositionOfAddress
  <2>8. n > 0 => wat.id < PositionOf(first).id + QueueCapacitySegments
    <3> SUFFICES ASSUME n > 0 PROVE wat.id < h.id + QueueCapacitySegments
      BY <2>2
    <3>1. /\ ~Full(reading, writing)
          /\ Address(wat) + (wlen - wcount)
               <= (writing.id + spare + 2) * SegmentSize
      BY <1>2 DEF IndInv, WriterBounded, WriteBytes
    <3>2. spare \in Nat /\ writing.id + spare + 2 \in Nat
          /\ wlen - wcount \in Nat \ {0}
      BY <1>p, <2>4, GeometryAssumption DEF Position
    <3> HIDE DEF spare
    <3>3. wat.id < writing.id + spare + 2
      BY <1>p, <3>1, <3>2, CursorInWindow
    <3>4. AtOrBefore(reading, writing)
      BY <1>t, <1>p, BoundaryBehind
    <3>5. reading.id <= writing.id
      BY <1>p, <3>4 DEF AtOrBefore, Before, Position
    <3>6. writing.id < reading.id + QueueCapacitySegments - 1 - spare
      BY <1>p, <3>1, <3>2, GeometryAssumption DEF Full, Position, spare
    <3> QED
      BY <1>p, <2>2, <3>2, <3>3, <3>5, <3>6, GeometryAssumption DEF Position
  <2>9. \A k \in 0 .. m + n - 1 : Cell(first + k)' = Mark(first + k, b, l, k)
    BY <1>p, <1>t, <2>1, <2>2, <2>4, <2>5, <2>6, <2>7, <2>8, StoreExtends
  <2>10. OnTape(first, b, l, m + n)'
    BY <2>2, <2>4, <2>9 DEF OnTape, Cell, Mark
  <2>11. m + n = uInt64Size + wcount'
    BY <1>p, <2>1, <2>4, <2>5
  <2>12. wat' = PositionOf(first + uInt64Size + wcount')
    <3>1. wat' = PositionOf((first + m) + n)
      BY <1>p, <2>4, <2>5, <2>7, AdvanceIs
    <3>2. (first + m) + n = first + uInt64Size + wcount'
      BY <1>p, <2>1, <2>2, <2>4, <2>5
    <3> QED
      BY <3>1, <3>2
  <2>13. OnTape(first, born, wlen, uInt64Size + wcount)'
    BY <2>1, <2>5, <2>10, <2>11 DEF OnTape
  <2>14. first = Address(HeaderAt(writing))'
    BY <2>1, <2>5 DEF Address, HeaderAt
  <2> QED
    BY <2>5, <2>12, <2>13, <2>14 DEF Written
<1>3. CASE UNCHANGED <<cells, writing, wpc, wat, wlen, wcount, born>>
  BY <1>3 DEF Written, OnTape, Address, HeaderAt, PositionOf
<1>4. CASE wpc' \notin {"bytes", "put"}
  BY <1>4 DEF Written
<1>5. ASSUME NEW len \in Lengths, EnqueueBegin(len) PROVE Written'
  BY <1>4, <1>5 DEF EnqueueBegin
<1>6. CASE PutWritingOffset
  BY <1>4, <1>6 DEF PutWritingOffset
<1>7. CASE Dequeue
  BY <1>3, <1>7 DEF Dequeue, DequeueBegin, ReadLength, ReadBytes, PutReadingOffset
<1>8. CASE Acknowledge \/ Close \/ UNCHANGED vars
  BY <1>3, <1>8 DEF Acknowledge, Ack, Close, vars
<1>9. CASE FlushOnTimer \/ FlushOnDone \/ FlushGetWriting \/ FlushPutWatermark
  BY <1>3, <1>9 DEF FlushOnTimer, FlushOnDone, FlushGetWriting, FlushPutWatermark
<1>10. CASE FlushOnSignal
  BY <1>4, <1>10 DEF FlushOnSignal
<1>11. CASE LoseMemory
  BY <1>4, <1>11 DEF LoseMemory
<1>12. CASE Initialize
  BY <1>4, <1>12 DEF Initialize, IndInv, ClosedIsIdle
<1> QED
  BY <1>1, <1>2, <1>5, <1>6, <1>7, <1>8, <1>9, <1>10, <1>11, <1>12
  DEF Next, Enqueue, Flush, Exit, Crash, PollEmpty

-----------------------------------------------------------------------------
\* The record that is being read.

\* Dequeue is at record e: the length it found is the record's, and what it has
\* got so far is the beginning of the payload.
Reads(e) ==
  /\ e.start = reading
  /\ rpc = "length" => rat = reading
  /\ rpc \in {"bytes", "put"} =>
       /\ rlen = e.len
       /\ rat = PositionOf(Address(HeaderAt(reading)) + uInt64Size + Len(rgot))
       /\ \A j \in 1 .. Len(rgot) : rgot[j] = <<e.ev, j>>
  /\ rpc = "put" => Len(rgot) = rlen

Delivering == rpc # "idle" => \E e \in accepted : Reads(e)

\* A record that is on the tape reads as its own length.
LEMMA HeaderReads ==
  ASSUME TypeOK, NEW e \in accepted, Intact(e)
  PROVE  LengthsAt(HeaderAt(e.start)) = {e.len}
<1> DEFINE h == HeaderAt(e.start)
           first == Address(h)
           at(k) == cells[GetIndex(h.id)][h.offset + k]
<1>1. e.len \in Nat /\ e.start \in Position
  BY RecordTypes
<1>2. h \in Position /\ h.offset + uInt64Size <= SegmentSize /\ first \in Nat
  BY <1>1, HeaderProperties, AddressOfPosition
<1>3. OnTape(first, e.ev, e.len, uInt64Size + e.len)
  BY DEF Intact
<1>4. uInt64Size \in Nat \ {0}
  BY GeometryAssumption
<1> HIDE DEF h
<1>5. ASSUME NEW k \in 0 .. uInt64Size - 1
      PROVE  at(k) = [id |-> h.id, ev |-> e.ev, len |-> e.len, k |-> k]
  <2>1. k \in Nat /\ h.offset + k < SegmentSize /\ k \in 0 .. uInt64Size + e.len - 1
    BY <1>1, <1>2, <1>4, GeometryAssumption DEF Position, Offsets
  <2>2. PositionOf(first + k) = [id |-> h.id, offset |-> h.offset + k]
    BY <1>2, <2>1, WithinSegment
  <2> HIDE DEF first
  <2>3. Cell(first + k) = Mark(first + k, e.ev, e.len, k)
    BY <1>1, <1>2, <1>3, <1>4, <2>1 DEF OnTape, Cell, Mark
  <2> QED
    BY <2>2, <2>3 DEF Cell, Mark
<1>6. 0 \in 0 .. uInt64Size - 1
  BY <1>4
<1>7. at(0) = [id |-> h.id, ev |-> e.ev, len |-> e.len, k |-> 0]
  BY <1>5, <1>6
<1>8. \A k \in 0 .. uInt64Size - 1 : at(k) = [at(0) EXCEPT !.k = k]
  <2> TAKE k \in 0 .. uInt64Size - 1
  <2>1. at(k) = [id |-> h.id, ev |-> e.ev, len |-> e.len, k |-> k]
    BY <1>5
  <2> HIDE DEF at
  <2> QED
    BY <1>7, <2>1
<1>9. LengthsAt(h) = {at(0).len}
  BY <1>8 DEF LengthsAt
<1>10. at(0).len = e.len
  <2> HIDE DEF at
  <2> QED BY <1>7
<1> QED
  BY <1>9, <1>10 DEF h

\* Reading a length starts the payload of the record.
LEMMA LengthRead ==
  ASSUME TypeOK, NEW e \in accepted, Intact(e), Reads(e), ReadLength
  PROVE  Reads(e)'
<1> DEFINE h == HeaderAt(reading)
<1>1. rat = reading /\ e.start = reading
  BY DEF Reads, ReadLength
<1>2. /\ rlen' \in LengthsAt(h) /\ rat' = Advance(h, uInt64Size)
      /\ rgot' = <<>> /\ rpc' = "bytes" /\ reading' = reading
  BY <1>1 DEF ReadLength, meta
<1>3. rlen' = e.len
  BY <1>1, <1>2, HeaderReads
<1>4. h \in Position /\ h.offset + uInt64Size <= SegmentSize
      /\ Address(h) \in Nat
  BY HeaderProperties, AddressOfPosition DEF TypeOK
<1>5. rat' = PositionOf(Address(h) + uInt64Size)
  BY <1>2, <1>4, AdvanceIs, GeometryAssumption
<1>6. Address(h) + uInt64Size + Len(rgot') = Address(h) + uInt64Size
  BY <1>2, <1>4, GeometryAssumption
<1>7. rat' = PositionOf(Address(HeaderAt(reading')) + uInt64Size + Len(rgot'))
  BY <1>2, <1>5, <1>6
<1>8. Len(rgot') = 0
  BY <1>2
<1> QED
  BY <1>1, <1>2, <1>3, <1>7, <1>8 DEF Reads, Address, HeaderAt, PositionOf

\* Reading a piece of the payload adds the bytes of the record.
LEMMA BytesRead ==
  ASSUME TypeOK, NEW e \in accepted, Intact(e), Reads(e), ReadBytes
  PROVE  Reads(e)'
<1>0. PICK first, m, n :
        /\ first = Address(HeaderAt(reading))
        /\ m = Len(rgot) /\ n = Chunk(rat, rlen - Len(rgot))
  OBVIOUS
<1> DEFINE at(j) == cells[GetIndex(rat.id)][rat.offset + j - 1]
           piece == [j \in 1 .. n |-> <<at(j).ev, at(j).k - uInt64Size + 1>>]
<1>1. /\ rlen = e.len /\ e.start = reading
      /\ rat = PositionOf(first + uInt64Size + m)
      /\ \A j \in 1 .. m : rgot[j] = <<e.ev, j>>
  BY <1>0 DEF Reads, ReadBytes
<1>2. /\ e.len \in Nat /\ reading \in Position /\ rat \in Position
      /\ rgot \in Seq(Nat \X Int) /\ m \in Nat /\ m <= rlen /\ rlen \in Nat
      /\ first \in Nat /\ uInt64Size \in Nat
  BY <1>0, RecordTypes, HeaderProperties, AddressOfPosition, GeometryAssumption
  DEF TypeOK
<1>3. n \in Nat /\ n <= rlen - m /\ rat.offset + n <= SegmentSize
  <2>1. rlen - m \in Nat /\ n = Chunk(rat, rlen - m)
    BY <1>0, <1>2
  <2> QED
    BY <1>2, <2>1, ChunkProperties
<1>4. /\ rgot' = rgot \o piece /\ rat' = Advance(rat, n)
      /\ rpc' = IF m + n = rlen THEN "put" ELSE "bytes"
      /\ rlen' = rlen /\ reading' = reading
  BY <1>0 DEF ReadBytes, meta
<1>5. Address(rat) = first + uInt64Size + m
  BY <1>1, <1>2, PositionOfAddress
<1>6. \A k \in 0 .. (uInt64Size + e.len) - 1 :
        Cell(first + k) = Mark(first + k, e.ev, e.len, k)
  <2>1. OnTape(first, e.ev, e.len, uInt64Size + e.len)
    BY <1>0, <1>1 DEF Intact
  <2> QED
    BY <2>1, OnTapeIs
<1>7. ASSUME NEW j \in 1 .. n
      PROVE  at(j).ev = e.ev /\ at(j).k - uInt64Size + 1 = m + j
  <2> DEFINE k == uInt64Size + m + j - 1
  <2>0. k \in 0 .. (uInt64Size + e.len) - 1 /\ j - 1 \in Nat
    BY <1>1, <1>2, <1>3
  <2>1. /\ rat.offset + (j - 1) < SegmentSize
        /\ Address(rat) + (j - 1) = first + k
    BY <1>2, <1>3, <1>5, GeometryAssumption DEF Position, Offsets
  <2>2. PositionOf(first + k) = [id |-> rat.id, offset |-> rat.offset + (j - 1)]
    BY <1>2, <2>0, <2>1, WithinSegment
  <2>3. rat.offset + (j - 1) = rat.offset + j - 1
    BY <1>2 DEF Position, Offsets
  <2>4. k - uInt64Size + 1 = m + j
    BY <1>2
  <2> HIDE DEF k
  <2>5. Cell(first + k) = Mark(first + k, e.ev, e.len, k)
    BY <1>6, <2>0
  <2>6. at(j) = [id |-> rat.id, ev |-> e.ev, len |-> e.len, k |-> k]
    BY <2>2, <2>3, <2>5 DEF Cell, Mark
  <2> HIDE DEF at
  <2> QED
    BY <2>4, <2>6
<1>8. piece \in Seq(Nat \X Int) /\ Len(piece) = n
      /\ \A j \in 1 .. n : piece[j] = <<e.ev, m + j>>
  <2>1. \A j \in 1 .. n : piece[j] = <<at(j).ev, at(j).k - uInt64Size + 1>>
    OBVIOUS
  <2> HIDE DEF at
  <2>2. \A j \in 1 .. n : piece[j] = <<e.ev, m + j>>
    BY <1>7, <2>1
  <2>3. e.ev \in Nat
    BY RecordTypes
  <2>4. piece \in [1 .. n -> Nat \X Int]
    <3>1. piece = [j \in 1 .. n |-> <<e.ev, m + j>>]
      BY <1>7
    <3> QED
      BY <1>2, <2>3, <3>1
  <2> HIDE DEF piece
  <2> QED
    BY <1>3, <2>2, <2>4, FunctionIsSequence
<1> HIDE DEF piece
<1>9. /\ Len(rgot') = m + n
      /\ \A j \in 1 .. m + n :
           rgot'[j] = IF j <= m THEN rgot[j] ELSE piece[j - m]
  <2>1. /\ Len(rgot \o piece) = Len(rgot) + Len(piece)
        /\ \A j \in 1 .. Len(rgot) + Len(piece) :
             (rgot \o piece)[j] = IF j <= Len(rgot) THEN rgot[j]
                                  ELSE piece[j - Len(rgot)]
    BY <1>2, <1>8, ConcatProperties
  <2> QED
    BY <1>0, <1>4, <1>8, <2>1
<1>10. \A j \in 1 .. m + n : rgot'[j] = <<e.ev, j>>
  <2> TAKE j \in 1 .. m + n
  <2>1. CASE j <= m
    <3>1. j \in 1 .. m
      BY <1>2, <1>3, <2>1
    <3> QED
      BY <1>1, <1>9, <2>1, <3>1
  <2>2. CASE ~ j <= m
    <3>1. j - m \in 1 .. n /\ m + (j - m) = j
      BY <1>2, <1>3, <2>2
    <3> QED
      BY <1>8, <1>9, <2>2, <3>1
  <2> QED
    BY <2>1, <2>2
<1>11. rat' = PositionOf(first + uInt64Size + Len(rgot'))
  <2>1. rat' = PositionOf((first + uInt64Size + m) + n)
    BY <1>2, <1>3, <1>4, <1>5, AdvanceIs
  <2>2. (first + uInt64Size + m) + n = first + uInt64Size + Len(rgot')
    BY <1>2, <1>3, <1>9
  <2> QED
    BY <2>1, <2>2
<1>12. first = Address(HeaderAt(reading'))
  BY <1>0, <1>4
<1> QED
  BY <1>1, <1>4, <1>9, <1>10, <1>11, <1>12
  DEF Reads, Address, HeaderAt, PositionOf

-----------------------------------------------------------------------------
\* The invariant of the records.

\* Every record that was not read is followed by another, or by the space to
\* write.
Joined == \A e \in accepted : AtOrBefore(reading, e.start) => Boundary(e.end)

\* What a life that resumed from sound files keeps to.
Consistent ==
  /\ Boundary(reading) /\ Joined /\ AcksBehind /\ UnreadIntact
  /\ Written /\ Delivering

RecordsInv ==
  /\ IndInv /\ Chained /\ Marked /\ LastFlush /\ ClosedIsEmpty
  /\ sound => Consistent

\* The record at the reading offset is on the tape, and ends before the
\* writing offset.
LEMMA NextRecord ==
  ASSUME TypeOK, Chained, sound, UnreadIntact, NEW e \in accepted,
         AtOrBefore(reading, e.start)
  PROVE  Intact(e) /\ Between(e.start, reading, writing)
<1>1. e.start \in Position /\ e.end \in Position /\ reading \in Position
      /\ writing \in Position
  BY RecordTypes DEF TypeOK
<1>2. Before(e.start, e.end) /\ AtOrBefore(e.end, writing)
  BY DEF Chained
<1>3. Between(e.start, reading, writing)
  BY <1>1, <1>2 DEF Between, AtOrBefore, Before, Position, Offsets
<1> QED
  BY <1>3 DEF UnreadIntact

\* Only a restart forgets boundaries.
LEMMA BoundaryKept ==
  ASSUME [Next]_vars, ~ Initialize
  PROVE  /\ accepted \subseteq accepted'
         /\ sound' = sound
         /\ \A p : Boundary(p) => Boundary(p)'
<1> USE DEF meta, producer, consumer, flusher
<1>1. CASE UNCHANGED <<writing, accepted, sound>>
  BY <1>1 DEF Boundary
<1>2. CASE PutWritingOffset
  <2>1. PICK new : new = [ev |-> born, len |-> wlen, start |-> writing,
                          end |-> wat, late |-> status # "open"]
    OBVIOUS
  <2>2. accepted' = accepted \cup {new} /\ new.start = writing /\ sound' = sound
    BY <1>2, <2>1 DEF PutWritingOffset
  <2> QED
    BY <2>2 DEF Boundary
<1>3. ASSUME NEW len \in Lengths, EnqueueBegin(len)
      PROVE  UNCHANGED <<writing, accepted, sound>>
  BY <1>3 DEF EnqueueBegin
<1>4. CASE WriteLength \/ WriteBytes \/ Dequeue \/ UNCHANGED vars
  BY <1>1, <1>4 DEF WriteLength, WriteBytes, Dequeue, DequeueBegin,
    ReadLength, ReadBytes, PutReadingOffset, vars
<1>5. CASE Acknowledge \/ Close \/ LoseMemory
  BY <1>1, <1>5 DEF Acknowledge, Ack, Close, LoseMemory
<1>6. CASE Flush
  BY <1>1, <1>6 DEF Flush, FlushOnTimer, FlushOnSignal, FlushOnDone,
    FlushGetWriting, FlushPutWatermark
<1> QED
  BY <1>1, <1>2, <1>3, <1>4, <1>5, <1>6
  DEF Next, Enqueue, Exit, Crash, PollEmpty

\* The steps of everybody but the consumer leave its call alone.
LEMMA ConsumerAlone ==
  ASSUME [Next]_vars, ~ Dequeue, ~ LoseMemory, ~ Initialize
  PROVE  UNCHANGED <<reading, rpc, rat, rlen, rgot>>
<1> USE DEF meta, producer, consumer, flusher
<1>1. ASSUME NEW len \in Lengths, EnqueueBegin(len)
      PROVE  UNCHANGED <<reading, rpc, rat, rlen, rgot>>
  BY <1>1 DEF EnqueueBegin
<1>2. CASE WriteLength \/ WriteBytes \/ PutWritingOffset \/ UNCHANGED vars
  BY <1>2 DEF WriteLength, WriteBytes, PutWritingOffset, vars
<1>3. CASE Acknowledge \/ Close
  BY <1>3 DEF Acknowledge, Ack, Close
<1>4. CASE Flush
  BY <1>4 DEF Flush, FlushOnTimer, FlushOnSignal, FlushOnDone,
    FlushGetWriting, FlushPutWatermark
<1> QED
  BY <1>1, <1>2, <1>3, <1>4 DEF Next, Enqueue, Exit, Crash, PollEmpty

\* The bytes that were read are those of one record.
LEMMA DeliveringStep ==
  ASSUME IndInv, Chained, sound, Consistent, [Next]_vars, ~ Initialize
  PROVE  Delivering'
<1> USE DEF meta, producer, consumer, flusher
<1>t. TypeOK /\ writing \in Position /\ reading \in Position
  BY DEF IndInv, TypeOK
<1>1. accepted \subseteq accepted'
  BY BoundaryKept
<1>2. \A e \in accepted : e.start = reading => Intact(e)
  <2> TAKE e \in accepted
  <2> SUFFICES ASSUME e.start = reading PROVE Intact(e)
    OBVIOUS
  <2>1. AtOrBefore(reading, e.start)
    BY <1>t DEF AtOrBefore, Before, Position, Offsets
  <2> QED
    BY <1>t, <2>1, NextRecord DEF Consistent
<1>3. CASE UNCHANGED <<reading, rpc, rat, rlen, rgot>>
  <2>1. \A e \in accepted : Reads(e) => Reads(e)'
    BY <1>3 DEF Reads, Address, HeaderAt, PositionOf
  <2> QED
    BY <1>1, <1>3, <2>1 DEF Delivering, Consistent
<1>4. CASE DequeueBegin
  <2>1. PICK e \in accepted : e.start = reading
    BY <1>4 DEF DequeueBegin, Consistent, Boundary
  <2>2. Reads(e)'
    BY <1>4, <2>1 DEF DequeueBegin, Reads
  <2> QED
    BY <1>1, <2>2 DEF Delivering
<1>5. CASE ReadLength
  <2>1. PICK e \in accepted : Reads(e)
    BY <1>5 DEF ReadLength, Consistent, Delivering
  <2>2. Reads(e)'
    BY <1>t, <1>2, <1>5, <2>1, LengthRead DEF Reads
  <2> QED
    BY <1>1, <2>2 DEF Delivering
<1>6. CASE ReadBytes
  <2>1. PICK e \in accepted : Reads(e)
    BY <1>6 DEF ReadBytes, Consistent, Delivering
  <2>2. Reads(e)'
    BY <1>t, <1>2, <1>6, <2>1, BytesRead DEF Reads
  <2> QED
    BY <1>1, <2>2 DEF Delivering
<1>7. CASE PutReadingOffset \/ LoseMemory
  BY <1>7 DEF PutReadingOffset, LoseMemory, Delivering
<1> QED
  BY <1>3, <1>4, <1>5, <1>6, <1>7, ConsumerAlone DEF Dequeue

\* What Dequeue hands over is a whole record: the reading offset goes from its
\* start to its end, and the data are its payload.
LEMMA RecordDelivered ==
  ASSUME IndInv, Chained, sound, Consistent, PutReadingOffset
  PROVE  \E e \in accepted :
           /\ e.start = reading /\ reading' = e.end
           /\ Len(rgot) = e.len /\ \A j \in 1 .. e.len : rgot[j] = <<e.ev, j>>
<1>t. TypeOK /\ writing \in Position /\ reading \in Position
  BY DEF IndInv, TypeOK
<1>1. PICK e \in accepted : Reads(e)
  BY DEF PutReadingOffset, Consistent, Delivering
<1>2. AtOrBefore(reading, e.start) /\ e.start = reading
  BY <1>t, <1>1 DEF Reads, AtOrBefore, Before, Position, Offsets
<1>3. Intact(e)
  BY <1>t, <1>2, NextRecord DEF Consistent
<1>4. /\ rlen = e.len /\ Len(rgot) = rlen /\ reading' = rat
      /\ rat = PositionOf(Address(HeaderAt(reading)) + uInt64Size + Len(rgot))
      /\ \A j \in 1 .. Len(rgot) : rgot[j] = <<e.ev, j>>
  BY <1>1 DEF PutReadingOffset, Reads
<1> QED
  BY <1>2, <1>3, <1>4 DEF Intact

\* No step overwrites a record that was not read, or parts it from the next.
LEMMA UnreadStep ==
  ASSUME EventFits, IndInv, IndInv', Chained, sound, Consistent, [Next]_vars,
         ~ Initialize
  PROVE  UnreadIntact' /\ Joined'
<1> USE DEF meta, producer, consumer, flusher
<1>t. TypeOK /\ TypeOK' /\ writing \in Position /\ reading \in Position
  BY DEF IndInv, TypeOK
<1>1. ASSUME NEW e \in accepted, AtOrBefore(reading, e.start) PROVE Intact(e)'
  <2>1. Intact(e) /\ AtOrBefore(e.end, writing)
    BY <1>t, <1>1, NextRecord DEF Consistent, Chained
  <2>2. Preserved(reading, writing)
    BY PreservedStep
  <2> QED
    BY <1>t, <1>1, <2>1, <2>2, IntactKept
<1>2. AtOrBefore(reading, reading')
  <2>1. CASE PutReadingOffset
    <3>1. PICK e \in accepted : e.start = reading /\ reading' = e.end
      BY <2>1, RecordDelivered
    <3>2. e.start \in Position /\ e.end \in Position /\ Before(e.start, e.end)
      BY <1>t, RecordTypes DEF Chained
    <3> QED
      BY <3>1, <3>2 DEF AtOrBefore, Before, Position, Offsets
  <2>2. CASE ~ PutReadingOffset
    <3>1. reading' = reading
      BY <2>2, ConsumerAlone
      DEF Dequeue, DequeueBegin, ReadLength, ReadBytes, LoseMemory
    <3> QED
      BY <1>t, <3>1 DEF AtOrBefore, Before, Position, Offsets
  <2> QED
    BY <2>1, <2>2
<1>3. reading' \in Position
  BY <1>t DEF TypeOK
<1>4. \A e \in accepted' : e.start \in Position
  <2>1. accepted' \subseteq Record
    BY <1>t DEF TypeOK
  <2> QED
    BY <2>1 DEF Record
<1>5. \A p : Boundary(p) => Boundary(p)'
  BY BoundaryKept
<1>6. ASSUME NEW e \in accepted', AtOrBefore(reading', e.start)
      PROVE  Intact(e)' /\ Boundary(e.end)'
  <2>1. AtOrBefore(reading, e.start)
    BY <1>t, <1>2, <1>3, <1>4, <1>6, OrderTransitive
  <2>2. CASE e \in accepted
    <3>1. Boundary(e.end)
      BY <2>1, <2>2 DEF Consistent, Joined
    <3> QED
      BY <1>1, <1>5, <2>1, <2>2, <3>1 DEF Boundary
  <2>3. CASE e \notin accepted
    <3>1. PutWritingOffset
      <4>1. accepted' # accepted
        BY <1>6, <2>3
      <4>2. ASSUME NEW len \in Lengths, EnqueueBegin(len) PROVE FALSE
        BY <4>1, <4>2 DEF EnqueueBegin
      <4> QED
        BY <4>1, <4>2
        DEF Next, Enqueue, WriteLength, WriteBytes, Dequeue, DequeueBegin,
            ReadLength, ReadBytes, PutReadingOffset, Acknowledge, Ack, Flush,
            FlushOnTimer, FlushOnSignal, FlushOnDone, FlushGetWriting,
            FlushPutWatermark, Close, Exit, Crash, LoseMemory, PollEmpty, vars
    <3>2. e = [ev |-> born, len |-> wlen, start |-> writing,
               end |-> wat, late |-> status # "open"]
      BY <1>6, <2>3, <3>1 DEF PutWritingOffset
    <3>3. e.ev = born /\ e.len = wlen /\ e.start = writing /\ e.end = wat
      BY <3>2
    <3>4. /\ wat = PositionOf(Address(HeaderAt(writing)) + uInt64Size + wcount)
          /\ OnTape(Address(HeaderAt(writing)), born, wlen, uInt64Size + wcount)
          /\ wcount = wlen
      BY <3>1 DEF PutWritingOffset, Consistent, Written
    <3>5. Intact(e)
      BY <3>3, <3>4 DEF Intact
    <3>6. Boundary(e.end)'
      BY <3>1, <3>3 DEF PutWritingOffset, Boundary
    <3> QED
      BY <3>1, <3>5, <3>6 DEF PutWritingOffset, Intact, OnTape
  <2> QED
    BY <2>2, <2>3
<1> QED
  BY <1>6 DEF UnreadIntact, Joined, Between, AtOrBefore, Before

\* The consumer moves from record to record, and acknowledgements stay behind it.
LEMMA AcksStep ==
  ASSUME IndInv, IndInv', Chained, sound, Consistent, [Next]_vars, ~ Initialize
  PROVE  Boundary(reading)' /\ AcksBehind'
<1> USE DEF meta, producer, consumer, flusher
<1>t. /\ TypeOK /\ reading \in Position /\ unacked \in Seq(Position)
      /\ committed \in Position
      /\ reading' \in Position /\ AcksBehind
      /\ rpc # "idle" => status # "closed"
  BY DEF IndInv, TypeOK, Consistent, ClosedIsIdle
<1>1. CASE PutReadingOffset
  <2>1. PICK e \in accepted : e.start = reading /\ reading' = e.end
    BY <1>1, RecordDelivered
  <2>2. /\ e.end \in Position /\ Before(e.start, e.end) /\ Boundary(e.end)
    <3>1. AtOrBefore(reading, e.start)
      BY <1>t, <2>1 DEF AtOrBefore, Before, Position, Offsets
    <3> QED
      BY <1>t, <3>1, RecordTypes DEF Chained, Consistent, Joined
  <2>3. AtOrBefore(reading, reading') /\ AtOrBefore(reading', reading')
    BY <1>t, <2>1, <2>2 DEF AtOrBefore, Before, Position, Offsets
  <2>4. Boundary(e.end)'
    BY <1>1, <2>2 DEF PutReadingOffset, Boundary
  <2>5. Boundary(reading)'
    BY <2>1, <2>4 DEF Boundary
  <2>6. unacked' = Append(unacked, rat) /\ reading' = rat
        /\ committed' = committed /\ rpc # "idle"
    BY <1>1 DEF PutReadingOffset
  <2>7. \A j \in 1 .. Len(unacked) : unacked[j] \in Position
    BY <1>t, ElementOfSeq
  <2>8. \A j \in 1 .. Len(unacked') : AtOrBefore(unacked'[j], reading')
    <3>1. /\ Len(unacked') = Len(unacked) + 1
          /\ \A j \in 1 .. Len(unacked) : unacked'[j] = unacked[j]
          /\ unacked'[Len(unacked) + 1] = reading'
      BY <1>t, <2>6
    <3> TAKE j \in 1 .. Len(unacked')
    <3>2. CASE j \in 1 .. Len(unacked)
      BY <1>t, <2>3, <2>7, <3>1, <3>2, OrderTransitive DEF AcksBehind
    <3>3. CASE j = Len(unacked) + 1
      <4>1. unacked'[j] = reading'
        BY <3>1, <3>3
      <4> QED
        BY <2>3, <4>1
    <3> QED
      BY <1>t, <3>1, <3>2, <3>3
  <2>9. AtOrBefore(committed', reading')
    BY <1>t, <2>3, <2>6, OrderTransitive DEF AcksBehind
  <2> QED
    BY <2>5, <2>8, <2>9 DEF AcksBehind, AtOrBefore, Before
<1>2. ASSUME NEW i \in 1 .. Len(unacked), Ack(i)
      PROVE  Boundary(reading)' /\ AcksBehind'
  <2>1. committed' = unacked[i] /\ reading' = reading
        /\ unacked' = SubSeq(unacked, i + 1, Len(unacked))
        /\ writing' = writing /\ accepted' = accepted
    BY <1>2 DEF Ack
  <2>2. Len(unacked) \in Nat
    BY <1>t
  <2>3. \A j \in 1 .. Len(unacked') :
          unacked'[j] = unacked[i + j] /\ i + j \in 1 .. Len(unacked)
    BY <1>t, <2>1, <2>2
  <2>4. AcksBehind'
    BY <2>1, <2>3, <1>t DEF AcksBehind, AtOrBefore, Before
  <2>5. Boundary(reading)'
    BY <2>1 DEF Boundary, Consistent
  <2> QED
    BY <2>4, <2>5
<1>3. CASE LoseMemory
  BY <1>3 DEF LoseMemory, Consistent, Boundary, AcksBehind, AtOrBefore, Before
<1>4. ASSUME ~ PutReadingOffset, ~ Acknowledge, ~ LoseMemory
      PROVE  /\ UNCHANGED <<reading, committed, unacked>>
             /\ status # "closed" \/ status' = status
  <2>1. ASSUME NEW len \in Lengths, EnqueueBegin(len)
        PROVE  UNCHANGED <<reading, committed, unacked, status>>
    BY <2>1 DEF EnqueueBegin
  <2>2. CASE WriteLength \/ WriteBytes \/ PutWritingOffset \/ UNCHANGED vars
    BY <2>2 DEF WriteLength, WriteBytes, PutWritingOffset, vars
  <2>3. CASE DequeueBegin \/ ReadLength \/ ReadBytes \/ Close
    BY <2>3 DEF DequeueBegin, ReadLength, ReadBytes, Close
  <2>4. CASE Flush
    BY <2>4 DEF Flush, FlushOnTimer, FlushOnSignal, FlushOnDone,
      FlushGetWriting, FlushPutWatermark
  <2> QED
    BY <1>4, <2>1, <2>2, <2>3, <2>4
    DEF Next, Enqueue, Dequeue, Exit, Crash, PollEmpty
<1>5. CASE /\ UNCHANGED <<reading, committed, unacked>>
           /\ status # "closed" \/ status' = status
  <2>1. PICK r : r = reading
    OBVIOUS
  <2>2. Boundary(r)'
    BY <2>1, BoundaryKept DEF Consistent
  <2> QED
    BY <1>t, <1>5, <2>1, <2>2 DEF Boundary, AcksBehind, AtOrBefore, Before
<1> QED
  BY <1>1, <1>2, <1>3, <1>4, <1>5 DEF Acknowledge

\* A restart that resumes at the end of a record finds the rest as it was left.
LEMMA RestartSound ==
  ASSUME RecordsInv, Initialize, sound', IndInv'
  PROVE  Consistent'
<1> USE DEF meta, producer, consumer, flusher
<1>1. /\ accepted' = {e \in accepted : AtOrBefore(e.end, watermark)}
      /\ writing' = watermark /\ reading' = committed /\ committed' = committed
      /\ wpc' = wpc /\ rpc' = rpc /\ unacked' = unacked /\ cells' = cells
      /\ status = "closed" /\ Resumable(accepted')
  BY DEF Initialize
<1>2. wpc = "idle" /\ rpc = "idle"
  BY <1>1 DEF RecordsInv, IndInv, ClosedIsIdle
<1>3. unacked = <<>>
  BY <1>1 DEF RecordsInv, ClosedIsEmpty
<1>4. Boundary(reading)'
  BY <1>1 DEF Resumable, Boundary
<1>5. committed \in Position
  BY DEF RecordsInv, IndInv, TypeOK
<1>6. AcksBehind'
  BY <1>1, <1>3, <1>5 DEF AcksBehind, AtOrBefore, Before, Position, Offsets
<1>j. Joined'
  BY <1>1 DEF Resumable, Joined, Boundary, AtOrBefore, Before
<1>7. \A e \in accepted' : AtOrBefore(committed, e.start) => Intact(e)'
  BY <1>1 DEF Resumable, Intact, OnTape
<1>8. UnreadIntact'
  BY <1>1, <1>7 DEF UnreadIntact, Between, AtOrBefore, Before
<1> QED
  BY <1>1, <1>2, <1>4, <1>6, <1>8, <1>j DEF Consistent, Written, Delivering

\* There is no record at first.
LEMMA RecordsInit == Init => RecordsInv
<1> SUFFICES ASSUME Init PROVE RecordsInv
  OBVIOUS
<1>1. IndInv /\ Chained /\ Marked
  BY IndInit, ChainInit
<1>2. LastFlush /\ ClosedIsEmpty
  BY DEF Init, LastFlush, ClosedIsEmpty
<1>3. Consistent
  BY DEF Init, Consistent, Boundary, Joined, AcksBehind, AtOrBefore, Before,
         Origin, UnreadIntact, Written, Delivering
<1> QED
  BY <1>1, <1>2, <1>3 DEF RecordsInv

\* Every step keeps the invariant of the records.
LEMMA RecordsStep ==
  ASSUME EventFits
  PROVE  RecordsInv /\ [Next]_vars => RecordsInv'
<1> SUFFICES ASSUME RecordsInv, [Next]_vars PROVE RecordsInv'
  OBVIOUS
<1>1. IndInv /\ Chained /\ Marked /\ LastFlush /\ ClosedIsEmpty
      /\ (sound => Consistent)
  BY DEF RecordsInv
<1>2. IndInv' /\ Chained' /\ Marked' /\ ClosedIsEmpty'
  BY <1>1, IndStep, ChainStep, ClosedStep
<1>3. LastFlush'
  <2>1. sound => Boundary(reading) /\ AcksBehind
    BY <1>1 DEF Consistent
  <2> QED
    BY <1>1, <2>1, FlushStep
<1>4. ASSUME sound' PROVE Consistent'
  <2>1. CASE Initialize
    BY <1>2, <1>4, <2>1, RestartSound
  <2>2. CASE ~ Initialize
    <3>1. sound /\ Consistent
      BY <1>1, <1>4, <2>2, BoundaryKept
    <3>2. Written'
      BY <1>1, <3>1, WrittenStep DEF Consistent
    <3>3. Delivering'
      BY <1>1, <2>2, <3>1, DeliveringStep
    <3>4. UnreadIntact' /\ Joined'
      BY <1>1, <1>2, <2>2, <3>1, UnreadStep
    <3>5. Boundary(reading)' /\ AcksBehind'
      BY <1>1, <1>2, <2>2, <3>1, AcksStep
    <3> QED
      BY <3>2, <3>3, <3>4, <3>5 DEF Consistent
  <2> QED
    BY <2>1, <2>2
<1> QED
  BY <1>2, <1>3, <1>4 DEF RecordsInv

(***************************************************************************)
(* The invariant of the records: in every life of the process the accepted *)
(* records lie one after the other behind the writing offset, and the      *)
(* watermark follows the publisher; in a life that resumed from sound      *)
(* files the unread ones leave no gap up to the writing offset and are     *)
(* delivered whole and one by one.                                         *)
(***************************************************************************)
THEOREM RecordsInvariant ==
  ASSUME EventFits
  PROVE  Spec => []RecordsInv
<1>1. Init => RecordsInv
  BY RecordsInit
<1>2. RecordsInv /\ [Next]_vars => RecordsInv'
  BY RecordsStep
<1> QED BY <1>1, <1>2, PTL DEF Spec

(***************************************************************************)
(* Nothing is committed before it was read or read before it was written,  *)
(* and the watermark never runs ahead of the publisher, for every size of  *)
(* segments, ring and events and any number of restarts and of crashes,    *)
(* also between the two halves of a stored offset: whatever the torn       *)
(* offset, a life that resumes at a record with all the records after it   *)
(* keeps its offsets in order.                                             *)
(***************************************************************************)
THEOREM OffsetsAreOrdered ==
  ASSUME EventFits
  PROVE  Spec => []OffsetOrder
<1>1. RecordsInv => OffsetOrder
  <2> SUFFICES ASSUME RecordsInv, sound, status # "closed" PROVE
        /\ AtOrBefore(committed, reading) /\ AtOrBefore(reading, writing)
        /\ AtOrBefore(watermark, writing)
    BY DEF OffsetOrder
  <2>1. /\ TypeOK /\ Chained /\ Boundary(reading) /\ AcksBehind
        /\ AtOrBefore(watermark, writing)
    BY DEF RecordsInv, IndInv, Marked, Consistent
  <2>2. reading \in Position
    BY <2>1 DEF TypeOK
  <2> QED
    BY <2>1, <2>2, BoundaryBehind DEF AcksBehind
<1> QED BY <1>1, RecordsInvariant, PTL

(***************************************************************************)
(* Every accepted record the consumer has not read is whole in the ring,   *)
(* byte by byte, although it was written in pieces and the files are       *)
(* reused.                                                                 *)
(***************************************************************************)
THEOREM UnreadIsIntact ==
  ASSUME EventFits
  PROVE  Spec => []UnreadIntact
<1>1. RecordsInv => UnreadIntact
  BY DEF RecordsInv, Consistent, UnreadIntact
<1> QED BY <1>1, RecordsInvariant, PTL

(***************************************************************************)
(* Close loses nothing: when it returns, the watermark covers everything   *)
(* that was committed and every event accepted while the queue was open,   *)
(* although the publisher may still be writing.                            *)
(***************************************************************************)
THEOREM CloseLosesNothing ==
  ASSUME EventFits
  PROVE  Spec => CloseKeepsAccepted
<1>1. RecordsInv /\ [Next]_vars =>
        [(Exit /\ sound) =>
           /\ AtOrBefore(committed, watermark)
           /\ \A e \in accepted : ~e.late => AtOrBefore(e.end, watermark)]_vars
  BY DEF RecordsInv, LastFlush, Covers, Exit
<1> QED BY <1>1, RecordsInvariant, PTL DEF Spec, CloseKeepsAccepted

-----------------------------------------------------------------------------
\* The unread records as the queue the clients see.

\* s lists the records of a set in the order of their events.
Lists(s, records) ==
  /\ s \in Seq(records)
  /\ \A e \in records : e.ev \in Nat /\ \E i \in 1 .. Len(s) : s[i] = e
  /\ \A i, j \in 1 .. Len(s) : i < j => s[i].ev < s[j].ev

Payloads(s) == [i \in 1 .. Len(s) |-> Payload(s[i].ev, s[i].len)]

\* The first m records of a list are m records.
LEMMA ListCounts ==
  ASSUME NEW records, NEW s, Lists(s, records), NEW m \in 0 .. Len(s)
  PROVE  Cardinality({s[i] : i \in 1 .. m}) = m
<1> DEFINE T == {s[i] : i \in 1 .. m}
           f == [i \in 1 .. m |-> s[i]]
<1>1. s \in Seq(records) /\ Len(s) \in Nat /\ m \in Nat
      /\ \A i \in 1 .. m : i \in 1 .. Len(s)
  BY DEF Lists
<1>2. \A i \in 1 .. Len(s) : s[i] \in records /\ s[i].ev \in Nat
  BY <1>1, ElementOfSeq DEF Lists
<1>3. \A i, j \in 1 .. m : s[i] = s[j] => i = j
  <2> TAKE i, j \in 1 .. m
  <2>1. i \in 1 .. Len(s) /\ j \in 1 .. Len(s)
    BY <1>1
  <2>2. i < j => s[i].ev < s[j].ev
    BY <2>1 DEF Lists
  <2>3. j < i => s[j].ev < s[i].ev
    BY <2>1 DEF Lists
  <2>4. s[i].ev \in Nat /\ s[j].ev \in Nat
    BY <1>2, <2>1
  <2> QED
    BY <1>1, <2>2, <2>3, <2>4
<1>4. f \in Bijection(1 .. m, T)
  <2>1. f \in [1 .. m -> T]
    OBVIOUS
  <2>2. \A i, j \in 1 .. m : f[i] = f[j] => i = j
    BY <1>3
  <2>3. \A t \in T : \E i \in 1 .. m : f[i] = t
    OBVIOUS
  <2> HIDE DEF f, T
  <2> QED
    BY <2>1, <2>2, <2>3, Fun_IsBij
<1>5. ExistsBijection(1 .. m, T)
  BY <1>4, Fun_ExistsBij
<1>6. IsFiniteSet(1 .. m) /\ Cardinality(1 .. m) = m
  BY <1>1, FS_Interval
<1> QED
  BY <1>5, <1>6, FS_Bijection

\* What InOrder makes of the records of a list.
LEMMA InOrderIs ==
  ASSUME NEW records, NEW s, Lists(s, records)
  PROVE  InOrder(records) = Payloads(s)
<1> DEFINE older(e) == {d \in records : d.ev < e.ev}
           nth(i) == CHOOSE e \in records : Cardinality(older(e)) = i - 1
<1>1. s \in Seq(records) /\ Len(s) \in Nat
  BY DEF Lists
<1>2. \A i \in 1 .. Len(s) : s[i] \in records /\ s[i].ev \in Nat
  BY <1>1, ElementOfSeq DEF Lists
<1>3. records = {s[i] : i \in 1 .. Len(s)}
  BY <1>2 DEF Lists
<1>4. Cardinality(records) = Len(s)
  BY <1>1, <1>3, ListCounts
<1>5. ASSUME NEW i \in 1 .. Len(s) PROVE Cardinality(older(s[i])) = i - 1
  <2>1. older(s[i]) = {s[j] : j \in 1 .. i - 1}
    <3>1. ASSUME NEW d \in older(s[i]) PROVE d \in {s[j] : j \in 1 .. i - 1}
      <4>1. PICK j \in 1 .. Len(s) : s[j] = d
        BY DEF Lists
      <4>2. s[j].ev < s[i].ev
        BY <4>1
      <4>3. i < j => s[i].ev < s[j].ev
        BY DEF Lists
      <4>4. s[i].ev \in Nat /\ s[j].ev \in Nat
        BY <1>2
      <4>5. ~ (i < j) /\ i # j
        BY <4>2, <4>3, <4>4
      <4> QED
        BY <1>1, <4>1, <4>5
    <3>2. ASSUME NEW j \in 1 .. i - 1 PROVE s[j] \in older(s[i])
      <4>1. j \in 1 .. Len(s) /\ j < i
        BY <1>1
      <4>2. s[j].ev < s[i].ev
        BY <4>1 DEF Lists
      <4> QED
        BY <1>2, <4>1, <4>2
    <3> QED
      BY <3>1, <3>2
  <2>2. i - 1 \in 0 .. Len(s)
    BY <1>1
  <2> HIDE DEF older
  <2> QED
    BY <2>1, <2>2, ListCounts
<1>6. ASSUME NEW i \in 1 .. Len(s) PROVE nth(i) = s[i]
  <2>1. Cardinality(older(s[i])) = i - 1 /\ s[i] \in records
    BY <1>2, <1>5
  <2>2. ASSUME NEW e \in records, Cardinality(older(e)) = i - 1 PROVE e = s[i]
    <3>1. PICK k \in 1 .. Len(s) : s[k] = e
      BY DEF Lists
    <3>2. Cardinality(older(s[k])) = k - 1
      BY <1>5
    <3> HIDE DEF older
    <3> QED
      BY <1>1, <2>2, <3>1, <3>2
  <2> HIDE DEF older
  <2> QED
    BY <2>1, <2>2
<1>7. InOrder(records) =
        [i \in 1 .. Cardinality(records) |-> Payload(nth(i).ev, nth(i).len)]
  BY DEF InOrder
<1> HIDE DEF nth
<1> QED
  BY <1>4, <1>6, <1>7 DEF Payloads

\* A list of payloads grows at its end and shrinks at its head.
LEMMA PayloadsAre ==
  ASSUME NEW R, NEW s \in Seq(R)
  PROVE  /\ Payloads(s) \in Seq(Range(Payloads(s)))
         /\ Len(Payloads(s)) = Len(s)
         /\ \A i \in 1 .. Len(s) : Payloads(s)[i] = Payload(s[i].ev, s[i].len)
<1>1. Len(s) \in Nat
  OBVIOUS
<1>2. Payloads(s) \in [1 .. Len(s) -> Range(Payloads(s))]
  BY DEF Payloads, Range
<1> QED
  BY <1>1, <1>2, FunctionIsSequence DEF Payloads

\* The payload of one more record.
LEMMA PayloadsAppend ==
  ASSUME NEW R, NEW s \in Seq(R), NEW e \in R
  PROVE  Payloads(Append(s, e)) = Append(Payloads(s), Payload(e.ev, e.len))
<1> DEFINE P == Payloads(s)
           x == Payload(e.ev, e.len)
           T == Range(P) \cup {x}
           t == Append(s, e)
<1>1. t \in Seq(R) /\ Len(t) = Len(s) + 1 /\ Len(s) \in Nat
  OBVIOUS
<1>2. \A i \in 1 .. Len(s) : t[i] = s[i]
  OBVIOUS
<1>3. t[Len(s) + 1] = e
  OBVIOUS
<1>4. P \in Seq(T) /\ Len(P) = Len(s)
  BY PayloadsAre
<1>5. Append(P, x) \in Seq(T) /\ Len(Append(P, x)) = Len(s) + 1
      /\ Append(P, x)[Len(s) + 1] = x
  <2> HIDE DEF P, x, T
  <2> QED BY <1>4 DEF T
<1>6. \A i \in 1 .. Len(s) : Append(P, x)[i] = P[i]
  <2> HIDE DEF P, x, T
  <2> QED BY <1>4
<1>7. Payloads(t) \in Seq(Range(Payloads(t))) /\ Len(Payloads(t)) = Len(s) + 1
  BY <1>1, PayloadsAre
<1>8. \A i \in 1 .. Len(s) + 1 : Payloads(t)[i] = Append(P, x)[i]
  <2> TAKE i \in 1 .. Len(s) + 1
  <2>1. Payloads(t)[i] = Payload(t[i].ev, t[i].len)
    BY <1>1, PayloadsAre
  <2>2. CASE i \in 1 .. Len(s)
    <3>1. P[i] = Payload(s[i].ev, s[i].len)
      BY <2>2, PayloadsAre
    <3> HIDE DEF P, x, t
    <3> QED BY <1>2, <1>6, <2>1, <2>2, <3>1
  <2>3. CASE i = Len(s) + 1
    <3> HIDE DEF P, t
    <3> QED BY <1>3, <1>5, <2>1, <2>3
  <2>4. i \in 1 .. Len(s) \/ i = Len(s) + 1
    BY <1>1
  <2> QED
    BY <2>2, <2>3, <2>4
<1> HIDE DEF P, x, t, T
<1> QED
  BY <1>1, <1>5, <1>7, <1>8, SeqEqual DEF P, x, t

\* The payloads without the first record.
LEMMA PayloadsTail ==
  ASSUME NEW R, NEW s \in Seq(R), s # <<>>
  PROVE  /\ Payloads(s) # <<>>
         /\ Head(Payloads(s)) = Payload(s[1].ev, s[1].len)
         /\ Payloads(Tail(s)) = Tail(Payloads(s))
<1> DEFINE P == Payloads(s)
           T == Range(P)
           t == Tail(s)
<1>1. t \in Seq(R) /\ Len(t) = Len(s) - 1 /\ Len(s) \in Nat \ {0}
  OBVIOUS
<1>2. \A i \in 1 .. Len(s) - 1 : t[i] = s[i + 1]
  OBVIOUS
<1>3. P \in Seq(T) /\ Len(P) = Len(s)
      /\ \A i \in 1 .. Len(s) : P[i] = Payload(s[i].ev, s[i].len)
  BY PayloadsAre
<1> HIDE DEF P, T, t
<1>4. P # <<>> /\ Head(P) = P[1] /\ P[1] = Payload(s[1].ev, s[1].len)
  BY <1>1, <1>3
<1>5. Tail(P) \in Seq(T) /\ Len(Tail(P)) = Len(s) - 1
      /\ \A i \in 1 .. Len(s) - 1 : Tail(P)[i] = P[i + 1]
  BY <1>1, <1>3, <1>4
<1>6. Payloads(t) \in Seq(Range(Payloads(t))) /\ Len(Payloads(t)) = Len(s) - 1
      /\ \A i \in 1 .. Len(s) - 1 : Payloads(t)[i] = Payload(t[i].ev, t[i].len)
  BY <1>1, PayloadsAre
<1>7. \A i \in 1 .. Len(s) - 1 : Payloads(t)[i] = Tail(P)[i]
  <2> TAKE i \in 1 .. Len(s) - 1
  <2>1. i + 1 \in 1 .. Len(s)
    BY <1>1
  <2> QED
    BY <1>2, <1>3, <1>5, <1>6, <2>1
<1>8. Payloads(t) = Tail(P)
  BY <1>1, <1>5, <1>6, <1>7, SeqEqual
<1> QED
  BY <1>4, <1>8 DEF P, t

\* The process has not been restarted.
OneLife == status = "open" /\ sound

\* What the publisher writes is one of the events it was offered.
Offered ==
  wpc \in {"length", "bytes", "put"} => born \in 1 .. MaxEvents /\ wlen \in Lengths

FifoInv == RecordsInv /\ OneLife /\ Offered /\ \E s : Lists(s, Unread)

\* Both queues are empty at first.
LEMMA FifoStarts == Init => FifoInv /\ Fifo!Init
<1> SUFFICES ASSUME Init PROVE FifoInv /\ Fifo!Init
  OBVIOUS
<1>1. RecordsInv /\ OneLife /\ Offered
  BY RecordsInit DEF Init, OneLife, Offered
<1>2. Unread = {}
  BY DEF Init, Unread
<1>3. Lists(<<>>, Unread)
  BY <1>2 DEF Lists
<1>4. Undelivered = <<>>
  <2>1. Undelivered = Payloads(<<>>)
    BY <1>3, InOrderIs DEF Undelivered
  <2>2. Len(Payloads(<<>>)) = 0 /\ Payloads(<<>>) \in Seq(Range(Payloads(<<>>)))
    <3>1. <<>> \in Seq({})
      OBVIOUS
    <3> QED
      BY <3>1, PayloadsAre
  <2> QED
    BY <2>1, <2>2, EmptySeq
<1>5. out = <<>>
  BY DEF Init
<1> QED
  BY <1>1, <1>3, <1>4, <1>5 DEF FifoInv, Fifo!Init

\* There is only the first life of the queue.
LEMMA FifoLife ==
  ASSUME MaxRestarts = 0, FifoInv, [Next]_vars
  PROVE  OneLife' /\ Offered'
<1> USE DEF meta, producer, consumer, flusher
<1>t. TypeOK /\ restarts \in Nat /\ born \in Nat
  BY DEF FifoInv, RecordsInv, IndInv, TypeOK
<1>0. status = "open" /\ sound /\ Offered
  BY DEF FifoInv, OneLife
<1>1. ASSUME NEW len \in Lengths, EnqueueBegin(len) PROVE OneLife' /\ Offered'
  BY <1>t, <1>0, <1>1, QueueAssumption DEF EnqueueBegin, OneLife, Offered
<1>2. CASE WriteLength \/ WriteBytes \/ PutWritingOffset \/ UNCHANGED vars
  BY <1>0, <1>2
  DEF WriteLength, WriteBytes, PutWritingOffset, vars, OneLife, Offered
<1>3. CASE Dequeue \/ Acknowledge
  BY <1>0, <1>3
  DEF Dequeue, DequeueBegin, ReadLength, ReadBytes, PutReadingOffset,
      Acknowledge, Ack, OneLife, Offered
<1>4. CASE Flush
  BY <1>0, <1>4
  DEF Flush, FlushOnTimer, FlushOnSignal, FlushOnDone, FlushGetWriting,
      FlushPutWatermark, OneLife, Offered
<1>5. ~ Close /\ ~ Exit /\ ~ Crash /\ ~ Initialize
  <2>1. ~ (restarts < MaxRestarts)
    BY <1>t
  <2> QED
    BY <1>0, <2>1 DEF Close, Exit, Crash, Initialize
<1> QED
  BY <1>1, <1>2, <1>3, <1>4, <1>5 DEF Next, Enqueue, PollEmpty

\* A new record is accepted at the end of the list.
LEMMA FifoAccepts ==
  ASSUME FifoInv, NEW s, Lists(s, Unread), PutWritingOffset
  PROVE  /\ \E e \in {Payload(n, l) : n \in 1 .. MaxEvents, l \in Lengths} :
              Undelivered' = Append(Undelivered, e)
         /\ out' = out
         /\ \E z : Lists(z, Unread')
<1> USE DEF meta, producer, consumer, flusher
<1>t. TypeOK /\ Chained /\ Boundary(reading) /\ reading \in Position
      /\ writing \in Position /\ born \in Nat
  BY DEF FifoInv, RecordsInv, OneLife, Consistent, IndInv, TypeOK
<1>1. PICK new : new = [ev |-> born, len |-> wlen, start |-> writing,
                        end |-> wat, late |-> status # "open"]
  OBVIOUS
<1>2. accepted' = accepted \cup {new} /\ reading' = reading /\ out' = out
      /\ wpc = "put"
  BY <1>1 DEF PutWritingOffset
<1>3. new.ev = born /\ new.len = wlen /\ new.start = writing
  BY <1>1
<1>4. AtOrBefore(reading, writing)
  BY <1>t, BoundaryBehind
<1>5. PICK R : R = Unread'
  OBVIOUS
<1>6. R = Unread \cup {new}
  BY <1>2, <1>3, <1>4, <1>5 DEF Unread
<1>7. \A e \in Unread : e.ev \in Nat /\ e.ev < born
  BY <1>t, <1>2, RecordTypes DEF Chained, Unread
<1>8. s \in Seq(Unread) /\ Len(s) \in Nat
      /\ \A i \in 1 .. Len(s) : s[i] \in Unread
  BY ElementOfSeq DEF Lists
<1> DEFINE z == Append(s, new)
<1>9. /\ z \in Seq(R) /\ Len(z) = Len(s) + 1
      /\ \A i \in 1 .. Len(s) : z[i] = s[i]
      /\ z[Len(s) + 1] = new
  <2>1. s \in Seq(R) /\ new \in R
    BY <1>6, <1>8
  <2> QED
    BY <1>8, <2>1
<1> HIDE DEF z
<1>10. \A e \in R : e.ev \in Nat /\ \E i \in 1 .. Len(z) : z[i] = e
  <2> TAKE e \in R
  <2>1. CASE e \in Unread
    <3>1. PICK i \in 1 .. Len(s) : s[i] = e
      BY <2>1 DEF Lists
    <3>2. i \in 1 .. Len(z) /\ z[i] = e
      BY <1>8, <1>9, <3>1
    <3> QED
      BY <1>7, <2>1, <3>2
  <2>2. CASE e = new
    <3>1. Len(s) + 1 \in 1 .. Len(z)
      BY <1>8, <1>9
    <3> QED
      BY <1>t, <1>3, <1>9, <2>2, <3>1
  <2> QED
    BY <1>6, <2>1, <2>2
<1>11. \A i, j \in 1 .. Len(z) : i < j => z[i].ev < z[j].ev
  <2> TAKE i, j \in 1 .. Len(z)
  <2> HAVE i < j
  <2>1. i \in 1 .. Len(s)
    BY <1>8, <1>9
  <2>2. CASE j \in 1 .. Len(s)
    BY <1>9, <2>1, <2>2 DEF Lists
  <2>3. CASE j = Len(s) + 1
    BY <1>3, <1>7, <1>8, <1>9, <2>1, <2>3
  <2> QED
    BY <1>8, <1>9, <2>2, <2>3
<1>12. Lists(z, R)
  BY <1>9, <1>10, <1>11 DEF Lists
<1>13. Undelivered = Payloads(s)
  BY InOrderIs DEF Undelivered
<1>14. Undelivered' = Payloads(z)
  <2>1. InOrder(R) = Payloads(z)
    BY <1>12, InOrderIs
  <2> QED
    BY <1>5, <2>1 DEF Undelivered
<1>15. Payloads(z) = Append(Payloads(s), Payload(new.ev, new.len))
  <2>1. s \in Seq(R) /\ new \in R
    BY <1>6, <1>8
  <2> QED
    BY <2>1, PayloadsAppend DEF z
<1>16. Payload(new.ev, new.len)
         \in {Payload(n, l) : n \in 1 .. MaxEvents, l \in Lengths}
  BY <1>2, <1>3 DEF FifoInv, Offered
<1> QED
  BY <1>2, <1>5, <1>12, <1>13, <1>14, <1>15, <1>16

\* Dequeue returns the payload of the first record of the list.
LEMMA FifoDelivers ==
  ASSUME FifoInv, NEW s, Lists(s, Unread), PutReadingOffset
  PROVE  /\ Undelivered # <<>> /\ out' = Head(Undelivered)
         /\ Undelivered' = Tail(Undelivered)
         /\ \E z : Lists(z, Unread')
<1> USE DEF meta, producer, consumer, flusher
<1>t. TypeOK /\ Chained /\ reading \in Position /\ rgot \in Seq(Nat \X Int)
      /\ IndInv /\ sound /\ Consistent
  BY DEF FifoInv, RecordsInv, OneLife, IndInv, TypeOK
<1>1. PICK e \in accepted :
        /\ e.start = reading /\ reading' = e.end
        /\ Len(rgot) = e.len /\ \A j \in 1 .. e.len : rgot[j] = <<e.ev, j>>
  BY <1>t, RecordDelivered
<1>2. accepted' = accepted /\ out' = rgot
  BY DEF PutReadingOffset
<1>3. \A d \in accepted : /\ d.start \in Position /\ d.end \in Position
                          /\ d.ev \in Nat /\ d.len \in Nat
                          /\ Before(d.start, d.end)
  BY <1>t, RecordTypes DEF Chained
<1>4. e \in Unread
  BY <1>1, <1>3 DEF Unread, AtOrBefore, Before, Position, Offsets
<1>5. s \in Seq(Unread) /\ Len(s) \in Nat
      /\ \A i \in 1 .. Len(s) : s[i] \in Unread /\ s[i] \in accepted
  BY ElementOfSeq DEF Lists, Unread
<1>6. PICK k \in 1 .. Len(s) : s[k] = e
  BY <1>4 DEF Lists
<1>7. k = 1
  <2> SUFFICES ASSUME k # 1 PROVE FALSE
    OBVIOUS
  <2>1. 1 \in 1 .. Len(s) /\ 1 < k
    BY <1>5, <1>6
  <2>2. s[1].ev < e.ev
    BY <1>6, <2>1 DEF Lists
  <2>3. AtOrBefore(s[1].end, e.start)
    BY <1>t, <1>5, <2>1, <2>2 DEF Chained
  <2>4. AtOrBefore(reading, s[1].start)
    BY <1>5, <2>1 DEF Unread
  <2>5. PICK d \in accepted : d = s[1]
    BY <1>5, <2>1
  <2>6. d.start \in Position /\ d.end \in Position /\ Before(d.start, d.end)
        /\ AtOrBefore(d.end, reading) /\ AtOrBefore(reading, d.start)
    BY <1>1, <1>3, <2>3, <2>4, <2>5
  <2>7. AtOrBefore(d.end, d.start)
    BY <1>t, <2>6, OrderTransitive
  <2> QED
    BY <2>6, <2>7 DEF AtOrBefore
<1>8. s # <<>> /\ s[1] = e
  BY <1>5, <1>6, <1>7
<1> DEFINE z == Tail(s)
<1>9. /\ z \in Seq(Unread) /\ Len(z) = Len(s) - 1
      /\ \A i \in 1 .. Len(s) - 1 : z[i] = s[i + 1]
  BY <1>5, <1>8
<1>10. PICK R : R = Unread'
  OBVIOUS
<1>11. R = Unread \ {e}
  <2>1. R = {d \in accepted : AtOrBefore(e.end, d.start)}
    BY <1>1, <1>2, <1>10 DEF Unread
  <2>2. ASSUME NEW d \in R PROVE d \in Unread /\ d # e
    BY <1>1, <1>3, <2>1, <2>2
    DEF Unread, AtOrBefore, Before, Position, Offsets
  <2>3. ASSUME NEW d \in Unread, d # e PROVE d \in R
    <3>1. PICK i \in 1 .. Len(s) : s[i] = d
      BY DEF Lists
    <3>2. 1 \in 1 .. Len(s) /\ 1 < i
      BY <1>5, <1>8, <2>3, <3>1
    <3>3. e.ev < d.ev
      BY <1>8, <3>1, <3>2 DEF Lists
    <3>4. d \in accepted /\ AtOrBefore(e.end, d.start)
      BY <1>t, <3>3 DEF Unread, Chained
    <3> QED
      BY <2>1, <3>4
  <2> QED
    BY <2>2, <2>3
<1> HIDE DEF z
<1>12. \A i \in 1 .. Len(z) : z[i] \in R /\ i + 1 \in 1 .. Len(s)
  <2> TAKE i \in 1 .. Len(z)
  <2>1. i + 1 \in 1 .. Len(s) /\ 1 \in 1 .. Len(s) /\ 1 < i + 1
    BY <1>5, <1>9
  <2>2. s[1].ev < s[i + 1].ev
    BY <2>1 DEF Lists
  <2>3. s[i + 1] # e /\ s[i + 1] \in Unread
    BY <1>3, <1>5, <1>8, <2>1, <2>2
  <2> QED
    BY <1>5, <1>9, <1>11, <2>1, <2>3
<1>13. z \in Seq(R)
  <2>1. Len(z) \in Nat /\ z = [i \in 1 .. Len(z) |-> z[i]]
    BY <1>9
  <2>2. z \in [1 .. Len(z) -> R]
    BY <1>12, <2>1
  <2> QED
    BY <2>1, <2>2, FunctionIsSequence
<1>14. \A d \in R : d.ev \in Nat /\ \E i \in 1 .. Len(z) : z[i] = d
  <2> TAKE d \in R
  <2>1. d \in Unread /\ d # e
    BY <1>11
  <2>2. PICK i \in 1 .. Len(s) : s[i] = d
    BY <2>1 DEF Lists
  <2>3. i - 1 \in 1 .. Len(z) /\ (i - 1) + 1 = i /\ i - 1 \in 1 .. Len(s) - 1
    BY <1>5, <1>8, <1>9, <2>1, <2>2
  <2>4. z[i - 1] = d
    BY <1>9, <2>2, <2>3
  <2> QED
    BY <1>3, <2>1, <2>3, <2>4 DEF Unread
<1>15. \A i, j \in 1 .. Len(z) : i < j => z[i].ev < z[j].ev
  <2> TAKE i, j \in 1 .. Len(z)
  <2> HAVE i < j
  <2>1. i + 1 \in 1 .. Len(s) /\ j + 1 \in 1 .. Len(s) /\ i + 1 < j + 1
    BY <1>12
  <2>2. s[i + 1].ev < s[j + 1].ev
    BY <2>1 DEF Lists
  <2> QED
    BY <1>5, <1>9, <2>2
<1>16. Lists(z, R)
  BY <1>13, <1>14, <1>15 DEF Lists
<1>17. Undelivered = Payloads(s)
  BY InOrderIs DEF Undelivered
<1>18. Undelivered' = Payloads(z)
  <2>1. InOrder(R) = Payloads(z)
    BY <1>16, InOrderIs
  <2> QED
    BY <1>10, <2>1 DEF Undelivered
<1>19. /\ Payloads(s) # <<>>
       /\ Head(Payloads(s)) = Payload(e.ev, e.len)
       /\ Payloads(z) = Tail(Payloads(s))
  BY <1>5, <1>8, PayloadsTail DEF z
<1>20. rgot = Payload(e.ev, e.len)
  <2>1. rgot = [j \in 1 .. Len(rgot) |-> rgot[j]]
    BY <1>t
  <2> QED
    BY <1>1, <2>1 DEF Payload
<1> QED
  BY <1>2, <1>10, <1>16, <1>17, <1>18, <1>19, <1>20

\* Every step is a step of the queue its clients see, or none.
LEMMA FifoStep ==
  ASSUME EventFits, MaxRestarts = 0
  PROVE  FifoInv /\ [Next]_vars =>
           FifoInv' /\ [Fifo!Next]_<<Undelivered, out>>
<1> SUFFICES ASSUME FifoInv, [Next]_vars
             PROVE  FifoInv' /\ [Fifo!Next]_<<Undelivered, out>>
  OBVIOUS
<1> USE DEF meta, producer, consumer, flusher
<1>1. RecordsInv' /\ OneLife' /\ Offered'
  BY RecordsStep, FifoLife DEF FifoInv
<1>2. PICK s : Lists(s, Unread)
  BY DEF FifoInv
<1>3. CASE PutWritingOffset
  <2>1. PICK e \in {Payload(n, l) : n \in 1 .. MaxEvents, l \in Lengths} :
          Undelivered' = Append(Undelivered, e)
    BY <1>2, <1>3, FifoAccepts
  <2>2. out' = out /\ \E z : Lists(z, Unread')
    BY <1>2, <1>3, FifoAccepts
  <2>3. (\E z : Lists(z, Unread))'
    BY <2>2
  <2>4. Fifo!Next
    BY <2>1, <2>2 DEF Fifo!Next, Fifo!Accept
  <2> QED
    BY <1>1, <2>3, <2>4 DEF FifoInv
<1>4. CASE PutReadingOffset
  <2>1. /\ Undelivered # <<>> /\ out' = Head(Undelivered)
        /\ Undelivered' = Tail(Undelivered)
        /\ \E z : Lists(z, Unread')
    BY <1>2, <1>4, FifoDelivers
  <2>2. (\E z : Lists(z, Unread))'
    BY <2>1
  <2>3. Fifo!Next
    BY <2>1 DEF Fifo!Next, Fifo!Deliver
  <2> QED
    BY <1>1, <2>2, <2>3 DEF FifoInv
<1>5. CASE UNCHANGED <<accepted, reading, out>>
  <2>1. Unread' = Unread
    BY <1>5 DEF Unread
  <2>2. Undelivered' = Undelivered
    BY <2>1 DEF Undelivered
  <2>3. Lists(s, Unread')
    BY <1>2, <2>1
  <2>4. (\E z : Lists(z, Unread))'
    BY <2>3
  <2> QED
    BY <1>1, <1>5, <2>2, <2>4 DEF FifoInv
<1>6. ASSUME ~ PutWritingOffset, ~ PutReadingOffset
      PROVE  UNCHANGED <<accepted, reading, out>>
  <2>1. ASSUME NEW len \in Lengths, EnqueueBegin(len)
        PROVE  UNCHANGED <<accepted, reading, out>>
    BY <2>1 DEF EnqueueBegin
  <2>2. CASE WriteLength \/ WriteBytes \/ UNCHANGED vars
    BY <2>2 DEF WriteLength, WriteBytes, vars
  <2>3. CASE DequeueBegin \/ ReadLength \/ ReadBytes \/ Acknowledge \/ Close
    BY <2>3 DEF DequeueBegin, ReadLength, ReadBytes, Acknowledge, Ack, Close
  <2>4. CASE Flush
    BY <2>4 DEF Flush, FlushOnTimer, FlushOnSignal, FlushOnDone,
      FlushGetWriting, FlushPutWatermark
  <2>5. ~ LoseMemory /\ ~ Initialize
    <3>1. status = "open" /\ status' = "open"
      BY <1>1 DEF FifoInv, OneLife
    <3> QED
      BY <3>1 DEF LoseMemory, Initialize
  <2> QED
    BY <1>6, <2>1, <2>2, <2>3, <2>4, <2>5
    DEF Next, Enqueue, Dequeue, Exit, Crash, PollEmpty
<1> QED
  BY <1>3, <1>4, <1>5, <1>6

(***************************************************************************)
(* Within one life of the process the ring of segment files implements the *)
(* FIFO queue its clients see, for every size of segments, ring and events *)
(* whose largest event fits: each accepted event is returned once, byte    *)
(* for byte and in order.                                                  *)
(***************************************************************************)
THEOREM RingIsFifo ==
  ASSUME EventFits, MaxRestarts = 0
  PROVE  Spec => ImplementsFifo
<1>1. Init => FifoInv /\ Fifo!Init
  BY FifoStarts
<1>2. FifoInv /\ [Next]_vars => FifoInv' /\ [Fifo!Next]_<<Undelivered, out>>
  BY FifoStep
<1> QED BY <1>1, <1>2, PTL DEF Spec, ImplementsFifo, Fifo!Spec
=============================================================================
