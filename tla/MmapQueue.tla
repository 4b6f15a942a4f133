----------------------------- MODULE MmapQueue -----------------------------
(***************************************************************************)
(* The memory mapped queue of plugins/queue/mmap: one publisher (the       *)
(* gatherer's enqueue goroutine), one consumer, the sender that            *)
(* acknowledges, and the goroutine that moves the watermark.               *)
(*                                                                         *)
(* Records are written and read piecewise, segment by segment, and become  *)
(* visible by one PutWritingOffset, so every interleaving of the pieces    *)
(* is a behaviour.  The files and the metadata are shared mappings: a      *)
(* crash of the process keeps them and loses everything else.              *)
(*                                                                         *)
(* The calls are shown here as far as they get.  Which segments are mapped *)
(* at a time, the waits for a file's lock, for the swapper and for         *)
(* markReadChannel, and the files that cannot be mapped are the subject of *)
(* MmapSegments: a call may stop for good at any piece, and nothing here   *)
(* assumes that it goes on.                                                *)
(***************************************************************************)
EXTENDS MmapGeometry, Sequences

CONSTANTS
  Lengths,          \* payload lengths producers offer
  FlushCeilingNum,  \* events after which the publisher asks for a flush
  MaxEvents,        \* bound: events offered in a behaviour
  MaxUnacked,       \* bound: delivered events the sender holds unacknowledged
  MaxRestarts,      \* bound: restarts of the process
  MaxSegmentID,     \* bound: how far the consumer reads along the tape
  Crashes           \* whether the process may die without Close

ASSUME QueueAssumption ==
  /\ Lengths \subseteq Nat
  /\ FlushCeilingNum \in Nat \ {0}
  /\ MaxEvents \in Nat
  /\ MaxUnacked \in Nat
  /\ MaxRestarts \in Nat
  /\ MaxSegmentID \in Nat
  /\ Crashes \in BOOLEAN

VARIABLES
  \* the files
  cells,         \* contents of the segment files
  writing, watermark, committed, reading,   \* the metadata file
  \* the publisher's Enqueue call
  wpc, wat, wlen, wcount, unflushedNum,
  \* the consumer's Dequeue call
  rpc, rat, rlen, rgot,
  \* the flush goroutine
  fpc, fat,
  \* the queue object and its clients
  status,        \* "open", "closing" (Close waits for flush), "closed"
  unacked,       \* offsets of delivered events the sender has not acknowledged
  restarts,
  \* history
  born,          \* number of events offered so far, their identity
  accepted,      \* the records Enqueue accepted and a restart did not drop
  sound,         \* whether this life resumed at a record, and all were there
  out            \* the data the last Dequeue returned

meta == <<writing, watermark, committed, reading>>
producer == <<wpc, wat, wlen, wcount, unflushedNum>>
consumer == <<rpc, rat, rlen, rgot>>
flusher == <<fpc, fat>>
vars == <<cells, meta, producer, consumer, flusher, status, unacked, restarts,
          born, accepted, sound, out>>

(***************************************************************************)
(* A byte of a segment file, tagged with where it belongs: byte k of the   *)
(* record of event ev, whose payload has len bytes, put into segment id.   *)
(***************************************************************************)
Byte == [id : Nat \cup {-1}, ev : Nat, len : Nat, k : Nat]

\* A new segment file holds zeros, and a header of zeros reads as length 0.
Zero == [id |-> -1, ev |-> 0, len |-> 0, k |-> 0]

\* The bytes first..first+n-1 of the current record, put at p.
Store(p, n, first) ==
  [cells EXCEPT ![GetIndex(p.id)] =
     [o \in Offsets |->
        IF o \in p.offset .. p.offset + n - 1
        THEN [id |-> p.id, ev |-> born, len |-> wlen,
              k |-> first + (o - p.offset)]
        ELSE @[o]]]

\* What a ReadUint64At at p may return: the length, if the bytes there are a
\* header, and any value otherwise (bounded by MaxEventSize).
LengthsAt(p) ==
  LET at(k) == cells[GetIndex(p.id)][p.offset + k]
      ks == 0 .. uInt64Size - 1
  IN IF \/ \A k \in ks : at(k) = [at(0) EXCEPT !.k = k]
        \/ \A k \in ks : at(k) = Zero
     THEN {at(0).len}
     ELSE 0 .. MaxEventSize

(***************************************************************************)
(* Enqueue: IsFull, writeLength, writeBytes segment by segment,            *)
(* PutWritingOffset, and a flush request every FlushCeilingNum events.     *)
(***************************************************************************)
EnqueueBegin(len) ==
  /\ status = "open" /\ wpc = "idle"
  /\ len <= MaxEventSize
  /\ ~Full(reading, writing)
  /\ born < MaxEvents
  /\ wpc' = "length" /\ wat' = writing /\ wlen' = len /\ wcount' = 0
  /\ born' = born + 1
  /\ UNCHANGED <<cells, meta, consumer, flusher, status, unacked, restarts,
                 accepted, sound, out, unflushedNum>>

WriteLength ==
  /\ wpc = "length"
  /\ cells' = Store(HeaderAt(wat), uInt64Size, 0)
  /\ wat' = Advance(HeaderAt(wat), uInt64Size)
  /\ wpc' = "bytes"
  /\ UNCHANGED <<meta, consumer, flusher, status, unacked, restarts, born,
                 accepted, sound, out, wlen, wcount, unflushedNum>>

\* Mutant: every piece is taken from the start of the payload.
WriteBytesFromStart ==
  /\ wpc = "bytes"
  /\ LET n == Chunk(wat, wlen - wcount)
     IN /\ cells' = Store(wat, n, uInt64Size)
        /\ wat' = Advance(wat, n)
        /\ wcount' = wcount + n
        /\ wpc' = IF wcount + n = wlen THEN "put" ELSE "bytes"
  /\ UNCHANGED <<meta, consumer, flusher, status, unacked, restarts, born,
                 accepted, sound, out, wlen, unflushedNum>>

WriteBytes ==
  /\ wpc = "bytes"
  /\ LET n == Chunk(wat, wlen - wcount)
     IN /\ cells' = Store(wat, n, uInt64Size + wcount)
        /\ wat' = Advance(wat, n)
        /\ wcount' = wcount + n
        /\ wpc' = IF wcount + n = wlen THEN "put" ELSE "bytes"
  /\ UNCHANGED <<meta, consumer, flusher, status, unacked, restarts, born,
                 accepted, sound, out, wlen, unflushedNum>>

PutWritingOffset ==
  /\ wpc = "put"
  /\ writing' = wat
  /\ accepted' = accepted \cup
       {[ev |-> born, len |-> wlen, start |-> writing, end |-> wat,
         late |-> status # "open"]}
  /\ unflushedNum' = unflushedNum + 1
  /\ wpc' = IF unflushedNum + 1 = FlushCeilingNum THEN "signal" ELSE "idle"
  /\ wat' = Origin /\ wlen' = 0 /\ wcount' = 0
  /\ UNCHANGED <<cells, watermark, committed, reading, consumer, flusher,
                 status, unacked, restarts, born, sound, out>>

(***************************************************************************)
(* Dequeue: isEmpty, readLength, readBytes segment by segment,             *)
(* PutReadingOffset; the offset after the record travels with the event.   *)
(***************************************************************************)
DequeueBegin ==
  /\ status = "open" /\ rpc = "idle"
  /\ reading # writing
  /\ Len(unacked) < MaxUnacked /\ reading.id < MaxSegmentID
  /\ rpc' = "length" /\ rat' = reading /\ rlen' = 0 /\ rgot' = <<>>
  /\ UNCHANGED <<cells, meta, producer, flusher, status, unacked, restarts,
                 born, accepted, sound, out>>

ReadLength ==
  /\ rpc = "length"
  /\ rlen' \in LengthsAt(HeaderAt(rat))
  /\ rat' = Advance(HeaderAt(rat), uInt64Size)
  /\ rpc' = "bytes" /\ rgot' = <<>>
  /\ UNCHANGED <<cells, meta, producer, flusher, status, unacked, restarts,
                 born, accepted, sound, out>>

ReadBytes ==
  /\ rpc = "bytes"
  /\ LET n == Chunk(rat, rlen - Len(rgot))
         at(j) == cells[GetIndex(rat.id)][rat.offset + j - 1]
     IN /\ rgot' = rgot \o
             [j \in 1 .. n |-> <<at(j).ev, at(j).k - uInt64Size + 1>>]
        /\ rat' = Advance(rat, n)
        /\ rpc' = IF Len(rgot) + n = rlen THEN "put" ELSE "bytes"
  /\ UNCHANGED <<cells, meta, producer, flusher, status, unacked, restarts,
                 born, accepted, sound, out, rlen>>

PutReadingOffset ==
  /\ rpc = "put"
  /\ reading' = rat
  /\ unacked' = Append(unacked, rat)
  /\ out' = rgot
  /\ rpc' = "idle" /\ rat' = Origin /\ rlen' = 0 /\ rgot' = <<>>
  /\ UNCHANGED <<cells, writing, watermark, committed, producer, flusher,
                 status, restarts, born, accepted, sound>>

\* Ack of the last event of a batch; a closed queue ignores it.
Ack(i) ==
  /\ status = "open"
  /\ committed' = unacked[i]
  /\ unacked' = SubSeq(unacked, i + 1, Len(unacked))
  /\ UNCHANGED <<cells, writing, watermark, reading, producer, consumer,
                 flusher, status, restarts, born, accepted, sound, out>>

(***************************************************************************)
(* The flush goroutine: woken by the timer, by the publisher, or by the    *)
(* cancelled context (then it flushes a last time and returns).            *)
(***************************************************************************)
FlushOnTimer ==
  /\ status # "closed" /\ fpc = "idle"
  /\ fpc' = "sync"
  /\ UNCHANGED <<cells, meta, producer, consumer, fat, status, unacked,
                 restarts, born, accepted, sound, out>>

\* The rendezvous on flushChannel, after which enqueue resets its counter.
FlushOnSignal ==
  /\ fpc = "idle" /\ wpc = "signal"
  /\ fpc' = "sync" /\ wpc' = "idle" /\ unflushedNum' = 0
  /\ UNCHANGED <<cells, meta, consumer, fat, status, unacked, restarts, born,
                 accepted, sound, out, wat, wlen, wcount>>

\* Mutant: the loop returns without a last flush.
FlushOnDoneWithoutFlush ==
  /\ status = "closing" /\ fpc = "idle"
  /\ fpc' = "exit"
  /\ UNCHANGED <<cells, meta, producer, consumer, fat, status, unacked,
                 restarts, born, accepted, sound, out>>

FlushOnDone ==
  /\ status = "closing" /\ fpc = "idle"
  /\ fpc' = "lastsync"
  /\ UNCHANGED <<cells, meta, producer, consumer, fat, status, unacked,
                 restarts, born, accepted, sound, out>>

\* doFlush, second half: GetWritingOffset and PutWatermarkOffset each take the
\* metadata lock, so the publisher may run between them.
FlushGetWriting ==
  /\ fpc \in {"sync", "lastsync"}
  /\ fat' = writing
  /\ fpc' = IF fpc = "sync" THEN "put" ELSE "lastput"
  /\ UNCHANGED <<cells, meta, producer, consumer, status, unacked, restarts,
                 born, accepted, sound, out>>

FlushPutWatermark ==
  /\ fpc \in {"put", "lastput"}
  /\ watermark' = fat
  /\ fpc' = IF fpc = "put" THEN "idle" ELSE "exit"
  /\ fat' = Origin
  /\ UNCHANGED <<cells, writing, committed, reading, producer, consumer,
                 status, unacked, restarts, born, accepted, sound, out>>

\* Absolute addresses, an independent account of where a record lies.
Address(p) == p.id * SegmentSize + p.offset
PositionOf(a) == [id |-> a \div SegmentSize, offset |-> a % SegmentSize]

\* The first n bytes of the record of event ev are on the tape, from address
\* first on.
OnTape(first, ev, len, n) ==
  \A k \in 0 .. n - 1 :
    LET p == PositionOf(first + k)
    IN cells[GetIndex(p.id)][p.offset] =
         [id |-> p.id, ev |-> ev, len |-> len, k |-> k]

\* Record e is on the tape, byte by byte, and ends where its last byte ends.
Intact(e) ==
  LET first == Address(HeaderAt(e.start))
  IN /\ e.end = PositionOf(first + uInt64Size + e.len)
     /\ OnTape(first, e.ev, e.len, uInt64Size + e.len)

\* The committed offset is at the start of a record or of the space to write,
\* all records from there on are on the tape, and each is followed by another
\* or by the space to write.
Resumable(records) ==
  LET starts == {watermark} \cup {e.start : e \in records}
  IN /\ committed \in starts
     /\ \A e \in records :
          AtOrBefore(committed, e.start) => Intact(e) /\ e.end \in starts

(***************************************************************************)
(* Close, crash and restart.                                               *)
(***************************************************************************)
Close ==
  /\ status = "open" /\ restarts < MaxRestarts
  /\ status' = "closing"
  /\ UNCHANGED <<cells, meta, producer, consumer, flusher, unacked, restarts,
                 born, accepted, sound, out>>

\* Everything that is not in a file is gone.
LoseMemory ==
  /\ status' = "closed"
  /\ wpc' = "idle" /\ wat' = Origin /\ wlen' = 0 /\ wcount' = 0
  /\ unflushedNum' = 0
  /\ rpc' = "idle" /\ rat' = Origin /\ rlen' = 0 /\ rgot' = <<>>
  /\ fpc' = "idle" /\ fat' = Origin
  /\ unacked' = <<>> /\ out' = <<>>
  /\ UNCHANGED <<cells, writing, reading, restarts, born, accepted, sound>>

\* Close returns once flush has ended; the process exits after it.
Exit ==
  /\ status = "closing" /\ fpc = "exit"
  /\ LoseMemory
  /\ UNCHANGED <<watermark, committed>>

\* An offset is stored in two halves, the segment first.  The lock of the
\* metadata hides this from the other goroutines, not from a crash between the
\* two; the halves of the reading and the writing offset do not matter, since
\* Initialize replaces both.
Torn(old, new) == [old EXCEPT !.id = new.id]

Crash ==
  /\ Crashes /\ status # "closed" /\ restarts < MaxRestarts
  /\ LoseMemory
  /\ \/ UNCHANGED <<watermark, committed>>
     \/ /\ fpc \in {"put", "lastput"}
        /\ watermark' = Torn(watermark, fat) /\ UNCHANGED committed
     \/ /\ status = "open"
        /\ \E i \in 1 .. Len(unacked) : committed' = Torn(committed, unacked[i])
        /\ UNCHANGED watermark

\* Mutant: the reading offset of the last life is kept.
InitializeKeepingReading ==
  /\ status = "closed"
  /\ status' = "open"
  /\ writing' = watermark
  /\ restarts' = restarts + 1
  /\ accepted' = {e \in accepted : AtOrBefore(e.end, watermark)}
  /\ sound' = Resumable(accepted')
  /\ UNCHANGED <<cells, watermark, committed, reading, producer, consumer,
                 flusher, unacked, born, out>>

\* Initialize on existing files: the reading and the writing offset are
\* overridden by the committed and the watermark offset.
Initialize ==
  /\ status = "closed"
  /\ status' = "open"
  /\ writing' = watermark /\ reading' = committed
  /\ restarts' = restarts + 1
  /\ accepted' = {e \in accepted : AtOrBefore(e.end, watermark)}
  /\ sound' = Resumable(accepted')
  /\ UNCHANGED <<cells, watermark, committed, producer, consumer, flusher,
                 unacked, born, out>>

Init ==
  /\ cells = [i \in Indexes |-> [o \in Offsets |-> Zero]]
  /\ writing = Origin /\ watermark = Origin
  /\ committed = Origin /\ reading = Origin
  /\ wpc = "idle" /\ wat = Origin /\ wlen = 0 /\ wcount = 0
  /\ unflushedNum = 0
  /\ rpc = "idle" /\ rat = Origin /\ rlen = 0 /\ rgot = <<>>
  /\ fpc = "idle" /\ fat = Origin
  /\ status = "open" /\ unacked = <<>> /\ restarts = 0
  /\ born = 0 /\ accepted = {} /\ sound = TRUE /\ out = <<>>

Enqueue ==
  \/ \E len \in Lengths : EnqueueBegin(len)
  \/ WriteLength \/ WriteBytes \/ PutWritingOffset
Dequeue == DequeueBegin \/ ReadLength \/ ReadBytes \/ PutReadingOffset
Acknowledge == \E i \in 1 .. Len(unacked) : Ack(i)
Flush ==
  \/ FlushOnTimer \/ FlushOnSignal \/ FlushOnDone
  \/ FlushGetWriting \/ FlushPutWatermark

\* Nothing left to offer, to read, to acknowledge or to flush: the consumer
\* polls the empty queue.
PollEmpty ==
  /\ status = "open" /\ born = MaxEvents /\ wpc = "idle" /\ rpc = "idle"
  /\ reading = writing
  /\ UNCHANGED vars

Next ==
  \/ Enqueue \/ Dequeue \/ Acknowledge \/ Flush
  \/ Close \/ Exit \/ Crash \/ Initialize \/ PollEmpty

Spec == Init /\ [][Next]_vars

-----------------------------------------------------------------------------
Record ==
  [ev : Nat, len : Nat, start : Position, end : Position, late : BOOLEAN]

(***************************************************************************)
(* The files, the metadata and the calls of Enqueue, Dequeue and flush     *)
(* keep their types; a cursor is always a position inside a segment.       *)
(***************************************************************************)
TypeOK ==
  /\ cells \in [Indexes -> [Offsets -> Byte]]
  /\ writing \in Position /\ watermark \in Position
  /\ committed \in Position /\ reading \in Position
  /\ wpc \in {"idle", "length", "bytes", "put", "signal"}
  /\ wat \in Position /\ wlen \in Nat /\ wcount \in 0 .. wlen
  /\ unflushedNum \in Nat
  /\ rpc \in {"idle", "length", "bytes", "put"}
  /\ rat \in Position /\ rlen \in Nat
  /\ rgot \in Seq(Nat \X Int) /\ Len(rgot) <= rlen
  /\ fpc \in {"idle", "sync", "put", "lastsync", "lastput", "exit"}
  /\ fat \in Position
  /\ status \in {"open", "closing", "closed"}
  /\ unacked \in Seq(Position) /\ restarts \in Nat
  /\ born \in Nat /\ accepted \in SUBSET Record /\ sound \in BOOLEAN
  /\ out \in Seq(Nat \X Int)

\* The part of the tape between two offsets.
Between(p, low, high) == AtOrBefore(low, p) /\ Before(p, high)

\* No step replaces a byte that lies between two metadata offsets.
Preserved(low, high) ==
  \A i \in Indexes, o \in Offsets :
    LET b == cells[i][o]
    IN (b.id # -1 /\ Between([id |-> b.id, offset |-> o], low, high))
         => cells'[i][o] = b

(***************************************************************************)
(* Reusing the files of the ring never destroys a byte between the reading *)
(* and the writing offset, whatever the interleaving of a multi-segment    *)
(* write with reads and restarts: what IsFull is there for.                *)
(***************************************************************************)
UnreadNeverOverwritten == [][Preserved(reading, writing)]_vars

(***************************************************************************)
(* The same for what was delivered but not acknowledged: a restart reads   *)
(* again from the committed offset.                                        *)
(***************************************************************************)
UnackedNeverOverwritten == [][Preserved(committed, writing)]_vars

(***************************************************************************)
(* Every accepted record the consumer has not read yet is whole in the     *)
(* ring and ends where its last byte ends, in every life of the process    *)
(* that resumed from sound files.                                          *)
(***************************************************************************)
UnreadIntact ==
  sound => \A e \in accepted : Between(e.start, reading, writing) => Intact(e)

(***************************************************************************)
(* Nothing is committed before it was read or read before it was written,  *)
(* and the watermark never runs ahead of the publisher, in every life of   *)
(* the process that resumed at a record with all the records after it.  A  *)
(* crash between the halves of a store may leave files that the next life  *)
(* cannot resume from so.                                                  *)
(***************************************************************************)
OffsetOrder ==
  (sound /\ status # "closed") =>
    /\ AtOrBefore(committed, reading) /\ AtOrBefore(reading, writing)
    /\ AtOrBefore(watermark, writing)

\* Every life resumes at a record, with all the records after it.
AlwaysSound == sound

(***************************************************************************)
(* A restart, after Close or after a crash, resumes reading at or before   *)
(* the position it resumes writing at.                                     *)
(***************************************************************************)
ReadingNotAhead == AtOrBefore(reading, writing)

(***************************************************************************)
(* Close loses nothing: when it is over, the watermark the next life will  *)
(* write from covers what was committed and every event that was accepted  *)
(* while the queue was open.                                               *)
(***************************************************************************)
CloseKeepsAccepted ==
  [][(Exit /\ sound) =>
       /\ AtOrBefore(committed, watermark)
       /\ \A e \in accepted : ~e.late => AtOrBefore(e.end, watermark)]_vars

-----------------------------------------------------------------------------
(***************************************************************************)
(* The strengthening that makes UnreadNeverOverwritten provable.           *)
(***************************************************************************)

\* A byte written for segment id lies in the file of segment id.
Tagged ==
  \A i \in Indexes, o \in Offsets :
    cells[i][o].id # -1 => GetIndex(cells[i][o].id) = i

\* The consumer's cursor never falls behind the reading offset.
ReaderForward == rpc # "idle" => reading.id <= rat.id

\* While a record is being written, IsFull's verdict at the start of the call
\* still holds, and what is left to write ends in the segments it reserved.
WriterBounded ==
  LET spare == MaxEventSize \div SegmentSize
  IN wpc \in {"length", "bytes", "put"} =>
       /\ wlen <= MaxEventSize
       /\ ~Full(reading, writing)
       /\ AtOrBefore(writing, wat)
       /\ wpc = "length" => wat = writing /\ wcount = 0
       /\ wpc # "length" =>
            Address(wat) + (wlen - wcount)
              <= (writing.id + spare + 2) * SegmentSize

ClosedIsIdle == status = "closed" => wpc = "idle" /\ rpc = "idle"

IndInv == TypeOK /\ Tagged /\ ReaderForward /\ WriterBounded /\ ClosedIsIdle
=============================================================================
