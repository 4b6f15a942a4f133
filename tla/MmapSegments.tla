---------------------------- MODULE MmapSegments ----------------------------
(***************************************************************************)
(* Which segment files of the mmap queue are mapped into memory, and how   *)
(* the publisher, the consumer, the swapper and the flush goroutine share  *)
(* them: one spin lock per file, the insufficient/sufficient memory        *)
(* channels, and the channel of segments the consumer has left behind.     *)
(*                                                                         *)
(* Offsets are segment numbers here.  A record is the interval of segments *)
(* its bytes lie in and the segment its end offset points to; MmapGeometry *)
(* says which intervals are possible.                                      *)
(***************************************************************************)
EXTENDS Integers, Sequences, FiniteSets

CONSTANTS
  QueueCapacitySegments,  \* files in the ring
  MaxInMemSegments,       \* files that should be mapped at a time
  Span,                   \* MaxEventSize \div SegmentSize
  MaxSegmentID,           \* bound: segments the publisher fills
  MaxBacklog,             \* bound: unread records
  MaxFailures,            \* bound: files that cannot be mapped or unmapped
  CloseFrom               \* bound: the first writing segment to Close at

ASSUME SegmentsAssumption ==
  /\ QueueCapacitySegments \in Nat \ {0}
  /\ MaxInMemSegments \in Nat /\ MaxInMemSegments >= 4  \* minimumSegments
  /\ Span \in Nat
  /\ MaxSegmentID \in Nat /\ MaxBacklog \in Nat /\ MaxFailures \in Nat
  /\ CloseFrom \in Nat

Indexes == 0 .. QueueCapacitySegments - 1
GetIndex(segmentID) == segmentID % QueueCapacitySegments

\* The two callers of GetSegment.
Publisher == "publisher"
Consumer == "consumer"
Callers == {Publisher, Consumer}
Swapper == "swapper"
Nobody == "nobody"

VARIABLES
  writing, reading,  \* segment ids of the two offsets in the metadata
  records,           \* the unread records, oldest first
  mapped,            \* indexes whose segments[index] is not nil
  locker,            \* who holds the spin lock of each file
  pc,                \* where each caller is
  at,                \* the segment each caller is working on
  job,               \* the record each caller writes or reads
  marks,             \* markReadChannel, capacity 1
  wpc, wid,          \* swapper: control point; segment to unmap, or doSwap's i
  seen,              \* doSwap's snapshot of the reading and writing segment
  fpc, fid,          \* flush goroutine: control point and index of doFlush
  cancelled,         \* Close has cancelled the context
  faults,            \* files that could not be mapped or unmapped so far
  stuck,             \* indexes left locked by calls whose file was not mapped
  overdraft          \* doSwaps that failed, and were granted all the same

queue == <<writing, reading, records>>
callers == <<pc, at, job>>
swapper == <<wpc, wid, seen>>
flusher == <<fpc, fid>>
failures == <<faults, stuck, overdraft>>
vars == <<queue, mapped, locker, callers, marks, swapper, flusher, cancelled,
          failures>>

NoRecord == [first |-> 0, last |-> 0, end |-> 0]
mmapCount == Cardinality(mapped)
\* Mutant: the limit is noticed one file late.
InsufficientLate == mmapCount > MaxInMemSegments

Insufficient == mmapCount >= MaxInMemSegments

Goto(c, label) == pc' = [pc EXCEPT ![c] = label]

\* A file cannot be mapped, flushed or unmapped.
Fault == faults < MaxFailures /\ faults' = faults + 1

(***************************************************************************)
(* enqueue and dequeue: the segments of a record are visited in order,     *)
(* each under its lock; the offset in the metadata moves at the end.       *)
(***************************************************************************)
BeginEnqueue(record) ==
  /\ ~cancelled /\ pc[Publisher] = "idle"
  /\ writing < reading + QueueCapacitySegments - 1 - Span     \* ~IsFull
  /\ Len(records) < MaxBacklog
  /\ job' = [job EXCEPT ![Publisher] = record]
  /\ at' = [at EXCEPT ![Publisher] = record.first]
  /\ Goto(Publisher, "lock")
  /\ UNCHANGED <<queue, mapped, locker, marks, swapper, flusher, cancelled>>

BeginDequeue ==
  /\ ~cancelled /\ pc[Consumer] = "idle"
  /\ records # <<>>
  /\ job' = [job EXCEPT ![Consumer] = Head(records)]
  /\ at' = [at EXCEPT ![Consumer] = Head(records).first]
  /\ Goto(Consumer, "lock")
  /\ UNCHANGED <<queue, mapped, locker, marks, swapper, flusher, cancelled>>

\* Taking the spin lock, and GetSegment's look at the count, whether or not
\* the file is mapped already.
Lock(c) ==
  /\ pc[c] = "lock" /\ locker[GetIndex(at[c])] = Nobody
  /\ locker' = [locker EXCEPT ![GetIndex(at[c])] = c]
  /\ Goto(c, IF Insufficient THEN "ask" ELSE "map")
  /\ UNCHANGED <<queue, mapped, at, job, marks, swapper, flusher, cancelled>>

MapSegment(c) ==
  /\ pc[c] = "map"
  /\ mapped' = mapped \cup {GetIndex(at[c])}
  /\ Goto(c, "fetch")
  /\ UNCHANGED <<queue, locker, at, job, marks, swapper, flusher, cancelled>>

\* NewSegment fails: GetSegment returns its error, and the caller returns it
\* without unlocking the file.
MapFails(c) ==
  /\ pc[c] = "map" /\ GetIndex(at[c]) \notin mapped
  /\ Fault
  /\ stuck' = stuck \cup {GetIndex(at[c])}
  /\ Goto(c, "idle")
  /\ at' = [at EXCEPT ![c] = 0] /\ job' = [job EXCEPT ![c] = NoRecord]
  /\ UNCHANGED <<queue, mapped, locker, marks, swapper, flusher, cancelled,
                 overdraft>>

\* The end of GetSegment reads segments[index] again; if doSwap has taken it
\* meanwhile the call fails, and its caller returns without unlocking.
FetchSegment(c) ==
  /\ pc[c] = "fetch"
  /\ Goto(c, IF GetIndex(at[c]) \in mapped THEN "use" ELSE "idle")
  /\ UNCHANGED <<queue, mapped, locker, at, job, marks, swapper, flusher,
                 cancelled>>

\* The copy itself, then unlock and on to the next segment of the record.  A
\* copy from or to a file unmapped meanwhile faults: it has no next step.
UseSegment(c) ==
  /\ pc[c] = "use" /\ GetIndex(at[c]) \in mapped
  /\ locker' = [locker EXCEPT ![GetIndex(at[c])] = Nobody]
  /\ IF at[c] < job[c].last
     THEN Goto(c, "lock") /\ at' = [at EXCEPT ![c] = @ + 1]
     ELSE Goto(c, "put") /\ UNCHANGED at
  /\ UNCHANGED <<queue, mapped, job, marks, swapper, flusher, cancelled>>

EndEnqueue ==
  /\ pc[Publisher] = "put"
  /\ writing' = job[Publisher].end
  /\ records' = Append(records, job[Publisher])
  /\ Goto(Publisher, "idle")
  /\ at' = [at EXCEPT ![Publisher] = 0]
  /\ job' = [job EXCEPT ![Publisher] = NoRecord]
  /\ UNCHANGED <<reading, mapped, locker, marks, swapper, flusher, cancelled>>

\* at keeps the segment left behind, preID, until it is in the channel.
EndDequeue ==
  /\ pc[Consumer] = "put"
  /\ reading' = job[Consumer].end
  /\ records' = Tail(records)
  /\ IF reading' # reading
     THEN Goto(Consumer, "mark") /\ at' = [at EXCEPT ![Consumer] = reading]
     ELSE Goto(Consumer, "idle") /\ at' = [at EXCEPT ![Consumer] = 0]
  /\ job' = [job EXCEPT ![Consumer] = NoRecord]
  /\ UNCHANGED <<writing, mapped, locker, marks, swapper, flusher, cancelled>>

\* Mutant: the channel takes any number of marks.
MarkReadUnbounded ==
  /\ pc[Consumer] = "mark"
  /\ marks' = Append(marks, at[Consumer])
  /\ Goto(Consumer, "idle")
  /\ at' = [at EXCEPT ![Consumer] = 0]
  /\ UNCHANGED <<queue, mapped, locker, job, swapper, flusher, cancelled>>

MarkRead ==
  /\ pc[Consumer] = "mark" /\ Len(marks) < 1
  /\ marks' = Append(marks, at[Consumer])
  /\ Goto(Consumer, "idle")
  /\ at' = [at EXCEPT ![Consumer] = 0]
  /\ UNCHANGED <<queue, mapped, locker, job, swapper, flusher, cancelled>>

(***************************************************************************)
(* segmentSwapper: one goroutine serving markReadChannel,                  *)
(* insufficientMemChannel and the cancelled context.                       *)
(***************************************************************************)
ReceiveMark ==
  /\ wpc = "select" /\ marks # <<>>
  /\ wid' = Head(marks) /\ marks' = Tail(marks)
  /\ wpc' = "lock"
  /\ UNCHANGED <<queue, mapped, locker, callers, seen, flusher, cancelled>>

\* Mutant: the segment is unmapped without its lock.
LockMarkedWithout ==
  /\ wpc = "lock"
  /\ wpc' = "unmap"
  /\ UNCHANGED <<queue, mapped, locker, callers, marks, wid, seen, flusher,
                 cancelled>>

LockMarked ==
  /\ wpc = "lock" /\ locker[GetIndex(wid)] = Nobody
  /\ locker' = [locker EXCEPT ![GetIndex(wid)] = Swapper]
  /\ wpc' = "unmap"
  /\ UNCHANGED <<queue, mapped, callers, marks, wid, seen, flusher, cancelled>>

UnmapMarked ==
  /\ wpc = "unmap"
  /\ mapped' = mapped \ {GetIndex(wid)}
  /\ locker' = [locker EXCEPT ![GetIndex(wid)] = Nobody]
  /\ wpc' = "select" /\ wid' = 0
  /\ UNCHANGED <<queue, callers, marks, seen, flusher, cancelled>>

\* The file cannot be flushed or unmapped: it stays in the table.
UnmapMarkedFails ==
  /\ wpc = "unmap" /\ GetIndex(wid) \in mapped
  /\ Fault
  /\ locker' = [locker EXCEPT ![GetIndex(wid)] = Nobody]
  /\ wpc' = "select" /\ wid' = 0
  /\ UNCHANGED <<queue, mapped, callers, marks, seen, flusher, cancelled,
                 stuck, overdraft>>

\* The rendezvous on insufficientMemChannel, with doSwap's snapshot.
ReceiveInsufficient(c) ==
  /\ wpc = "select" /\ pc[c] = "ask"
  /\ Goto(c, "wait")
  /\ IF Insufficient
     THEN /\ wpc' = "swap"
          /\ seen' = [r |-> reading, w |-> writing]
          /\ wid' = writing + QueueCapacitySegments - 1
     ELSE wpc' = "grant" /\ UNCHANGED <<seen, wid>>
  /\ UNCHANGED <<queue, mapped, locker, at, job, marks, flusher, cancelled>>

\* More than one and a half times MaxInMemSegments are waiting to be read.
ClearAll == seen.w - seen.r + 1 > (MaxInMemSegments * 3) \div 2

\* The two segments doSwap keeps, as its snapshot has them.
Spared == GetIndex(wid) \in {GetIndex(seen.w), GetIndex(seen.r)}

\* doSwap's inner loop has looked at MaxInMemSegments segments, or at all of
\* them back to the first.
LoopEnds == wid < 0 \/ wid < seen.w + QueueCapacitySegments - MaxInMemSegments

\* One turn of doSwap's inner loop, or the end of it; no lock is taken.
DoSwap ==
  /\ wpc = "swap"
  /\ LET left == mapped \ {GetIndex(wid)}
         enough == MaxInMemSegments - Cardinality(left)
                     >= (MaxInMemSegments \div 2) - 1
         grant == wpc' = "grant" /\ wid' = 0 /\ seen' = [r |-> 0, w |-> 0]
         go(i) == wid' = i /\ UNCHANGED <<wpc, seen>>
     IN IF LoopEnds
        THEN /\ IF Insufficient
                THEN go(seen.w + QueueCapacitySegments - 1)
                ELSE grant
             /\ UNCHANGED mapped
        ELSE IF Spared
        THEN go(wid - 1) /\ UNCHANGED mapped
        ELSE /\ mapped' = left
             /\ IF ~ClearAll /\ enough THEN grant ELSE go(wid - 1)
  /\ UNCHANGED <<queue, locker, callers, marks, flusher, cancelled>>

\* doSwap ends with the first file that cannot be flushed or unmapped, and the
\* swapper lets the caller go on without the room it asked for.
SwapFails ==
  /\ wpc = "swap" /\ ~LoopEnds /\ ~Spared /\ GetIndex(wid) \in mapped
  /\ Fault
  /\ overdraft' = overdraft + 1
  /\ wpc' = "grant" /\ wid' = 0 /\ seen' = [r |-> 0, w |-> 0]
  /\ UNCHANGED <<queue, mapped, locker, callers, marks, flusher, cancelled, stuck>>

\* The rendezvous on sufficientMemChannel.
SendSufficient(c) ==
  /\ wpc = "grant" /\ pc[c] = "wait"
  /\ Goto(c, "map")
  /\ wpc' = "select"
  /\ UNCHANGED <<queue, mapped, locker, at, job, marks, wid, seen, flusher,
                 cancelled>>

SwapperDone ==
  /\ wpc = "select" /\ cancelled
  /\ wpc' = "exit"
  /\ UNCHANGED <<queue, mapped, locker, callers, marks, wid, seen, flusher,
                 cancelled>>

(***************************************************************************)
(* The flush goroutine.  A doFlush locks, syncs and unlocks the files one  *)
(* by one and changes nothing this module keeps; a pass matters only as    *)
(* something Close waits for, so the last one is the one modelled.         *)
(***************************************************************************)
LastFlush ==
  /\ fpc = "loop" /\ cancelled
  /\ fpc' = "last"
  /\ UNCHANGED <<queue, mapped, locker, callers, marks, swapper, fid, cancelled>>

FlushIndex ==
  /\ fpc = "last" /\ fid \in Indexes /\ locker[fid] = Nobody
  /\ fid' = fid + 1
  /\ UNCHANGED <<queue, mapped, locker, callers, marks, swapper, fpc, cancelled>>

EndFlush ==
  /\ fpc = "last" /\ fid = QueueCapacitySegments
  /\ fpc' = "exit"
  /\ UNCHANGED <<queue, mapped, locker, callers, marks, swapper, fid, cancelled>>

\* Close cancels the context and then waits for both goroutines.
Close ==
  /\ writing >= CloseFrom /\ ~cancelled
  /\ cancelled' = TRUE
  /\ UNCHANGED <<queue, mapped, locker, callers, marks, swapper, flusher>>

Init ==
  /\ writing = 0 /\ reading = 0 /\ records = <<>>
  /\ mapped = {0}                  \* Initialize maps the two current segments
  /\ locker = [i \in Indexes |-> Nobody]
  /\ pc = [c \in Callers |-> "idle"]
  /\ at = [c \in Callers |-> 0]
  /\ job = [c \in Callers |-> NoRecord]
  /\ marks = <<>>
  /\ wpc = "select" /\ wid = 0 /\ seen = [r |-> 0, w |-> 0]
  /\ fpc = "loop" /\ fid = 0
  /\ cancelled = FALSE
  /\ faults = 0 /\ stuck = {} /\ overdraft = 0

\* The records an Enqueue may lay out from the writing offset: the header in
\* the current segment or the next, the last byte at most Span + 1 segments
\* further, the end offset in that segment or, if it is full, the next.
Layouts ==
  {r \in [first : writing .. writing + 1,
          last : writing .. writing + Span + 1,
          end : writing .. writing + Span + 2] :
     r.first <= r.last /\ r.end \in {r.last, r.last + 1}
       /\ r.end <= MaxSegmentID}

Call(c) ==
  \/ Lock(c) \/ MapSegment(c) \/ FetchSegment(c)
  \/ UseSegment(c)
Enqueue == (\E r \in Layouts : BeginEnqueue(r)) \/ Call(Publisher) \/ EndEnqueue
Dequeue == BeginDequeue \/ Call(Consumer) \/ EndDequeue \/ MarkRead
Swap ==
  \/ ReceiveMark \/ LockMarked \/ UnmapMarked \/ DoSwap \/ SwapperDone
  \/ \E c \in Callers : ReceiveInsufficient(c) \/ SendSufficient(c)
Flush == LastFlush \/ FlushIndex \/ EndFlush

Works == Enqueue \/ Dequeue \/ Swap \/ Flush \/ Close
Fails == (\E c \in Callers : MapFails(c)) \/ UnmapMarkedFails \/ SwapFails

Next == (Works /\ UNCHANGED failures) \/ Fails

Spec == Init /\ [][Next]_vars

\* What the goroutines work on; failures is the account of what went wrong.
work == <<queue, mapped, locker, callers, marks, swapper, flusher, cancelled>>

\* Every goroutine keeps running; a spin lock that is free again and again is
\* taken eventually, and select picks at random among the cases that are ready.
Fairness ==
  /\ \A c \in Callers :
       /\ SF_work(Lock(c))
       /\ WF_work(MapSegment(c) \/ FetchSegment(c) \/ UseSegment(c))
       /\ SF_work(ReceiveInsufficient(c)) /\ WF_work(SendSufficient(c))
  /\ WF_work(EndEnqueue) /\ WF_work(EndDequeue) /\ WF_work(MarkRead)
  /\ SF_work(ReceiveMark) /\ SF_work(LockMarked) /\ WF_work(UnmapMarked)
  /\ WF_work(DoSwap) /\ SF_work(SwapperDone)
  /\ WF_work(LastFlush) /\ SF_work(FlushIndex) /\ WF_work(EndFlush)

FairSpec == Spec /\ Fairness

-----------------------------------------------------------------------------
Segment == 0 .. MaxSegmentID
RecordType == [first : Segment, last : Segment, end : Segment]

(***************************************************************************)
(* The types of the segment table, the locks and the goroutines' states;   *)
(* markReadChannel never holds more than its capacity.                     *)
(***************************************************************************)
TypeOK ==
  /\ writing \in Segment /\ reading \in Segment
  /\ records \in Seq(RecordType)
  /\ mapped \subseteq Indexes
  /\ locker \in [Indexes -> Callers \cup {Swapper, Nobody}]
  /\ pc \in [Callers -> {"idle", "lock", "ask", "wait", "map", "fetch", "use",
                         "put", "mark"}]
  /\ at \in [Callers -> Segment] /\ job \in [Callers -> RecordType]
  /\ marks \in Seq(Segment) /\ Len(marks) <= 1
  /\ wpc \in {"select", "lock", "unmap", "swap", "grant", "exit"}
  /\ wid \in Nat \cup {-1} /\ seen \in [r : Segment, w : Segment]
  /\ fpc \in {"loop", "last", "exit"} /\ fid \in 0 .. QueueCapacitySegments
  /\ cancelled \in BOOLEAN
  /\ faults \in Nat /\ stuck \subseteq Indexes /\ overdraft \in Nat

(***************************************************************************)
(* GetSegment looks at the count and maps later, so two callers can both   *)
(* take the last place: the number of mapped files exceeds                 *)
(* MaxInMemSegments by one.  A doSwap that fails is granted like one that  *)
(* made room, and lets in one more; nothing else does, neither a file that *)
(* cannot be unmapped when the consumer leaves it nor a call that fails.   *)
(***************************************************************************)
MemoryBound == mmapCount <= MaxInMemSegments + 1 + overdraft

\* The file a caller copies from or to stays mapped until the copy is over.
Held(c) == pc[c] = "use" => GetIndex(at[c]) \in mapped

\* When the publisher cannot come around to the files one doSwap takes: the
\* ring is so large that it would have to map too many files on its way, or
\* doSwap ends with the first file that makes room.
RingIsRoomy == QueueCapacitySegments >= 3 * MaxInMemSegments + Span + 2
LimitIsSmall ==
  MaxInMemSegments \div 2 = 2 /\ QueueCapacitySegments > MaxInMemSegments + Span + 1

(***************************************************************************)
(* Neither the swapper's unmapping of segments the consumer has left nor   *)
(* doSwap, which takes no lock, unmaps a file the publisher is writing to; *)
(* and the only locks an Enqueue leaves behind are those of the files that *)
(* could not be mapped, at whatever step the swapper is meanwhile.         *)
(* Initialize does not ensure the conditions this needs: with a limit of   *)
(* six files in a ring of eight, doSwap takes several files by an old      *)
(* snapshot of the offsets, while the publisher moves on into one of them. *)
(***************************************************************************)
PublisherUndisturbed ==
  /\ Held(Publisher)
  /\ \A i \in Indexes : locker[i] = Publisher =>
       \/ i \in stuck
       \/ /\ pc[Publisher] \in {"ask", "wait", "map", "fetch", "use"}
          /\ GetIndex(at[Publisher]) = i

\* A call that has ended holds no lock, whether it succeeded or not.
LocksReleased ==
  \A c \in Callers : pc[c] = "idle" => \A i \in Indexes : locker[i] # c

\* The reading segment stays in memory while it is being read.
ConsumerUndisturbed == Held(Consumer)

(***************************************************************************)
(* The swapper, to unmap a segment, never waits for the lock of a caller   *)
(* that waits for the swapper.                                             *)
(***************************************************************************)
NoWaitCycle ==
  \A c \in Callers :
    ~(wpc = "lock" /\ locker[GetIndex(wid)] = c /\ pc[c] = "ask")

(***************************************************************************)
(* doSwap ends: it always finds enough files to unmap.                     *)
(***************************************************************************)
SwapEnds == (wpc = "swap") ~> (wpc # "swap")

(***************************************************************************)
(* Close returns: the two goroutines it waits for end.                     *)
(***************************************************************************)
CloseReturns == cancelled ~> (wpc = "exit" /\ fpc = "exit")
=============================================================================
