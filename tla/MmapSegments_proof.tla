------------------------- MODULE MmapSegments_proof -------------------------
(***************************************************************************)
(* The types of the segment table and the bound on the mapped files, for   *)
(* every size of the ring, every limit of at least four files and records  *)
(* of any length; and, where the ring is roomy or the limit small, that    *)
(* the publisher's file is never unmapped under it.                        *)
(***************************************************************************)
EXTENDS MmapSegments, FiniteSetTheorems, TLAPS

\* The record a consumer works on is still in the queue.
RecordThere ==
  pc[Consumer] \in {"lock", "ask", "wait", "map", "fetch", "use", "put"} => records # <<>>

\* The swapper serves one caller at a time: somebody waits exactly as long as
\* it looks for room or is about to grant it, and never both callers.
OneServed ==
  /\ wpc \in {"swap", "grant"} <=> \E c \in Callers : pc[c] = "wait"
  /\ ~(pc[Publisher] = "wait" /\ pc[Consumer] = "wait")

\* The places promised to callers that have not mapped their file yet.
One(b) == IF b THEN 1 ELSE 0
Promised == One(pc[Publisher] = "map") + One(pc[Consumer] = "map") + One(wpc = "grant")
RoomPromised == mmapCount + Promised <= MaxInMemSegments + 1 + overdraft

SegmentsInv == TypeOK /\ RecordThere /\ OneServed /\ RoomPromised

-----------------------------------------------------------------------------
\* Every segment has an index.
LEMMA IndexType == \A i \in Int : GetIndex(i) \in Indexes
  BY SegmentsAssumption DEF GetIndex, Indexes

\* The files that are mapped can be counted.
LEMMA CountType ==
  ASSUME NEW S, S \subseteq Indexes
  PROVE  IsFiniteSet(S) /\ Cardinality(S) \in Nat
<1>1. IsFiniteSet(Indexes)
  BY SegmentsAssumption, FS_Interval DEF Indexes
<1>2. IsFiniteSet(S)
  BY <1>1, FS_Subset
<1> QED BY <1>2, FS_CardinalityType

\* Mapping a file adds one at most.
LEMMA CountMore ==
  ASSUME NEW S, S \subseteq Indexes, NEW i
  PROVE  Cardinality(S \cup {i}) \in Nat /\ Cardinality(S \cup {i}) <= Cardinality(S) + 1
<1>1. IsFiniteSet(S) /\ Cardinality(S) \in Nat
  BY CountType
<1>2. Cardinality(S \cup {i}) = IF i \in S THEN Cardinality(S) ELSE Cardinality(S) + 1
  BY <1>1, FS_AddElement
<1> QED BY <1>1, <1>2

\* Unmapping a file adds none.
LEMMA CountLess ==
  ASSUME NEW S, S \subseteq Indexes, NEW i
  PROVE  Cardinality(S \ {i}) \in Nat /\ Cardinality(S \ {i}) <= Cardinality(S)
<1>1. IsFiniteSet(S) /\ Cardinality(S) \in Nat
  BY CountType
<1>2. S \ {i} \subseteq S /\ S \ {i} \subseteq Indexes
  OBVIOUS
<1>3. Cardinality(S \ {i}) \in Nat
  BY <1>2, CountType
<1> QED BY <1>1, <1>2, <1>3, FS_Subset

\* A record that is laid out ends before the bound.
LEMMA LayoutType ==
  ASSUME TypeOK, NEW r \in Layouts
  PROVE  r \in RecordType
<1>1. /\ writing \in Nat /\ Span \in Nat /\ MaxSegmentID \in Nat
  BY SegmentsAssumption DEF TypeOK, Segment
<1>2. /\ r \in [first : writing .. writing + 1, last : writing .. writing + Span + 1,
                end : writing .. writing + Span + 2]
      /\ r.first <= r.last /\ r.end \in {r.last, r.last + 1} /\ r.end <= MaxSegmentID
  BY DEF Layouts
<1>3. r.first \in Nat /\ r.last \in Nat /\ r.end \in Nat
  BY <1>1, <1>2
<1>4. r.first \in Segment /\ r.last \in Segment /\ r.end \in Segment
  BY <1>1, <1>2, <1>3 DEF Segment
<1>5. r = [first |-> r.first, last |-> r.last, end |-> r.end]
  BY <1>2
<1> QED BY <1>4, <1>5 DEF RecordType

\* The first segment, and what stands for no record.
LEMMA NoRecordType == 0 \in Segment /\ NoRecord \in RecordType
  BY SegmentsAssumption DEF Segment, NoRecord, RecordType

-----------------------------------------------------------------------------
\* At first one file is mapped.
LEMMA SegmentsInit == Init => SegmentsInv
<1> SUFFICES ASSUME Init PROVE SegmentsInv
  OBVIOUS
<1> USE SegmentsAssumption
<1>1. 0 \in Indexes /\ 0 \in 0 .. QueueCapacitySegments
  BY DEF Indexes
<1>2. TypeOK
  <2>1. /\ pc \in [Callers -> {"idle", "lock", "ask", "wait", "map", "fetch", "use",
                                "put", "mark"}]
        /\ at \in [Callers -> Segment] /\ job \in [Callers -> RecordType]
        /\ locker \in [Indexes -> Callers \cup {Swapper, Nobody}]
    BY NoRecordType DEF Init
  <2>2. records \in Seq(RecordType) /\ marks \in Seq(Segment) /\ Len(marks) <= 1
    BY DEF Init
  <2>3. faults \in Nat /\ stuck \subseteq Indexes /\ overdraft \in Nat /\ overdraft = 0
    BY DEF Init
  <2> QED BY <1>1, <2>1, <2>2, <2>3, NoRecordType DEF Init, TypeOK
<1>3. Cardinality({0}) = 1
  BY FS_Singleton
<1> QED BY <1>2, <1>3
    DEF Init, SegmentsInv, RecordThere, OneServed, RoomPromised, Promised, One, mmapCount,
        Callers, Publisher, Consumer

\* What is counted of the failures.
FailuresOK == faults \in Nat /\ stuck \subseteq Indexes /\ overdraft \in Nat

\* Every step counts them.
LEMMA FailuresNext == TypeOK /\ [Next]_vars => FailuresOK'
<1> SUFFICES ASSUME TypeOK, [Next]_vars PROVE FailuresOK'
  OBVIOUS
<1>0. FailuresOK
  BY DEF TypeOK, FailuresOK
<1>1. ASSUME NEW c \in Callers, MapFails(c) PROVE FailuresOK'
  <2>1. at[c] \in Segment
    BY DEF TypeOK
  <2>2. at[c] \in Int
    BY <2>1, SegmentsAssumption DEF Segment
  <2>3. GetIndex(at[c]) \in Indexes
    BY <2>2, IndexType
  <2> QED BY <1>0, <1>1, <2>3 DEF FailuresOK, MapFails, Fault
<1>2. CASE UnmapMarkedFails \/ SwapFails
  BY <1>0, <1>2 DEF FailuresOK, UnmapMarkedFails, SwapFails, Fault
<1>3. CASE UNCHANGED failures
  BY <1>0, <1>3 DEF FailuresOK, failures
<1>4. CASE UNCHANGED vars
  BY <1>3, <1>4 DEF vars
<1> QED BY <1>1, <1>2, <1>3, <1>4 DEF Next, Fails

\* Every step keeps the types.
LEMMA TypeNext == SegmentsInv /\ [Next]_vars => TypeOK'
<1> SUFFICES ASSUME SegmentsInv, [Next]_vars PROVE TypeOK'
  OBVIOUS
<1> USE SegmentsAssumption
<1>0. TypeOK /\ RecordThere
  BY DEF SegmentsInv
<1>f. faults' \in Nat /\ stuck' \subseteq Indexes /\ overdraft' \in Nat
  BY <1>0, FailuresNext DEF FailuresOK
<1> USE <1>f
<1>a. Publisher \in Callers /\ Consumer \in Callers
  BY DEF Callers
<1>b. 0 \in Segment /\ NoRecord \in RecordType /\ Segment \subseteq Nat
  BY NoRecordType DEF Segment
<1>c. \A c \in Callers : GetIndex(at[c]) \in Indexes
  <2>1. at \in [Callers -> Segment]
    BY <1>0 DEF TypeOK
  <2> SUFFICES ASSUME NEW c \in Callers PROVE GetIndex(at[c]) \in Indexes
    OBVIOUS
  <2>2. at[c] \in Segment
    BY <2>1
  <2>3. at[c] \in Int
    BY <2>2 DEF Segment
  <2> QED BY <2>3, IndexType
<1>d. GetIndex(wid) \in Indexes
  BY <1>0, IndexType DEF TypeOK
<1> DEFINE Labels == {"idle", "lock", "ask", "wait", "map", "fetch", "use", "put", "mark"}
<1>e. ASSUME NEW c \in Callers, NEW l \in Labels, Goto(c, l) PROVE pc' \in [Callers -> Labels]
  BY <1>0, <1>e DEF TypeOK, Goto
<1>1. ASSUME NEW r \in Layouts, BeginEnqueue(r) PROVE TypeOK'
  <2>1. r \in RecordType /\ r.first \in Segment
    BY <1>0, LayoutType DEF RecordType
  <2>2. pc' \in [Callers -> Labels]
    BY <1>1, <1>a, <1>e DEF BeginEnqueue
  <2>3. job' \in [Callers -> RecordType] /\ at' \in [Callers -> Segment]
    BY <1>0, <1>1, <1>a, <2>1 DEF TypeOK, BeginEnqueue
  <2> QED BY <1>0, <1>1, <2>2, <2>3 DEF TypeOK, BeginEnqueue, queue, swapper, flusher
<1>2. CASE BeginDequeue
  <2>1. Head(records) \in RecordType
    BY <1>0, <1>2 DEF TypeOK, BeginDequeue
  <2>2. Head(records).first \in Segment
    BY <2>1 DEF RecordType
  <2>3. pc' \in [Callers -> Labels]
    BY <1>2, <1>a, <1>e DEF BeginDequeue
  <2>4. job' \in [Callers -> RecordType] /\ at' \in [Callers -> Segment]
    BY <1>0, <1>2, <1>a, <2>1, <2>2 DEF TypeOK, BeginDequeue
  <2> QED BY <1>0, <1>2, <2>3, <2>4 DEF TypeOK, BeginDequeue, queue, swapper, flusher
<1>3. ASSUME NEW c \in Callers, Lock(c) PROVE TypeOK'
  <2>1. pc' \in [Callers -> Labels]
    BY <1>3, <1>e DEF Lock
  <2>2. locker' \in [Indexes -> Callers \cup {Swapper, Nobody}]
    BY <1>0, <1>3, <1>c DEF TypeOK, Lock
  <2> QED BY <1>0, <1>3, <2>1, <2>2 DEF TypeOK, Lock, queue, swapper, flusher
<1>4. ASSUME NEW c \in Callers, MapSegment(c) PROVE TypeOK'
  <2>1. pc' \in [Callers -> Labels]
    BY <1>4, <1>e DEF MapSegment
  <2>2. mapped' \subseteq Indexes
    BY <1>0, <1>4, <1>c DEF TypeOK, MapSegment
  <2> QED BY <1>0, <1>4, <2>1, <2>2 DEF TypeOK, MapSegment, queue, swapper, flusher
<1>5. ASSUME NEW c \in Callers, FetchSegment(c) PROVE TypeOK'
  <2>1. pc' \in [Callers -> Labels]
    BY <1>5, <1>e DEF FetchSegment
  <2> QED BY <1>0, <1>5, <2>1 DEF TypeOK, FetchSegment, queue, swapper, flusher
<1>6. ASSUME NEW c \in Callers, UseSegment(c) PROVE TypeOK'
  <2>1. locker' \in [Indexes -> Callers \cup {Swapper, Nobody}]
    BY <1>0, <1>6, <1>c DEF TypeOK, UseSegment
  <2>2. pc' \in [Callers -> Labels]
    BY <1>6, <1>e DEF UseSegment
  <2>3. at' \in [Callers -> Segment]
    <3>1. CASE at[c] < job[c].last
      <4>1. at[c] \in Segment /\ job[c].last \in Segment
        BY <1>0 DEF TypeOK, RecordType
      <4>2. at[c] + 1 \in Segment
        BY <3>1, <4>1 DEF Segment
      <4>3. at' = [at EXCEPT ![c] = at[c] + 1]
        BY <1>6, <3>1 DEF UseSegment
      <4> QED BY <1>0, <4>2, <4>3 DEF TypeOK
    <3>2. CASE ~(at[c] < job[c].last)
      BY <1>0, <1>6, <3>2 DEF TypeOK, UseSegment
    <3> QED BY <3>1, <3>2
  <2> QED BY <1>0, <1>6, <2>1, <2>2, <2>3 DEF TypeOK, UseSegment, queue, swapper, flusher
<1>7. CASE EndEnqueue
  <2>1. pc' \in [Callers -> Labels]
    BY <1>7, <1>a, <1>e DEF EndEnqueue
  <2>2. job[Publisher] \in RecordType /\ job[Publisher].end \in Segment
    BY <1>0, <1>a DEF TypeOK, RecordType
  <2>3. records' \in Seq(RecordType)
    BY <1>0, <1>7, <2>2 DEF TypeOK, EndEnqueue
  <2>4. job' \in [Callers -> RecordType] /\ at' \in [Callers -> Segment]
    BY <1>0, <1>7, <1>b DEF TypeOK, EndEnqueue
  <2> QED BY <1>0, <1>7, <2>1, <2>2, <2>3, <2>4 DEF TypeOK, EndEnqueue, swapper, flusher
<1>8. CASE EndDequeue
  <2>1. pc' \in [Callers -> Labels]
    BY <1>8, <1>a, <1>e DEF EndDequeue
  <2>2. job[Consumer].end \in Segment
    BY <1>0, <1>a DEF TypeOK, RecordType
  <2>3. records # <<>>
    BY <1>0, <1>8 DEF EndDequeue, RecordThere
  <2>4. records' \in Seq(RecordType)
    BY <1>0, <1>8, <2>3 DEF TypeOK, EndDequeue
  <2>a. job' \in [Callers -> RecordType]
    BY <1>0, <1>8, <1>b DEF TypeOK, EndDequeue
  <2>b. reading \in Segment
    BY <1>0 DEF TypeOK
  <2>c. PICK s \in Segment : at' = [at EXCEPT ![Consumer] = s]
    BY <1>8, <1>b, <2>b DEF EndDequeue
  <2>5. job' \in [Callers -> RecordType] /\ at' \in [Callers -> Segment]
    BY <1>0, <2>a, <2>c DEF TypeOK
  <2> QED BY <1>0, <1>8, <2>1, <2>2, <2>4, <2>5 DEF TypeOK, EndDequeue, swapper, flusher
<1>9. CASE MarkRead
  <2>1. pc' \in [Callers -> Labels]
    BY <1>9, <1>a, <1>e DEF MarkRead
  <2>2. at[Consumer] \in Segment
    BY <1>0, <1>a DEF TypeOK
  <2>3. marks' \in Seq(Segment) /\ Len(marks') <= 1
    BY <1>0, <1>9, <2>2 DEF TypeOK, MarkRead
  <2>4. at' \in [Callers -> Segment]
    BY <1>0, <1>9, <1>b DEF TypeOK, MarkRead
  <2> QED BY <1>0, <1>9, <2>1, <2>3, <2>4 DEF TypeOK, MarkRead, queue, swapper, flusher
<1>10. CASE ReceiveMark
  <2>1. Head(marks) \in Segment /\ Tail(marks) \in Seq(Segment) /\ Len(Tail(marks)) <= 1
    BY <1>0, <1>10 DEF TypeOK, ReceiveMark
  <2> QED BY <1>0, <1>10, <1>b, <2>1 DEF TypeOK, ReceiveMark, queue, callers, flusher
<1>11. CASE LockMarked
  <2>1. locker' \in [Indexes -> Callers \cup {Swapper, Nobody}]
    BY <1>0, <1>11, <1>d DEF TypeOK, LockMarked
  <2> QED BY <1>0, <1>11, <2>1 DEF TypeOK, LockMarked, queue, callers, flusher
<1>12. CASE UnmapMarked
  <2>1. locker' \in [Indexes -> Callers \cup {Swapper, Nobody}]
    BY <1>0, <1>12, <1>d DEF TypeOK, UnmapMarked
  <2> QED BY <1>0, <1>12, <2>1 DEF TypeOK, UnmapMarked, queue, callers, flusher
<1>13. ASSUME NEW c \in Callers, ReceiveInsufficient(c) PROVE TypeOK'
  <2>1. pc' \in [Callers -> Labels]
    BY <1>13, <1>e DEF ReceiveInsufficient
  <2>2. /\ wpc' \in {"swap", "grant"} /\ wid' \in Nat \cup {-1}
        /\ seen' \in [r : Segment, w : Segment]
    BY <1>0, <1>13, <1>b DEF TypeOK, ReceiveInsufficient
  <2> QED BY <1>0, <1>13, <2>1, <2>2 DEF TypeOK, ReceiveInsufficient, queue, flusher
<1>14. CASE DoSwap
  <2>1. mapped' \subseteq Indexes
    BY <1>0, <1>14 DEF TypeOK, DoSwap
  <2>2. seen' \in [r : Segment, w : Segment] /\ wpc' \in {"swap", "grant"}
    BY <1>0, <1>14, <1>b DEF TypeOK, DoSwap
  <2>3. wid' \in Nat \cup {-1}
    <3>1. CASE LoopEnds
      <4>1. seen.w \in Nat
        BY <1>0, <1>b DEF TypeOK
      <4>2. seen.w + QueueCapacitySegments - 1 \in Nat
        BY <4>1
      <4> QED BY <1>14, <3>1, <4>2 DEF DoSwap
    <3>2. CASE ~LoopEnds
      <4>1. wid - 1 \in Nat \cup {-1}
        BY <1>0, <3>2 DEF TypeOK, LoopEnds
      <4> QED BY <1>14, <3>2, <4>1 DEF DoSwap
    <3> QED BY <3>1, <3>2
  <2> QED BY <1>0, <1>14, <2>1, <2>2, <2>3 DEF TypeOK, DoSwap, queue, callers, flusher
<1>15. ASSUME NEW c \in Callers, SendSufficient(c) PROVE TypeOK'
  <2>1. pc' \in [Callers -> Labels]
    BY <1>15, <1>e DEF SendSufficient
  <2> QED BY <1>0, <1>15, <2>1 DEF TypeOK, SendSufficient, queue, flusher
<1>16. CASE SwapperDone
  BY <1>0, <1>16 DEF TypeOK, SwapperDone, queue, callers, flusher
<1>17. CASE LastFlush \/ EndFlush \/ Close
  BY <1>0, <1>17 DEF TypeOK, LastFlush, EndFlush, Close, queue, callers, swapper, flusher
<1>18. CASE FlushIndex
  <2>1. fid' \in 0 .. QueueCapacitySegments
    BY <1>18 DEF FlushIndex, Indexes
  <2> QED BY <1>0, <1>18, <2>1 DEF TypeOK, FlushIndex, queue, callers, swapper
<1>19. CASE UNCHANGED vars
  BY <1>0, <1>19 DEF TypeOK, vars, queue, callers, swapper, flusher
<1>20. ASSUME NEW c \in Callers, MapFails(c) PROVE TypeOK'
  <2>1. pc' \in [Callers -> Labels]
    BY <1>20, <1>e DEF MapFails
  <2>2. job' \in [Callers -> RecordType] /\ at' \in [Callers -> Segment]
    BY <1>0, <1>20, <1>b DEF TypeOK, MapFails
  <2> QED BY <1>0, <1>20, <2>1, <2>2 DEF TypeOK, MapFails, queue, swapper, flusher
<1>21. CASE UnmapMarkedFails
  <2>1. locker' \in [Indexes -> Callers \cup {Swapper, Nobody}]
    BY <1>0, <1>21, <1>d DEF TypeOK, UnmapMarkedFails
  <2> QED BY <1>0, <1>21, <2>1 DEF TypeOK, UnmapMarkedFails, queue, callers, flusher
<1>22. CASE SwapFails
  BY <1>0, <1>22, <1>b DEF TypeOK, SwapFails, queue, callers, flusher
<1> QED
  BY <1>1, <1>2, <1>3, <1>4, <1>5, <1>6, <1>7, <1>8, <1>9, <1>10, <1>11, <1>12, <1>13,
     <1>14, <1>15, <1>16, <1>17, <1>18, <1>19, <1>20, <1>21, <1>22, <1>a
  DEF Next, Works, Fails, Enqueue, Dequeue, Swap, Flush, Call

-----------------------------------------------------------------------------
\* A caller moves on; the other one stays where it is.
LEMMA Moves ==
  ASSUME TypeOK, NEW c \in Callers, NEW l, Goto(c, l)
  PROVE  /\ pc'[c] = l /\ \A d \in Callers : d # c => pc'[d] = pc[d]
         /\ Callers = {Publisher, Consumer} /\ Publisher # Consumer
  BY DEF TypeOK, Goto, Callers, Publisher, Consumer

\* Only EndDequeue takes a record out, and then its consumer is done with it.
LEMMA RecordNext == SegmentsInv /\ [Next]_vars => RecordThere'
<1> SUFFICES ASSUME SegmentsInv, [Next]_vars PROVE RecordThere'
  OBVIOUS
<1>0. TypeOK /\ RecordThere
  BY DEF SegmentsInv
<1>a. Callers = {Publisher, Consumer} /\ Publisher # Consumer
  BY DEF Callers, Publisher, Consumer
<1>1. ASSUME NEW r, BeginEnqueue(r) PROVE RecordThere'
  BY <1>0, <1>1, <1>a, Moves DEF BeginEnqueue, RecordThere, queue
<1>2. CASE BeginDequeue
  BY <1>2 DEF BeginDequeue, RecordThere, queue
<1>3. ASSUME NEW c \in Callers, Lock(c) PROVE RecordThere'
  BY <1>0, <1>3, <1>a, Moves DEF Lock, RecordThere, queue
<1>4. ASSUME NEW c \in Callers, MapSegment(c) \/ FetchSegment(c) PROVE RecordThere'
  BY <1>0, <1>4, <1>a, Moves DEF MapSegment, FetchSegment, RecordThere, queue
<1>5. ASSUME NEW c \in Callers, UseSegment(c) PROVE RecordThere'
  BY <1>0, <1>5, <1>a, Moves DEF UseSegment, RecordThere, queue
<1>6. CASE EndEnqueue
  <2>1. job[Publisher] \in RecordType /\ records \in Seq(RecordType)
    BY <1>0, <1>a DEF TypeOK
  <2>2. Append(records, job[Publisher]) # <<>>
    BY <2>1
  <2> QED BY <1>6, <2>2 DEF EndEnqueue, RecordThere
<1>7. CASE EndDequeue
  BY <1>0, <1>7, <1>a, Moves DEF EndDequeue, RecordThere
<1>8. CASE MarkRead
  BY <1>0, <1>8, <1>a, Moves DEF MarkRead, RecordThere
<1>9. ASSUME NEW c \in Callers, ReceiveInsufficient(c) \/ SendSufficient(c) PROVE RecordThere'
  BY <1>0, <1>9, <1>a, Moves DEF ReceiveInsufficient, SendSufficient, RecordThere, queue
<1>10. CASE UNCHANGED <<pc, records>>
  BY <1>0, <1>10 DEF RecordThere
<1>11. CASE ReceiveMark \/ LockMarked \/ UnmapMarked \/ DoSwap \/ SwapperDone \/ Flush \/ Close
             \/ UnmapMarkedFails \/ SwapFails
  BY <1>10, <1>11 DEF ReceiveMark, LockMarked, UnmapMarked, DoSwap, SwapperDone, Flush,
     LastFlush, FlushIndex, EndFlush, Close, UnmapMarkedFails, SwapFails, queue, callers
<1>12. CASE UNCHANGED vars
  BY <1>10, <1>12 DEF vars, queue, callers
<1>13. ASSUME NEW c \in Callers, MapFails(c) PROVE RecordThere'
  BY <1>0, <1>13, <1>a, Moves DEF MapFails, RecordThere, queue
<1> QED BY <1>1, <1>2, <1>3, <1>4, <1>5, <1>6, <1>7, <1>8, <1>9, <1>11, <1>12, <1>13, <1>a
        DEF Next, Works, Fails, Enqueue, Dequeue, Swap, Call

\* What a step does to the callers, the swapper and the number of mapped files,
\* when doSwap does not fail.
CountStep ==
  \/ /\ UNCHANGED <<mapped, wpc>>
     /\ \E c \in Callers : \E l :
          /\ Goto(c, l) /\ pc[c] # "wait" /\ l \notin {"wait", "map"}
  \/ UNCHANGED <<mapped, wpc>> /\ \E c \in Callers :
       /\ pc[c] = "lock" /\ Goto(c, "map") /\ ~Insufficient
  \/ UNCHANGED wpc /\ \E c \in Callers : \E i :
       /\ pc[c] = "map" /\ Goto(c, "fetch") /\ mapped' = mapped \cup {i}
  \/ UNCHANGED mapped /\ \E c \in Callers :
       /\ pc[c] = "ask" /\ Goto(c, "wait") /\ wpc = "select"
       /\ wpc' = "swap" \/ (wpc' = "grant" /\ ~Insufficient)
  \/ /\ UNCHANGED pc /\ mapped' \subseteq mapped
     /\ wpc = "swap"
     /\ \/ wpc' = "swap"
        \/ wpc' = "grant" /\ Cardinality(mapped') < MaxInMemSegments
  \/ UNCHANGED mapped /\ wpc = "grant" /\ wpc' = "select" /\ \E c \in Callers :
       pc[c] = "wait" /\ Goto(c, "map")
  \/ /\ UNCHANGED pc /\ mapped' \subseteq mapped
     /\ wpc \notin {"swap", "grant"} /\ wpc' \notin {"swap", "grant"}
  \/ UNCHANGED <<pc, mapped, wpc>>

\* Every step is one of these, or doSwap fails.
LEMMA NextIsCountStep ==
  SegmentsInv /\ [Next]_vars => (CountStep /\ overdraft' = overdraft) \/ SwapFails
<1>z. SegmentsInv /\ [Next]_vars /\ ~SwapFails => overdraft' = overdraft
  BY DEF Next, Fails, MapFails, UnmapMarkedFails, failures, vars
<1> SUFFICES ASSUME SegmentsInv, [Next]_vars, ~SwapFails PROVE CountStep
  BY <1>z
<1>0. TypeOK
  BY DEF SegmentsInv
<1>a. Publisher \in Callers /\ Consumer \in Callers
  BY DEF Callers
<1>1. ASSUME NEW r, BeginEnqueue(r) PROVE CountStep
  <2>1. UNCHANGED <<mapped, wpc>> /\ Goto(Publisher, "lock") /\ pc[Publisher] = "idle"
    BY <1>1 DEF BeginEnqueue, swapper
  <2> QED BY <1>a, <2>1 DEF CountStep
<1>2. CASE BeginDequeue
  <2>1. UNCHANGED <<mapped, wpc>> /\ Goto(Consumer, "lock") /\ pc[Consumer] = "idle"
    BY <1>2 DEF BeginDequeue, swapper
  <2> QED BY <1>a, <2>1 DEF CountStep
<1>3. ASSUME NEW c \in Callers, Lock(c) PROVE CountStep
  <2>1. UNCHANGED <<mapped, wpc>> /\ pc[c] = "lock"
    BY <1>3 DEF Lock, swapper
  <2>2. (Insufficient /\ Goto(c, "ask")) \/ (~Insufficient /\ Goto(c, "map"))
    BY <1>3 DEF Lock
  <2> QED BY <2>1, <2>2 DEF CountStep
<1>4. ASSUME NEW c \in Callers, MapSegment(c) PROVE CountStep
  <2>1. /\ UNCHANGED wpc /\ pc[c] = "map" /\ Goto(c, "fetch")
        /\ mapped' = mapped \cup {GetIndex(at[c])}
    BY <1>4 DEF MapSegment, swapper
  <2> QED BY <2>1 DEF CountStep
<1>5. ASSUME NEW c \in Callers, FetchSegment(c) PROVE CountStep
  <2>1. UNCHANGED <<mapped, wpc>> /\ pc[c] = "fetch" /\ (Goto(c, "use") \/ Goto(c, "idle"))
    BY <1>5 DEF FetchSegment, swapper
  <2> QED BY <2>1 DEF CountStep
<1>6. ASSUME NEW c \in Callers, UseSegment(c) PROVE CountStep
  <2>1. UNCHANGED <<mapped, wpc>> /\ pc[c] = "use" /\ (Goto(c, "lock") \/ Goto(c, "put"))
    BY <1>6 DEF UseSegment, swapper
  <2> QED BY <2>1 DEF CountStep
<1>7. CASE EndEnqueue
  <2>1. UNCHANGED <<mapped, wpc>> /\ Goto(Publisher, "idle") /\ pc[Publisher] = "put"
    BY <1>7 DEF EndEnqueue, swapper
  <2> QED BY <1>a, <2>1 DEF CountStep
<1>8. CASE EndDequeue
  <2>1. /\ UNCHANGED <<mapped, wpc>> /\ pc[Consumer] = "put"
        /\ Goto(Consumer, "mark") \/ Goto(Consumer, "idle")
    BY <1>8 DEF EndDequeue, swapper
  <2> QED BY <1>a, <2>1 DEF CountStep
<1>9. CASE MarkRead
  <2>1. UNCHANGED <<mapped, wpc>> /\ Goto(Consumer, "idle") /\ pc[Consumer] = "mark"
    BY <1>9 DEF MarkRead, swapper
  <2> QED BY <1>a, <2>1 DEF CountStep
<1>10. CASE ReceiveMark \/ LockMarked \/ UnmapMarked \/ SwapperDone
  <2>1. /\ UNCHANGED pc /\ mapped' \subseteq mapped
        /\ wpc \notin {"swap", "grant"} /\ wpc' \notin {"swap", "grant"}
    BY <1>10 DEF ReceiveMark, LockMarked, UnmapMarked, SwapperDone, callers
  <2> QED BY <2>1 DEF CountStep
<1>11. ASSUME NEW c \in Callers, ReceiveInsufficient(c) PROVE CountStep
  <2>1. /\ UNCHANGED mapped /\ pc[c] = "ask" /\ Goto(c, "wait") /\ wpc = "select"
        /\ wpc' = "swap" \/ (wpc' = "grant" /\ ~Insufficient)
    BY <1>11 DEF ReceiveInsufficient
  <2> QED BY <2>1 DEF CountStep
<1>12. CASE DoSwap
  <2>1. UNCHANGED pc /\ wpc = "swap"
    BY <1>12 DEF DoSwap, callers
  <2>2. mapped' \subseteq mapped
    BY <1>12 DEF DoSwap
  <2>3. wpc' = "swap" \/ (wpc' = "grant" /\ Cardinality(mapped') < MaxInMemSegments)
    <3>1. CASE LoopEnds
      <4>1. UNCHANGED mapped /\ (wpc' = wpc \/ (wpc' = "grant" /\ ~Insufficient))
        BY <1>12, <3>1 DEF DoSwap
      <4>2. Cardinality(mapped) \in Nat /\ MaxInMemSegments \in Nat
        BY <1>0, CountType, SegmentsAssumption DEF TypeOK
      <4> QED BY <2>1, <4>1, <4>2 DEF Insufficient, mmapCount
    <3>2. CASE ~LoopEnds /\ Spared
      BY <1>12, <2>1, <3>2 DEF DoSwap
    <3>3. CASE ~LoopEnds /\ ~Spared
      <4> DEFINE n == Cardinality(mapped')
      <4>1. /\ mapped' = mapped \ {GetIndex(wid)}
            /\ \/ wpc' = wpc
               \/ /\ wpc' = "grant"
                  /\ MaxInMemSegments - n >= (MaxInMemSegments \div 2) - 1
        BY <1>12, <3>3 DEF DoSwap
      <4>2. n \in Nat
        BY <1>0, <4>1, CountLess DEF TypeOK
      <4>3. MaxInMemSegments \in Nat /\ MaxInMemSegments \div 2 >= 2
        BY SegmentsAssumption
      <4> HIDE DEF n
      <4>4. MaxInMemSegments - n >= (MaxInMemSegments \div 2) - 1 => n < MaxInMemSegments
        BY <4>2, <4>3
      <4> QED BY <2>1, <4>1, <4>4 DEF n
    <3> QED BY <3>1, <3>2, <3>3
  <2> QED BY <2>1, <2>2, <2>3 DEF CountStep
<1>13. ASSUME NEW c \in Callers, SendSufficient(c) PROVE CountStep
  <2>1. /\ UNCHANGED mapped /\ wpc = "grant" /\ wpc' = "select"
        /\ pc[c] = "wait" /\ Goto(c, "map")
    BY <1>13 DEF SendSufficient
  <2> QED BY <2>1 DEF CountStep
<1>14. CASE Flush \/ Close \/ UNCHANGED vars
  <2>1. UNCHANGED <<pc, mapped, wpc>>
    BY <1>14 DEF Flush, LastFlush, FlushIndex, EndFlush, Close, vars, callers, swapper
  <2> QED BY <2>1 DEF CountStep
<1>15. ASSUME NEW c \in Callers, MapFails(c) PROVE CountStep
  <2>1. UNCHANGED <<mapped, wpc>> /\ pc[c] = "map" /\ Goto(c, "idle")
    BY <1>15 DEF MapFails, swapper
  <2> QED BY <2>1 DEF CountStep
<1>16. CASE UnmapMarkedFails
  <2>1. /\ UNCHANGED pc /\ mapped' \subseteq mapped
        /\ wpc \notin {"swap", "grant"} /\ wpc' \notin {"swap", "grant"}
    BY <1>16 DEF UnmapMarkedFails, callers
  <2> QED BY <2>1 DEF CountStep
<1> QED
  BY <1>1, <1>2, <1>3, <1>4, <1>5, <1>6, <1>7, <1>8, <1>9, <1>10, <1>11, <1>12, <1>13,
     <1>14, <1>15, <1>16, <1>a
  DEF Next, Works, Fails, Enqueue, Dequeue, Swap, Call

\* A place is promised only while there is one, so at most one too many is,
\* and one for every doSwap that fails.
LEMMA CountNext == SegmentsInv /\ [Next]_vars => OneServed' /\ RoomPromised'
<1>s. ASSUME SegmentsInv, SwapFails PROVE OneServed' /\ RoomPromised'
  <2> DEFINE n == Cardinality(mapped)
             p == One(pc[Publisher] = "map") + One(pc[Consumer] = "map")
  <2>1. /\ TypeOK /\ OneServed /\ RoomPromised
        /\ UNCHANGED <<mapped, pc>> /\ wpc = "swap" /\ wpc' = "grant"
        /\ overdraft' = overdraft + 1
    BY <1>s DEF SegmentsInv, SwapFails, callers
  <2>2. n \in Nat /\ p \in Nat /\ MaxInMemSegments \in Nat /\ overdraft \in Nat
    BY <2>1, CountType, SegmentsAssumption DEF TypeOK, One
  <2>3. n + (p + 0) <= MaxInMemSegments + 1 + overdraft
    BY <2>1 DEF RoomPromised, Promised, mmapCount, One
  <2>4. RoomPromised' <=> n + (p + 1) <= MaxInMemSegments + 1 + (overdraft + 1)
    BY <2>1 DEF RoomPromised, Promised, mmapCount, One
  <2>5. OneServed'
    BY <2>1 DEF OneServed
  <2> HIDE DEF n, p
  <2> QED BY <2>2, <2>3, <2>4, <2>5
<1> SUFFICES ASSUME SegmentsInv, CountStep, overdraft' = overdraft
             PROVE  OneServed' /\ RoomPromised'
  BY <1>s, NextIsCountStep
<1> DEFINE n == Cardinality(mapped)
           k == Cardinality(mapped')
           M == MaxInMemSegments + overdraft
<1>1. TypeOK /\ OneServed /\ RoomPromised
  BY DEF SegmentsInv
<1>2. n \in Nat /\ M \in Nat /\ (~Insufficient => n < M)
  <2>1. MaxInMemSegments \in Nat /\ overdraft \in Nat /\ n \in Nat
    BY <1>1, CountType, SegmentsAssumption DEF TypeOK
  <2>2. Insufficient <=> n >= MaxInMemSegments
    BY DEF Insufficient, mmapCount
  <2> HIDE DEF n
  <2> QED BY <2>1, <2>2
<1>z. MaxInMemSegments \in Nat /\ overdraft \in Nat
  BY <1>1, SegmentsAssumption DEF TypeOK
<1>3. Callers = {Publisher, Consumer} /\ Publisher # Consumer
  BY DEF Callers, Publisher, Consumer
<1>4. n + One(pc[Publisher] = "map") + One(pc[Consumer] = "map") + One(wpc = "grant") <= M + 1
  BY <1>1, <1>2, <1>z DEF RoomPromised, Promised, mmapCount, One
<1>5. /\ RoomPromised' <=> k + Promised' <= M + 1
      /\ Promised' = One(pc'[Publisher] = "map") + One(pc'[Consumer] = "map")
                       + One(wpc' = "grant")
  BY <1>z DEF RoomPromised, Promised, mmapCount, One
<1>6. /\ UNCHANGED mapped => k = n
      /\ mapped' \subseteq mapped => k \in Nat /\ k <= n
  <2>1. IsFiniteSet(mapped)
    BY <1>1, CountType DEF TypeOK
  <2>2. mapped' \subseteq mapped => k <= n /\ mapped' \subseteq Indexes
    BY <1>1, <2>1, FS_Subset DEF TypeOK
  <2> QED BY <2>2, CountType
<1>7. /\ OneServed <=>
           /\ wpc \in {"swap", "grant"} <=> pc[Publisher] = "wait" \/ pc[Consumer] = "wait"
           /\ ~(pc[Publisher] = "wait" /\ pc[Consumer] = "wait")
      /\ OneServed' <=>
           /\ wpc' \in {"swap", "grant"} <=> pc'[Publisher] = "wait" \/ pc'[Consumer] = "wait"
           /\ ~(pc'[Publisher] = "wait" /\ pc'[Consumer] = "wait")
  BY <1>3 DEF OneServed
<1>8. ASSUME UNCHANGED <<mapped, wpc>>, NEW c \in Callers, NEW l, Goto(c, l),
             pc[c] # "wait", l \notin {"wait", "map"}
      PROVE  OneServed' /\ RoomPromised'
  <2>1. pc'[c] = l /\ \A d \in Callers : d # c => pc'[d] = pc[d]
    BY <1>1, <1>8, Moves
  <2> HIDE DEF n, k, M
  <2> QED BY <1>1, <1>2, <1>3, <1>4, <1>5, <1>6, <1>7, <1>8, <2>1 DEF One
<1>9. ASSUME UNCHANGED <<mapped, wpc>>, NEW c \in Callers, pc[c] = "lock", Goto(c, "map"),
             ~Insufficient
      PROVE  OneServed' /\ RoomPromised'
  <2>1. pc'[c] = "map" /\ \A d \in Callers : d # c => pc'[d] = pc[d]
    BY <1>1, <1>9, Moves
  <2> HIDE DEF n, k, M
  <2> QED BY <1>1, <1>2, <1>3, <1>5, <1>6, <1>7, <1>9, <2>1 DEF One
<1>10. ASSUME UNCHANGED wpc, NEW c \in Callers, NEW i, pc[c] = "map", Goto(c, "fetch"),
              mapped' = mapped \cup {i}
       PROVE  OneServed' /\ RoomPromised'
  <2>1. pc'[c] = "fetch" /\ \A d \in Callers : d # c => pc'[d] = pc[d]
    BY <1>1, <1>10, Moves
  <2>2. k \in Nat /\ k <= n + 1
    BY <1>1, <1>10, CountMore DEF TypeOK
  <2> HIDE DEF n, k, M
  <2> QED BY <1>1, <1>2, <1>3, <1>4, <1>5, <1>7, <1>10, <2>1, <2>2 DEF One
<1>11. ASSUME UNCHANGED mapped, NEW c \in Callers, pc[c] = "ask", Goto(c, "wait"),
              wpc = "select", wpc' = "swap" \/ (wpc' = "grant" /\ ~Insufficient)
       PROVE  OneServed' /\ RoomPromised'
  <2>1. pc'[c] = "wait" /\ \A d \in Callers : d # c => pc'[d] = pc[d]
    BY <1>1, <1>11, Moves
  <2> HIDE DEF n, k, M
  <2> QED BY <1>1, <1>2, <1>3, <1>4, <1>5, <1>6, <1>7, <1>11, <2>1 DEF One
<1>12. ASSUME UNCHANGED pc, mapped' \subseteq mapped, wpc = "swap",
              wpc' = "swap" \/ (wpc' = "grant" /\ k < MaxInMemSegments)
       PROVE  OneServed' /\ RoomPromised'
  <2>1. k < MaxInMemSegments => k < M
    BY <1>6, <1>12, <1>z
  <2> HIDE DEF n, k, M
  <2> QED BY <1>1, <1>2, <1>3, <1>4, <1>5, <1>6, <1>7, <1>12, <2>1 DEF One
<1>13. ASSUME UNCHANGED mapped, wpc = "grant", wpc' = "select", NEW c \in Callers,
              pc[c] = "wait", Goto(c, "map")
       PROVE  OneServed' /\ RoomPromised'
  <2>1. pc'[c] = "map" /\ \A d \in Callers : d # c => pc'[d] = pc[d]
    BY <1>1, <1>13, Moves
  <2> HIDE DEF n, k, M
  <2> QED BY <1>1, <1>2, <1>3, <1>4, <1>5, <1>6, <1>7, <1>13, <2>1 DEF One
<1>14. ASSUME UNCHANGED pc, mapped' \subseteq mapped, wpc \notin {"swap", "grant"},
              wpc' \notin {"swap", "grant"}
       PROVE  OneServed' /\ RoomPromised'
  <2> HIDE DEF n, k, M
  <2> QED BY <1>1, <1>2, <1>3, <1>4, <1>5, <1>6, <1>7, <1>14 DEF One
<1>15. CASE UNCHANGED <<pc, mapped, wpc>>
  <2> HIDE DEF n, k, M
  <2> QED BY <1>1, <1>2, <1>3, <1>4, <1>5, <1>6, <1>7, <1>15 DEF One
<1> QED BY <1>8, <1>9, <1>10, <1>11, <1>12, <1>13, <1>14, <1>15 DEF CountStep

-----------------------------------------------------------------------------
\* The strengthened invariant holds throughout.
LEMMA SegmentsInvariant == Spec => []SegmentsInv
<1>1. SegmentsInv /\ [Next]_vars => SegmentsInv'
  BY TypeNext, RecordNext, CountNext DEF SegmentsInv
<1> QED BY <1>1, SegmentsInit, PTL DEF Spec

(***************************************************************************)
(* Segment numbers, locks and the two goroutines' states stay in their     *)
(* ranges, doSwap's loop variable never falls below -1, and                *)
(* markReadChannel never holds more than its capacity, whatever the sizes. *)
(***************************************************************************)
THEOREM SegmentsTypeCorrect == Spec => []TypeOK
<1>1. SegmentsInv => TypeOK
  BY DEF SegmentsInv
<1> QED BY <1>1, SegmentsInvariant, PTL

(***************************************************************************)
(* With any limit of at least four, the number of mapped files exceeds it  *)
(* by one at most, although GetSegment looks at the count first and maps   *)
(* later, and doSwap counts while the callers go on mapping; by one more   *)
(* for every doSwap that failed to unmap a file, and for nothing else.     *)
(***************************************************************************)
THEOREM SegmentsStayInMemory == Spec => []MemoryBound
<1>1. SegmentsInv => MemoryBound
  <2> SUFFICES ASSUME SegmentsInv PROVE MemoryBound
    OBVIOUS
  <2>1. Promised \in Nat
    BY DEF Promised, One
  <2>2. mmapCount \in Nat /\ MaxInMemSegments \in Nat /\ overdraft \in Nat
    BY CountType, SegmentsAssumption DEF SegmentsInv, TypeOK, mmapCount
  <2>3. mmapCount + Promised <= MaxInMemSegments + 1 + overdraft
    BY DEF SegmentsInv, RoomPromised
  <2> HIDE DEF MemoryBound
  <2>4. mmapCount <= MaxInMemSegments + 1 + overdraft
    BY <2>1, <2>2, <2>3
  <2> QED BY <2>4 DEF MemoryBound
<1> QED BY <1>1, SegmentsInvariant, PTL
-----------------------------------------------------------------------------
(***************************************************************************)
(* The publisher and the swapper.                                          *)
(***************************************************************************)

\* The publisher holds the lock of the file it is at, and no other but those of
\* files that were not mapped; the consumer holds the lock of the file it is
\* at, and the swapper that of the file it unmaps because the consumer has left
\* it.
InSegment == {"ask", "wait", "map", "fetch", "use"}
Locked ==
  /\ \A i \in Indexes : locker[i] = Publisher =>
       i \in stuck \/ (pc[Publisher] \in InSegment /\ GetIndex(at[Publisher]) = i)
  /\ \A c \in Callers : pc[c] \in InSegment => locker[GetIndex(at[c])] = c
  /\ wpc = "unmap" => locker[GetIndex(wid)] = Swapper

\* What the publisher has mapped stays mapped until it is done with it.
InMemory == pc[Publisher] \in {"fetch", "use"} => GetIndex(at[Publisher]) \in mapped

\* The offsets and the ends of the unread records follow one another.
Ordered ==
  /\ reading <= writing
  /\ \A k \in 1 .. Len(records) : reading <= records[k].end /\ records[k].end <= writing
  /\ \A j, k \in 1 .. Len(records) : j < k => records[j].end <= records[k].end
  /\ pc[Consumer] \in InSegment \cup {"lock", "put"} => job[Consumer] = Head(records)

\* The record being written lies ahead of the writing offset, and less than a
\* ring ahead of the reading one: what IsFull reserves.
Enqueuing ==
  pc[Publisher] # "idle" =>
    /\ writing <= at[Publisher] /\ at[Publisher] <= job[Publisher].last
    /\ job[Publisher].last <= writing + Span + 1
    /\ job[Publisher].end \in {job[Publisher].last, job[Publisher].last + 1}
    /\ pc[Publisher] = "put" => at[Publisher] = job[Publisher].last
    /\ writing + Span + 1 < reading + QueueCapacitySegments

\* doSwap for a consumer: the only one during which the publisher may move.
Swapping == wpc = "swap" /\ pc[Consumer] = "wait"

\* The first of the files doSwap takes, seen from where the publisher was.
Limit == seen.w + QueueCapacitySegments - MaxInMemSegments

\* The snapshot of the offsets and the files it leads doSwap to.
Snapshot ==
  /\ wpc = "swap" => Limit - 1 <= wid /\ wid < seen.w + QueueCapacitySegments
  /\ Swapping => seen.w <= writing /\ seen.r = reading

\* With a small limit doSwap ends as soon as there is room.
FullWhileSwapping == LimitIsSmall /\ wpc = "swap" /\ ~ClearAll => Insufficient

\* How far the publisher has come, and where its way since the snapshot begins.
Front ==
  IF pc[Publisher] = "idle" \/ at[Publisher] <= writing THEN writing + 1 ELSE at[Publisher]
First == seen.w + Span + 2

\* The files it has left on its way are mapped, but for single ones that hold
\* neither a header nor a payload.
Trail ==
  Swapping =>
    /\ \A x \in First .. Limit - 2 :
         x + 1 < Front => GetIndex(x) \in mapped \/ GetIndex(x + 1) \in mapped
    /\ (pc[Publisher] = "put" /\ First <= at[Publisher]) => GetIndex(at[Publisher]) \in mapped

\* The publisher does not come to the files doSwap takes.
NotFar ==
  (Swapping /\ pc[Publisher] \in {"map", "fetch", "use", "put"}) => at[Publisher] < Limit

PublisherInv ==
  /\ SegmentsInv /\ Locked /\ InMemory /\ Ordered /\ Enqueuing /\ Snapshot
  /\ FullWhileSwapping /\ (RingIsRoomy => Trail) /\ NotFar

\* Two segments less than a ring apart are in different files.
LEMMA FilesApart ==
  ASSUME NEW a \in Nat, NEW b \in Nat, a < b, b < a + QueueCapacitySegments
  PROVE  GetIndex(a) # GetIndex(b)
<1> SUFFICES ASSUME GetIndex(a) = GetIndex(b) PROVE FALSE
  OBVIOUS
<1> DEFINE N == QueueCapacitySegments
           d == (b \div N) - (a \div N)
<1>1. N \in Nat /\ N > 0
  BY SegmentsAssumption
<1>2. /\ a = N * (a \div N) + (a % N) /\ b = N * (b \div N) + (b % N)
      /\ a \div N \in Int /\ b \div N \in Int
  BY <1>1
<1>3. d \in Int /\ b - a = N * d
  BY <1>1, <1>2 DEF GetIndex
<1>4. d < 1
  <2> SUFFICES ASSUME d >= 1 PROVE FALSE
    BY <1>3
  <2>1. N * d >= N
    BY <1>1, <1>3
  <2> QED BY <1>1, <1>3, <2>1
<1>5. d > 0
  <2> SUFFICES ASSUME d <= 0 PROVE FALSE
    BY <1>3
  <2>1. N * d <= 0
    BY <1>1, <1>3
  <2> QED BY <1>1, <1>3, <2>1
<1> QED BY <1>3, <1>4, <1>5

\* The types of what follows.
LEMMA Numbers ==
  ASSUME TypeOK
  PROVE  /\ writing \in Nat /\ reading \in Nat /\ wid \in Int
         /\ seen.w \in Nat /\ seen.r \in Nat
         /\ \A c \in Callers :
              /\ at[c] \in Nat /\ job[c] \in RecordType
              /\ job[c].first \in Nat /\ job[c].last \in Nat /\ job[c].end \in Nat
              /\ GetIndex(at[c]) \in Indexes
         /\ GetIndex(wid) \in Indexes
         /\ Callers = {Publisher, Consumer} /\ Publisher # Consumer
         /\ Swapper \notin Callers /\ Nobody \notin Callers /\ Nobody # Swapper
<1>1. Segment \subseteq Nat
  BY SegmentsAssumption DEF Segment
<1>a. seen \in [r : Segment, w : Segment]
  BY DEF TypeOK
<1>2. /\ writing \in Nat /\ reading \in Nat /\ wid \in Int
      /\ seen.w \in Nat /\ seen.r \in Nat
  <2>1. seen.w \in Segment /\ seen.r \in Segment
    BY <1>a
  <2>2. writing \in Segment /\ reading \in Segment /\ wid \in Nat \cup {-1}
    BY DEF TypeOK
  <2>3. wid \in Int
    BY <2>2
  <2> QED BY <1>1, <2>1, <2>2, <2>3
<1>3. ASSUME NEW c \in Callers
      PROVE  /\ at[c] \in Nat /\ job[c] \in RecordType
             /\ job[c].first \in Nat /\ job[c].last \in Nat /\ job[c].end \in Nat
  BY <1>1 DEF TypeOK, RecordType
<1>4. GetIndex(wid) \in Indexes /\ \A c \in Callers : GetIndex(at[c]) \in Indexes
  BY <1>2, <1>3, IndexType
<1> QED BY <1>2, <1>3, <1>4 DEF Callers, Publisher, Consumer, Swapper, Nobody

\* The constants.
LEMMA Sizes ==
  /\ QueueCapacitySegments \in Nat /\ MaxInMemSegments \in Nat /\ Span \in Nat
  /\ QueueCapacitySegments > 0 /\ MaxInMemSegments >= 4
  BY SegmentsAssumption

\* The locks are taken and released in turn.
LEMMA LockedNext == PublisherInv /\ [Next]_vars => Locked'
<1> SUFFICES ASSUME PublisherInv, [Next]_vars PROVE Locked'
  OBVIOUS
<1>0. TypeOK /\ Locked /\ InMemory
  BY DEF PublisherInv, SegmentsInv
<1> USE Numbers
<1>a. DOMAIN pc = Callers /\ DOMAIN at = Callers /\ DOMAIN locker = Indexes
  BY <1>0 DEF TypeOK
<1>s. stuck \subseteq stuck'
  BY DEF Next, Fails, MapFails, UnmapMarkedFails, SwapFails, failures, vars
<1> USE <1>s
<1>1. ASSUME NEW r \in Layouts, BeginEnqueue(r) PROVE Locked'
  BY <1>0, <1>1, <1>a, Moves DEF BeginEnqueue, Locked, InSegment, swapper
<1>2. CASE BeginDequeue
  BY <1>0, <1>2, <1>a, Moves DEF BeginDequeue, Locked, InSegment, swapper
<1>3. ASSUME NEW c \in Callers, Lock(c) PROVE Locked'
  <2>1. pc'[c] \in {"ask", "map"} /\ \A d \in Callers : d # c => pc'[d] = pc[d]
    BY <1>0, <1>3, Moves DEF Lock
  <2> QED BY <1>0, <1>3, <1>a, <2>1 DEF Lock, Locked, InSegment, swapper
<1>4. ASSUME NEW c \in Callers, MapSegment(c) PROVE Locked'
  BY <1>0, <1>4, <1>a, Moves DEF MapSegment, Locked, InSegment, swapper
<1>5. ASSUME NEW c \in Callers, FetchSegment(c) PROVE Locked'
  <2>1. /\ pc'[c] = (IF GetIndex(at[c]) \in mapped THEN "use" ELSE "idle")
        /\ \A d \in Callers : d # c => pc'[d] = pc[d]
    BY <1>0, <1>5, Moves DEF FetchSegment
  <2> QED BY <1>0, <1>5, <1>a, <2>1 DEF FetchSegment, Locked, InMemory, InSegment, swapper
<1>6. ASSUME NEW c \in Callers, UseSegment(c) PROVE Locked'
  <2>1. pc'[c] \in {"lock", "put"} /\ \A d \in Callers : d # c => pc'[d] = pc[d]
    BY <1>0, <1>6, Moves DEF UseSegment
  <2>2. \A d \in Callers : d # c => at'[d] = at[d]
    BY <1>6, <1>a DEF UseSegment
  <2>3. locker' = [locker EXCEPT ![GetIndex(at[c])] = Nobody] /\ UNCHANGED <<wpc, wid>>
        /\ pc[c] = "use"
    BY <1>6 DEF UseSegment, swapper
  <2> QED BY <1>0, <1>a, <2>1, <2>2, <2>3 DEF Locked, InSegment
<1>7. CASE EndEnqueue
  BY <1>0, <1>7, <1>a, Moves DEF EndEnqueue, Locked, InSegment, swapper
<1>8. CASE EndDequeue
  <2>1. pc'[Consumer] \in {"mark", "idle"} /\ pc'[Publisher] = pc[Publisher]
    BY <1>0, <1>8, Moves DEF EndDequeue
  <2>2. at'[Publisher] = at[Publisher]
    BY <1>0, <1>8, <1>a DEF EndDequeue
  <2> QED BY <1>0, <1>8, <2>1, <2>2 DEF EndDequeue, Locked, InSegment, swapper
<1>9. CASE MarkRead
  BY <1>0, <1>9, <1>a, Moves DEF MarkRead, Locked, InSegment, swapper
<1>10. CASE ReceiveMark \/ SwapperDone
  BY <1>0, <1>10 DEF ReceiveMark, SwapperDone, Locked, callers
<1>11. CASE LockMarked
  BY <1>0, <1>11, <1>a DEF LockMarked, Locked, InSegment, callers
<1>12. CASE UnmapMarked
  BY <1>0, <1>12, <1>a DEF UnmapMarked, Locked, InSegment, callers
<1>13. ASSUME NEW c \in Callers, ReceiveInsufficient(c) \/ SendSufficient(c) PROVE Locked'
  <2>1. /\ pc[c] \in InSegment /\ pc'[c] \in InSegment
        /\ \A d \in Callers : d # c => pc'[d] = pc[d]
        /\ wpc' # "unmap" /\ UNCHANGED <<locker, at>>
    BY <1>0, <1>13, Moves DEF ReceiveInsufficient, SendSufficient, InSegment
  <2> QED BY <1>0, <2>1 DEF Locked
<1>14. CASE DoSwap
  <2>1. wpc' # "unmap" /\ UNCHANGED <<locker, pc, at>>
    BY <1>14 DEF DoSwap, callers
  <2> QED BY <1>0, <2>1 DEF Locked
<1>15. CASE Flush \/ Close \/ UNCHANGED vars
  <2>1. UNCHANGED <<pc, at, locker, wpc, wid>>
    BY <1>15 DEF Flush, LastFlush, FlushIndex, EndFlush, Close, vars, callers, swapper
  <2> QED BY <1>0, <2>1 DEF Locked
<1>16. ASSUME NEW c \in Callers, MapFails(c) PROVE Locked'
  <2>1. pc'[c] = "idle" /\ \A d \in Callers : d # c => pc'[d] = pc[d] /\ at'[d] = at[d]
    BY <1>0, <1>16, <1>a, Moves DEF MapFails
  <2>2. GetIndex(at[c]) \in stuck' /\ UNCHANGED <<locker, wpc, wid>>
    BY <1>16 DEF MapFails, swapper
  <2> QED BY <1>0, <2>1, <2>2 DEF Locked, InSegment
<1>17. CASE UnmapMarkedFails
  BY <1>0, <1>17, <1>a DEF UnmapMarkedFails, Locked, InSegment, callers
<1>18. CASE SwapFails
  <2>1. wpc' # "unmap" /\ UNCHANGED <<locker, pc, at>>
    BY <1>18 DEF SwapFails, callers
  <2> QED BY <1>0, <2>1 DEF Locked
<1> QED BY <1>1, <1>2, <1>3, <1>4, <1>5, <1>6, <1>7, <1>8, <1>9, <1>10, <1>11, <1>12, <1>13,
           <1>14, <1>15, <1>16, <1>17, <1>18, <1>0
        DEF Next, Works, Fails, Enqueue, Dequeue, Swap, Call

\* A record is appended at the end of the chain and taken off its start.
LEMMA OrderedNext == PublisherInv /\ [Next]_vars => Ordered' /\ reading <= reading'
<1> SUFFICES ASSUME PublisherInv, [Next]_vars PROVE Ordered' /\ reading <= reading'
  OBVIOUS
<1>0. TypeOK /\ RecordThere /\ Ordered /\ Enqueuing
  BY DEF PublisherInv, SegmentsInv
<1>n. /\ Callers = {Publisher, Consumer} /\ Publisher # Consumer
      /\ writing \in Nat /\ reading \in Nat
      /\ job[Publisher] \in RecordType /\ job[Publisher].end \in Nat
      /\ job[Publisher].last \in Nat /\ at[Publisher] \in Nat
  BY <1>0, Numbers
<1>r. /\ records \in Seq(RecordType) /\ DOMAIN job = Callers
      /\ \A k \in 1 .. Len(records) : records[k] \in RecordType /\ records[k].end \in Nat
  <2>1. records \in Seq(RecordType) /\ DOMAIN job = Callers
    BY <1>0 DEF TypeOK
  <2>2. \A k \in 1 .. Len(records) : records[k] \in RecordType
    BY <2>1
  <2>3. \A t \in RecordType : t.end \in Nat
    BY SegmentsAssumption DEF RecordType, Segment
  <2> QED BY <2>1, <2>2, <2>3
<1> DEFINE Reads == InSegment \cup {"lock", "put"}
<1>1. ASSUME UNCHANGED <<writing, reading, records>>,
             pc'[Consumer] \in Reads => job'[Consumer] = Head(records)
      PROVE  Ordered' /\ reading <= reading'
  BY <1>0, <1>1, <1>n DEF Ordered
<1>2. ASSUME NEW r \in Layouts, BeginEnqueue(r) PROVE Ordered' /\ reading <= reading'
  <2>1. pc'[Consumer] = pc[Consumer] /\ job'[Consumer] = job[Consumer]
    BY <1>0, <1>2, <1>n, <1>r, Moves DEF BeginEnqueue
  <2> QED BY <1>0, <1>1, <1>2, <2>1 DEF BeginEnqueue, queue, Ordered
<1>3. CASE BeginDequeue
  <2>1. job'[Consumer] = Head(records)
    BY <1>3, <1>n, <1>r DEF BeginDequeue
  <2> QED BY <1>1, <1>3, <2>1 DEF BeginDequeue, queue
<1>4. ASSUME NEW c \in Callers, Call(c) \/ ReceiveInsufficient(c) \/ SendSufficient(c)
      PROVE  Ordered' /\ reading <= reading'
  <2>1. UNCHANGED <<writing, reading, records, job>>
    BY <1>4 DEF Call, Lock, MapSegment, FetchSegment, UseSegment, ReceiveInsufficient,
                SendSufficient, queue
  <2>2. pc'[Consumer] \in Reads => pc[Consumer] \in Reads
    BY <1>0, <1>4, <1>n, Moves
    DEF Call, Lock, MapSegment, FetchSegment, UseSegment, ReceiveInsufficient,
        SendSufficient, InSegment
  <2> QED BY <1>0, <1>1, <2>1, <2>2 DEF Ordered
<1>5. CASE EndEnqueue
  <2> DEFINE j == job[Publisher]
  <2>1. /\ records' = Append(records, j) /\ writing' = j.end /\ reading' = reading
        /\ pc[Publisher] = "put" /\ pc'[Consumer] = pc[Consumer]
        /\ job'[Consumer] = job[Consumer]
    BY <1>0, <1>5, <1>n, <1>r, Moves DEF EndEnqueue
  <2>2. writing <= j.end
    BY <1>0, <1>n, <2>1 DEF Enqueuing
  <2>3. /\ Len(records') = Len(records) + 1 /\ records'[Len(records) + 1] = j
        /\ \A k \in 1 .. Len(records) : records'[k] = records[k]
        /\ Len(records) \in Nat
    BY <1>r, <1>n, <2>1
  <2>4. \A k \in 1 .. Len(records') :
          k \in 1 .. Len(records) \/ k = Len(records) + 1
    BY <2>3
  <2>5. \A k \in 1 .. Len(records') : reading <= records'[k].end /\ records'[k].end <= writing'
    <3> SUFFICES ASSUME NEW k \in 1 .. Len(records')
                 PROVE  reading <= records'[k].end /\ records'[k].end <= writing'
      OBVIOUS
    <3>1. CASE k \in 1 .. Len(records)
      BY <1>0, <1>n, <1>r, <2>1, <2>2, <2>3, <3>1 DEF Ordered
    <3>2. CASE k = Len(records) + 1
      BY <1>0, <1>n, <2>1, <2>2, <2>3, <3>2 DEF Ordered
    <3> QED BY <2>4, <3>1, <3>2
  <2>6. \A i, k \in 1 .. Len(records') : i < k => records'[i].end <= records'[k].end
    <3> SUFFICES ASSUME NEW i \in 1 .. Len(records'), NEW k \in 1 .. Len(records'), i < k
                 PROVE  records'[i].end <= records'[k].end
      OBVIOUS
    <3>1. i \in 1 .. Len(records)
      BY <2>3
    <3>2. CASE k \in 1 .. Len(records)
      BY <1>0, <2>3, <3>1, <3>2 DEF Ordered
    <3>3. CASE k = Len(records) + 1
      BY <2>1, <2>3, <2>5, <3>1, <3>3
    <3> QED BY <2>4, <3>2, <3>3
  <2>7. pc'[Consumer] \in Reads => job'[Consumer] = Head(records')
    <3> SUFFICES ASSUME pc[Consumer] \in Reads PROVE job[Consumer] = Head(records')
      BY <2>1
    <3>1. records # <<>> /\ job[Consumer] = Head(records)
      BY <1>0 DEF RecordThere, Ordered, InSegment
    <3>2. Head(records') = Head(records)
      BY <1>r, <2>3, <2>1, <3>1
    <3> QED BY <3>1, <3>2
  <2>8. reading' <= writing'
    BY <1>0, <1>n, <2>1, <2>2 DEF Ordered
  <2> QED BY <2>1, <2>5, <2>6, <2>7, <2>8, <1>n DEF Ordered
<1>6. CASE EndDequeue
  <2>1. records # <<>> /\ job[Consumer] = Head(records)
    BY <1>0, <1>6 DEF EndDequeue, RecordThere, Ordered
  <2>2. /\ 1 \in 1 .. Len(records) /\ Head(records) = records[1]
        /\ Len(records) \in Nat /\ Len(Tail(records)) = Len(records) - 1
        /\ \A k \in 1 .. Len(Tail(records)) :
             k + 1 \in 1 .. Len(records) /\ Tail(records)[k] = records[k + 1]
    BY <1>r, <2>1
  <2>3. /\ reading' = records[1].end /\ writing' = writing /\ records' = Tail(records)
        /\ pc'[Consumer] \in {"mark", "idle"}
    BY <1>0, <1>6, <1>n, <2>1, <2>2, Moves DEF EndDequeue
  <2>4. reading <= reading' /\ reading' <= writing'
    BY <1>0, <2>2, <2>3 DEF Ordered
  <2>5. \A k \in 1 .. Len(records') : reading' <= records'[k].end /\ records'[k].end <= writing'
    <3> SUFFICES ASSUME NEW k \in 1 .. Len(records')
                 PROVE  reading' <= records'[k].end /\ records'[k].end <= writing'
      OBVIOUS
    <3>1. k + 1 \in 1 .. Len(records) /\ records'[k] = records[k + 1] /\ 1 < k + 1
      BY <2>2, <2>3
    <3> QED BY <1>0, <2>2, <2>3, <3>1 DEF Ordered
  <2>6. \A i, k \in 1 .. Len(records') : i < k => records'[i].end <= records'[k].end
    <3> SUFFICES ASSUME NEW i \in 1 .. Len(records'), NEW k \in 1 .. Len(records'), i < k
                 PROVE  records'[i].end <= records'[k].end
      OBVIOUS
    <3>1. /\ i + 1 \in 1 .. Len(records) /\ records'[i] = records[i + 1]
          /\ k + 1 \in 1 .. Len(records) /\ records'[k] = records[k + 1]
          /\ i + 1 < k + 1
      BY <2>2, <2>3
    <3> QED BY <1>0, <3>1 DEF Ordered
  <2> QED BY <2>3, <2>4, <2>5, <2>6 DEF Ordered, InSegment
<1>7. CASE MarkRead
  <2>1. pc'[Consumer] = "idle"
    BY <1>0, <1>7, <1>n, Moves DEF MarkRead
  <2> QED BY <1>1, <1>7, <2>1 DEF MarkRead, queue, InSegment
<1>8. CASE ReceiveMark \/ LockMarked \/ UnmapMarked \/ DoSwap \/ SwapperDone \/ Flush \/ Close
             \/ UnmapMarkedFails \/ SwapFails \/ UNCHANGED vars
  <2>1. UNCHANGED <<writing, reading, records, pc, job>>
    BY <1>8 DEF ReceiveMark, LockMarked, UnmapMarked, DoSwap, SwapperDone, Flush, LastFlush,
                FlushIndex, EndFlush, Close, UnmapMarkedFails, SwapFails, vars, queue, callers
  <2> QED BY <1>0, <1>1, <2>1 DEF Ordered
<1>9. ASSUME NEW c \in Callers, MapFails(c) PROVE Ordered' /\ reading <= reading'
  <2>1. /\ pc'[c] = "idle"
        /\ \A d \in Callers : d # c => pc'[d] = pc[d] /\ job'[d] = job[d]
    BY <1>0, <1>9, <1>r, Moves DEF MapFails
  <2>2. pc'[Consumer] \in Reads => job'[Consumer] = Head(records)
    BY <1>0, <1>n, <2>1 DEF Ordered, InSegment
  <2> QED BY <1>1, <1>9, <2>2 DEF MapFails, queue
<1> QED BY <1>2, <1>3, <1>4, <1>5, <1>6, <1>7, <1>8, <1>9, <1>n
        DEF Next, Works, Fails, Enqueue, Dequeue, Swap

\* The publisher goes through its record from its first segment to its last.
LEMMA EnqueuingNext == PublisherInv /\ [Next]_vars => Enqueuing' /\ writing <= writing'
<1> SUFFICES ASSUME PublisherInv, [Next]_vars PROVE Enqueuing' /\ writing <= writing'
  OBVIOUS
<1>0. TypeOK /\ Ordered /\ Enqueuing /\ reading <= reading'
  BY OrderedNext DEF PublisherInv, SegmentsInv
<1>n. /\ Callers = {Publisher, Consumer} /\ Publisher # Consumer
      /\ writing \in Nat /\ reading \in Nat
      /\ job[Publisher].end \in Nat
      /\ job[Publisher].last \in Nat /\ at[Publisher] \in Nat
  BY <1>0, Numbers
<1>d. DOMAIN pc = Callers /\ DOMAIN at = Callers /\ DOMAIN job = Callers
  BY <1>0 DEF TypeOK
<1>s. reading' \in Nat /\ Span \in Nat /\ QueueCapacitySegments \in Nat
  <2>1. TypeOK'
    BY TypeNext DEF PublisherInv
  <2>2. reading' \in Segment
    BY <2>1 DEF TypeOK
  <2> QED BY <2>2, SegmentsAssumption DEF Segment
<1>1. ASSUME writing' = writing, at'[Publisher] = at[Publisher],
             job'[Publisher] = job[Publisher], pc'[Publisher] # "idle" => pc[Publisher] # "idle",
             pc'[Publisher] = "put" => pc[Publisher] = "put"
      PROVE  Enqueuing' /\ writing <= writing'
  <2>1. ASSUME writing + Span + 1 < reading + QueueCapacitySegments
        PROVE  writing + Span + 1 < reading' + QueueCapacitySegments
    <3> DEFINE q == reading'
    <3>1. q \in Nat /\ reading <= q
      BY <1>0, <1>s
    <3> HIDE DEF q
    <3>2. writing + Span + 1 < q + QueueCapacitySegments
      BY <1>n, <1>s, <2>1, <3>1
    <3> QED BY <3>2 DEF q
  <2>2. writing <= writing'
    BY <1>1, <1>n
  <2> QED BY <1>0, <1>1, <2>1, <2>2 DEF Enqueuing
<1>2. ASSUME NEW r \in Layouts, BeginEnqueue(r) PROVE Enqueuing' /\ writing <= writing'
  <2>1. /\ writing' = writing /\ at'[Publisher] = r.first /\ job'[Publisher] = r
        /\ pc'[Publisher] = "lock" /\ reading' = reading
        /\ writing < reading + QueueCapacitySegments - 1 - Span
    BY <1>0, <1>2, <1>d, <1>n, Moves DEF BeginEnqueue, queue
  <2>2. /\ r.first \in writing .. writing + 1 /\ r.last \in writing .. writing + Span + 1
        /\ r.first <= r.last /\ r.end \in {r.last, r.last + 1}
    BY DEF Layouts
  <2> QED BY <1>n, <1>s, <2>1, <2>2 DEF Enqueuing
<1>3. ASSUME NEW c \in Callers, Lock(c) \/ MapSegment(c) \/ FetchSegment(c)
                                 \/ ReceiveInsufficient(c) \/ SendSufficient(c)
      PROVE  Enqueuing' /\ writing <= writing'
  <2>1. UNCHANGED <<writing, at, job>> /\ pc[c] # "idle"
    BY <1>3 DEF Lock, MapSegment, FetchSegment, ReceiveInsufficient, SendSufficient, queue
  <2>2. pc'[c] # "put" /\ \A d \in Callers : d # c => pc'[d] = pc[d]
    BY <1>0, <1>3, Moves DEF Lock, MapSegment, FetchSegment, ReceiveInsufficient, SendSufficient
  <2> QED BY <1>1, <1>n, <2>1, <2>2
<1>4. CASE UseSegment(Publisher)
  <2>1. UNCHANGED <<writing, reading, job>> /\ pc[Publisher] = "use"
    BY <1>4 DEF UseSegment, queue
  <2>2. CASE at[Publisher] < job[Publisher].last
    <3>1. at'[Publisher] = at[Publisher] + 1 /\ pc'[Publisher] = "lock"
      BY <1>0, <1>4, <1>d, <1>n, <2>2, Moves DEF UseSegment
    <3> QED BY <1>0, <1>n, <1>s, <2>1, <2>2, <3>1 DEF Enqueuing
  <2>3. CASE ~(at[Publisher] < job[Publisher].last)
    <3>1. at'[Publisher] = at[Publisher] /\ pc'[Publisher] = "put"
      BY <1>0, <1>4, <1>d, <1>n, <2>3, Moves DEF UseSegment
    <3> QED BY <1>0, <1>n, <1>s, <2>1, <2>3, <3>1 DEF Enqueuing
  <2> QED BY <2>2, <2>3
<1>5. CASE UseSegment(Consumer)
  <2>1. /\ writing' = writing /\ job' = job /\ at'[Publisher] = at[Publisher]
        /\ pc'[Publisher] = pc[Publisher]
    BY <1>0, <1>5, <1>d, <1>n, Moves DEF UseSegment, queue
  <2> QED BY <1>1, <2>1
<1>6. CASE EndEnqueue
  <2>1. pc'[Publisher] = "idle" /\ writing' = job[Publisher].end /\ pc[Publisher] = "put"
    BY <1>0, <1>6, <1>n, Moves DEF EndEnqueue
  <2> QED BY <1>0, <1>n, <2>1 DEF Enqueuing
<1>7. CASE BeginDequeue \/ EndDequeue \/ MarkRead
  <2>1. /\ writing' = writing /\ job'[Publisher] = job[Publisher]
        /\ at'[Publisher] = at[Publisher] /\ pc'[Publisher] = pc[Publisher]
    BY <1>0, <1>7, <1>d, <1>n, Moves DEF BeginDequeue, EndDequeue, MarkRead, queue
  <2> QED BY <1>1, <2>1
<1>8. CASE ReceiveMark \/ LockMarked \/ UnmapMarked \/ DoSwap \/ SwapperDone \/ Flush \/ Close
             \/ UnmapMarkedFails \/ SwapFails \/ UNCHANGED vars
  <2>1. UNCHANGED <<writing, reading, at, pc, job>>
    BY <1>8 DEF ReceiveMark, LockMarked, UnmapMarked, DoSwap, SwapperDone, Flush, LastFlush,
                FlushIndex, EndFlush, Close, UnmapMarkedFails, SwapFails, vars, queue, callers
  <2> QED BY <1>1, <2>1
<1>9. CASE MapFails(Publisher)
  <2>1. pc'[Publisher] = "idle" /\ writing' = writing
    BY <1>0, <1>9, <1>n, Moves DEF MapFails, queue
  <2> QED BY <1>n, <2>1 DEF Enqueuing
<1>10. CASE MapFails(Consumer)
  <2>1. /\ writing' = writing /\ job'[Publisher] = job[Publisher]
        /\ at'[Publisher] = at[Publisher] /\ pc'[Publisher] = pc[Publisher]
    BY <1>0, <1>10, <1>d, <1>n, Moves DEF MapFails, queue
  <2> QED BY <1>1, <2>1
<1> QED BY <1>2, <1>3, <1>4, <1>5, <1>6, <1>7, <1>8, <1>9, <1>10, <1>n
        DEF Next, Works, Fails, Enqueue, Dequeue, Swap, Call

\* What a step does while doSwap runs.
SwapStep ==
  \/ wpc' # "swap"
  \/ wpc' = "swap" /\ \E c \in Callers : ReceiveInsufficient(c)
  \/ wpc' = "swap" /\ DoSwap
  \/ /\ wpc = "swap" /\ UNCHANGED <<wpc, wid, seen>>
     /\ pc'[Consumer] = "wait" => pc[Consumer] = "wait" /\ reading' = reading
     /\ \/ Enqueue
        \/ /\ writing' = writing /\ pc'[Publisher] = pc[Publisher]
           /\ at'[Publisher] = at[Publisher] /\ mapped \subseteq mapped'
        \/ /\ pc[Publisher] = "map" /\ pc'[Publisher] = "idle" /\ writing' = writing
           /\ mapped' = mapped

\* Every step is one of these.
LEMMA NextIsSwapStep == PublisherInv /\ [Next]_vars => SwapStep
<1> SUFFICES ASSUME PublisherInv, [Next]_vars, wpc' = "swap" PROVE SwapStep
  BY DEF SwapStep
<1>0. TypeOK
  BY DEF PublisherInv, SegmentsInv
<1>n. Callers = {Publisher, Consumer} /\ Publisher # Consumer
  BY <1>0, Numbers
<1>d. DOMAIN pc = Callers /\ DOMAIN at = Callers
  BY <1>0 DEF TypeOK
<1>1. CASE Enqueue
  <2>1. UNCHANGED <<wpc, wid, seen, reading>>
    BY <1>1 DEF Enqueue, Call, BeginEnqueue, Lock, MapSegment, FetchSegment, UseSegment,
                EndEnqueue, swapper, queue
  <2>2. pc'[Consumer] = pc[Consumer]
    BY <1>0, <1>1, <1>n, Moves
    DEF Enqueue, Call, BeginEnqueue, Lock, MapSegment, FetchSegment, UseSegment, EndEnqueue
  <2> QED BY <1>1, <2>1, <2>2 DEF SwapStep
<1>2. CASE Dequeue
  <2>1. UNCHANGED <<wpc, wid, seen, writing>> /\ mapped \subseteq mapped'
    BY <1>2 DEF Dequeue, Call, BeginDequeue, Lock, MapSegment, FetchSegment, UseSegment,
                EndDequeue, MarkRead, swapper, queue
  <2>2. pc'[Publisher] = pc[Publisher] /\ pc'[Consumer] # "wait"
    BY <1>0, <1>2, <1>n, Moves
    DEF Dequeue, Call, BeginDequeue, Lock, MapSegment, FetchSegment, UseSegment, EndDequeue,
        MarkRead
  <2>3. at'[Publisher] = at[Publisher]
    BY <1>2, <1>d, <1>n
    DEF Dequeue, Call, BeginDequeue, Lock, MapSegment, FetchSegment, UseSegment, EndDequeue,
        MarkRead
  <2> QED BY <2>1, <2>2, <2>3 DEF SwapStep
<1>3. ASSUME NEW c \in Callers, ReceiveInsufficient(c) PROVE SwapStep
  BY <1>3 DEF SwapStep
<1>4. CASE DoSwap
  BY <1>4 DEF SwapStep
<1>5. ASSUME NEW c \in Callers, SendSufficient(c) PROVE SwapStep
  BY <1>5 DEF SendSufficient
<1>6. CASE ReceiveMark \/ LockMarked \/ UnmapMarked \/ SwapperDone
  BY <1>6 DEF ReceiveMark, LockMarked, UnmapMarked, SwapperDone
<1>7. CASE Flush \/ Close \/ UNCHANGED vars
  <2>1. UNCHANGED <<wpc, wid, seen, writing, reading, pc, at, mapped>>
    BY <1>7 DEF Flush, LastFlush, FlushIndex, EndFlush, Close, vars, queue, callers, swapper
  <2> QED BY <2>1 DEF SwapStep
<1>8. CASE MapFails(Publisher)
  <2>1. /\ UNCHANGED <<wpc, wid, seen, writing, reading, mapped>> /\ pc[Publisher] = "map"
        /\ pc'[Publisher] = "idle" /\ pc'[Consumer] = pc[Consumer]
    BY <1>0, <1>8, <1>n, Moves DEF MapFails, swapper, queue
  <2> QED BY <2>1 DEF SwapStep
<1>9. CASE MapFails(Consumer)
  <2>1. /\ UNCHANGED <<wpc, wid, seen, writing, reading, mapped>>
        /\ pc'[Consumer] = "idle" /\ pc'[Publisher] = pc[Publisher]
    BY <1>0, <1>9, <1>n, Moves DEF MapFails, swapper, queue
  <2>2. at'[Publisher] = at[Publisher]
    BY <1>9, <1>d, <1>n DEF MapFails
  <2> QED BY <2>1, <2>2 DEF SwapStep
<1>10. CASE UnmapMarkedFails \/ SwapFails
  BY <1>10 DEF UnmapMarkedFails, SwapFails
<1> QED BY <1>1, <1>2, <1>3, <1>4, <1>5, <1>6, <1>7, <1>8, <1>9, <1>10, <1>n
        DEF Next, Works, Fails, Swap

\* What a step of the publisher does to the files and to its place.
LEMMA PublisherSteps ==
  ASSUME PublisherInv, Enqueue
  PROVE  /\ mapped \subseteq mapped'
         /\ \/ pc[Publisher] = "idle" /\ pc'[Publisher] = "lock" /\ writing' = writing
                 /\ at'[Publisher] <= writing + 1 /\ mapped' = mapped
            \/ /\ pc[Publisher] # "idle" /\ writing' = writing
               /\ at'[Publisher] = at[Publisher]
               /\ \/ pc[Publisher] = "lock" /\ pc'[Publisher] = "ask"
                  \/ pc[Publisher] = "lock" /\ pc'[Publisher] = "map" /\ ~Insufficient
                  \/ pc[Publisher] = "map" /\ pc'[Publisher] = "fetch"
                  \/ pc[Publisher] = "fetch" /\ pc'[Publisher] = "use"
                  \/ pc[Publisher] = "use" /\ pc'[Publisher] = "put"
            \/ /\ pc[Publisher] = "use" /\ pc'[Publisher] = "lock" /\ writing' = writing
               /\ at'[Publisher] = at[Publisher] + 1 /\ mapped' = mapped
            \/ /\ pc[Publisher] = "put" /\ pc'[Publisher] = "idle" /\ mapped' = mapped
               /\ writing' = job[Publisher].end
<1>0. TypeOK /\ InMemory
  BY DEF PublisherInv, SegmentsInv
<1>n. Publisher \in Callers
  BY <1>0, Numbers
<1>d. DOMAIN pc = Callers /\ DOMAIN at = Callers
  BY <1>0 DEF TypeOK
<1>1. ASSUME NEW r \in Layouts, BeginEnqueue(r)
      PROVE  pc[Publisher] = "idle" /\ pc'[Publisher] = "lock" /\ writing' = writing
                 /\ at'[Publisher] <= writing + 1 /\ mapped' = mapped
  <2>1. r.first \in writing .. writing + 1 /\ at'[Publisher] = r.first
    BY <1>1, <1>d, <1>n DEF Layouts, BeginEnqueue
  <2>2. writing \in Nat
    BY <1>0, Numbers
  <2>3. at'[Publisher] <= writing + 1
    BY <2>1, <2>2
  <2> QED BY <1>0, <1>1, <1>n, <2>3, Moves DEF BeginEnqueue, queue
<1>2. CASE Lock(Publisher)
  <2>1. writing' = writing /\ at' = at /\ mapped' = mapped /\ pc[Publisher] = "lock"
    BY <1>2 DEF Lock, queue
  <2>2. pc'[Publisher] = IF Insufficient THEN "ask" ELSE "map"
    BY <1>0, <1>2, <1>n, Moves DEF Lock
  <2> QED BY <2>1, <2>2
<1>3. CASE MapSegment(Publisher)
  BY <1>0, <1>3, <1>n, Moves DEF MapSegment, queue
<1>4. CASE FetchSegment(Publisher)
  BY <1>0, <1>4, <1>n, Moves DEF FetchSegment, InMemory, queue
<1>5. CASE UseSegment(Publisher)
  BY <1>0, <1>5, <1>d, <1>n, Moves DEF UseSegment, queue
<1>6. CASE EndEnqueue
  BY <1>0, <1>6, <1>n, Moves DEF EndEnqueue
<1> QED BY <1>1, <1>2, <1>3, <1>4, <1>5, <1>6 DEF Enqueue, Call

\* What a turn of doSwap takes, when it is not its last one.
LEMMA SwapTurn ==
  ASSUME TypeOK, Snapshot, DoSwap
  PROVE  /\ UNCHANGED <<writing, reading, pc, at>> /\ wpc = "swap"
         /\ \/ mapped' = mapped
            \/ ~LoopEnds /\ mapped' = mapped \ {GetIndex(wid)} /\ Limit <= wid
         /\ wpc' = "swap" => /\ seen' = seen /\ Limit - 1 <= wid'
                             /\ wid' < seen.w + QueueCapacitySegments
<1>n. wid \in Int /\ seen.w \in Nat
  BY Numbers
<1>1. UNCHANGED <<writing, reading, pc, at>> /\ wpc = "swap"
  BY DEF DoSwap, queue, callers
<1>2. Limit - 1 <= wid /\ wid < seen.w + QueueCapacitySegments /\ Limit \in Int
  BY <1>1, <1>n, Sizes DEF Snapshot, Limit
<1>3. CASE LoopEnds
  <2>1. mapped' = mapped
    BY <1>3 DEF DoSwap
  <2>2. wpc' = "swap" => seen' = seen /\ wid' = seen.w + QueueCapacitySegments - 1
    BY <1>3 DEF DoSwap
  <2> QED BY <1>1, <1>n, <2>1, <2>2, Sizes DEF Limit
<1>4. CASE ~LoopEnds
  <2>1. Limit <= wid
    BY <1>4, <1>n, <1>2, Sizes DEF LoopEnds, Limit
  <2>2. mapped' = mapped \/ mapped' = mapped \ {GetIndex(wid)}
    BY <1>4 DEF DoSwap
  <2>3. wpc' = "swap" => seen' = seen /\ wid' = wid - 1
    BY <1>4 DEF DoSwap
  <2>4. Limit - 1 <= wid - 1 /\ wid - 1 < seen.w + QueueCapacitySegments
    BY <1>2, <1>n, <2>1, Sizes
  <2> QED BY <1>1, <1>4, <2>1, <2>2, <2>3, <2>4
<1> QED BY <1>3, <1>4

\* The snapshot is taken when doSwap begins; then the consumer waits.
LEMMA SnapshotNext == PublisherInv /\ [Next]_vars => Snapshot'
<1> SUFFICES ASSUME PublisherInv, SwapStep, writing <= writing', TypeOK' PROVE Snapshot'
  BY NextIsSwapStep, EnqueuingNext, TypeNext DEF PublisherInv
<1>0. TypeOK /\ Snapshot
  BY DEF PublisherInv, SegmentsInv
<1>n. /\ writing \in Nat /\ reading \in Nat /\ seen.w \in Nat /\ Callers = {Publisher, Consumer}
      /\ Publisher # Consumer
  BY <1>0, Numbers
<1>1. CASE wpc' # "swap"
  BY <1>1 DEF Snapshot, Swapping
<1>2. ASSUME wpc' = "swap", NEW c \in Callers, ReceiveInsufficient(c) PROVE Snapshot'
  <2>1. /\ seen'.r = reading /\ seen'.w = writing /\ wid' = writing + QueueCapacitySegments - 1
        /\ UNCHANGED <<reading, writing>>
    BY <1>2 DEF ReceiveInsufficient, queue
  <2>2. writing <= writing /\ writing + QueueCapacitySegments - 1 < writing + QueueCapacitySegments
        /\ writing + QueueCapacitySegments - MaxInMemSegments - 1
             <= writing + QueueCapacitySegments - 1
    BY <1>n, Sizes
  <2>3. Limit' = writing + QueueCapacitySegments - MaxInMemSegments
    BY <2>1 DEF Limit
  <2>4. Limit' - 1 <= wid' /\ wid' < seen'.w + QueueCapacitySegments
    BY <1>n, Sizes, <2>1, <2>2, <2>3
  <2>5. seen'.w <= writing' /\ seen'.r = reading'
    BY <2>1, <2>2
  <2> QED BY <2>4, <2>5 DEF Snapshot
<1>3. CASE wpc' = "swap" /\ DoSwap
  <2>1. /\ UNCHANGED <<writing, reading, pc>> /\ wpc = "swap" /\ seen' = seen
        /\ Limit - 1 <= wid' /\ wid' < seen.w + QueueCapacitySegments
    BY <1>0, <1>3, SwapTurn
  <2> QED BY <1>0, <2>1 DEF Snapshot, Swapping, Limit
<1>4. CASE /\ wpc = "swap" /\ UNCHANGED <<wpc, wid, seen>>
           /\ pc'[Consumer] = "wait" => pc[Consumer] = "wait" /\ reading' = reading
  <2>1. seen.w <= writing => seen.w <= writing'
    <3> DEFINE w == writing'
    <3>1. w \in Segment /\ writing <= w
      BY DEF TypeOK
    <3>2. w \in Nat
      BY <3>1, SegmentsAssumption DEF Segment
    <3> HIDE DEF w
    <3>3. seen.w <= writing => seen.w <= w
      BY <1>n, <3>1, <3>2
    <3> QED BY <3>3 DEF w
  <2> QED BY <1>0, <1>4, <2>1 DEF Snapshot, Swapping, Limit
<1> QED BY <1>1, <1>2, <1>3, <1>4 DEF SwapStep

\* doSwap goes on only while there is no room, unless it clears all it finds.
LEMMA FullNext == PublisherInv /\ [Next]_vars => FullWhileSwapping'
<1> SUFFICES ASSUME PublisherInv, [Next]_vars, LimitIsSmall, wpc' = "swap", ~ClearAll'
             PROVE  Insufficient'
  BY DEF FullWhileSwapping
<1>0. TypeOK /\ Snapshot /\ FullWhileSwapping
  BY DEF PublisherInv, SegmentsInv
<1>1. SwapStep /\ TypeOK'
  BY NextIsSwapStep, TypeNext DEF PublisherInv
<1>2. Cardinality(mapped) \in Nat /\ Cardinality(mapped') \in Nat /\ IsFiniteSet(mapped')
      /\ mapped \subseteq Indexes
  BY <1>0, <1>1, CountType DEF TypeOK
<1>3. ASSUME NEW c \in Callers, ReceiveInsufficient(c) PROVE Insufficient'
  <2>1. Insufficient /\ mapped' = mapped
    BY <1>3 DEF ReceiveInsufficient
  <2> QED BY <2>1 DEF Insufficient, mmapCount
<1>4. CASE DoSwap
  <2>1. seen' = seen /\ wpc = "swap"
    BY <1>0, <1>4, SwapTurn
  <2>2. ~ClearAll
    BY <2>1 DEF ClearAll
  <2>3. Insufficient
    BY <1>0, <2>1, <2>2 DEF FullWhileSwapping
  <2>4. CASE LoopEnds \/ Spared
    <3>1. mapped' = mapped
      BY <1>4, <2>4 DEF DoSwap
    <3> QED BY <2>3, <3>1 DEF Insufficient, mmapCount
  <2>5. CASE ~LoopEnds /\ ~Spared
    <3> DEFINE left == mapped \ {GetIndex(wid)}
               n == Cardinality(left)
               h == MaxInMemSegments \div 2
    <3>1. mapped' = left /\ ~(MaxInMemSegments - n >= h - 1)
      BY <1>4, <2>2, <2>5 DEF DoSwap
    <3>2. n \in Nat /\ h = 2
      BY <1>2, CountLess DEF LimitIsSmall
    <3> HIDE DEF n, h
    <3>3. n >= MaxInMemSegments
      BY <3>1, <3>2, Sizes
    <3> QED BY <3>1, <3>3 DEF n, Insufficient, mmapCount
  <2> QED BY <2>4, <2>5
<1>5. ASSUME wpc = "swap", seen' = seen, mapped \subseteq mapped' PROVE Insufficient'
  <2>1. ~ClearAll
    BY <1>5 DEF ClearAll
  <2>2. Insufficient
    BY <1>0, <1>5, <2>1 DEF FullWhileSwapping
  <2>3. Cardinality(mapped) <= Cardinality(mapped')
    BY <1>2, <1>5, FS_Subset
  <2>4. Cardinality(mapped') >= MaxInMemSegments
    <3> DEFINE n == Cardinality(mapped')
    <3>1. n \in Nat /\ Cardinality(mapped) <= n
      BY <1>2, <2>3
    <3> HIDE DEF n
    <3>2. n >= MaxInMemSegments
      BY <1>2, <2>2, <3>1, Sizes DEF Insufficient, mmapCount
    <3> QED BY <3>2 DEF n
  <2> QED BY <2>4 DEF Insufficient, mmapCount
<1>6. ASSUME Enqueue PROVE mapped \subseteq mapped'
  BY <1>6, PublisherSteps
<1> QED BY <1>1, <1>3, <1>4, <1>5, <1>6 DEF SwapStep

\* Nobody else unmaps the file the publisher has mapped.
LEMMA InMemoryNext == PublisherInv /\ [Next]_vars => InMemory'
<1> SUFFICES ASSUME PublisherInv, [Next]_vars, pc'[Publisher] \in {"fetch", "use"}
             PROVE  GetIndex(at'[Publisher]) \in mapped'
  BY DEF InMemory, GetIndex
<1>0. /\ TypeOK /\ OneServed /\ Locked /\ InMemory /\ Enqueuing /\ Snapshot /\ NotFar
  BY DEF PublisherInv, SegmentsInv
<1>n. /\ Callers = {Publisher, Consumer} /\ Publisher # Consumer
      /\ Swapper \notin Callers /\ writing \in Nat /\ at[Publisher] \in Nat
      /\ GetIndex(at[Publisher]) \in Indexes /\ wid \in Int /\ seen.w \in Nat
  BY <1>0, Numbers
<1>d. DOMAIN pc = Callers /\ DOMAIN at = Callers
  BY <1>0 DEF TypeOK
<1>1. ASSUME pc'[Publisher] = pc[Publisher], at'[Publisher] = at[Publisher],
             mapped \subseteq mapped'
      PROVE  GetIndex(at'[Publisher]) \in mapped'
  BY <1>0, <1>1 DEF InMemory
<1>2. CASE Enqueue
  <2>1. ASSUME NEW r \in Layouts, BeginEnqueue(r) PROVE FALSE
    BY <1>0, <1>n, <2>1, Moves DEF BeginEnqueue
  <2>2. CASE Lock(Publisher)
    BY <1>0, <1>n, <2>2, Moves DEF Lock
  <2>3. CASE MapSegment(Publisher)
    BY <2>3 DEF MapSegment
  <2>4. CASE FetchSegment(Publisher)
    BY <1>0, <2>4 DEF FetchSegment, InMemory
  <2>5. CASE UseSegment(Publisher)
    BY <1>0, <1>n, <2>5, Moves DEF UseSegment
  <2>6. CASE EndEnqueue
    BY <1>0, <1>n, <2>6, Moves DEF EndEnqueue
  <2> QED BY <1>2, <2>1, <2>2, <2>3, <2>4, <2>5, <2>6 DEF Enqueue, Call
<1>3. CASE Dequeue
  <2>1. pc'[Publisher] = pc[Publisher]
    BY <1>0, <1>3, <1>n, Moves
    DEF Dequeue, Call, BeginDequeue, Lock, MapSegment, FetchSegment, UseSegment, EndDequeue,
        MarkRead
  <2>2. at'[Publisher] = at[Publisher] /\ mapped \subseteq mapped'
    BY <1>3, <1>d, <1>n
    DEF Dequeue, Call, BeginDequeue, Lock, MapSegment, FetchSegment, UseSegment, EndDequeue,
        MarkRead
  <2> QED BY <1>1, <2>1, <2>2
<1>4. ASSUME NEW c \in Callers, ReceiveInsufficient(c) \/ SendSufficient(c)
      PROVE  GetIndex(at'[Publisher]) \in mapped'
  <2>1. UNCHANGED <<at, mapped>> /\ pc'[Publisher] \in {pc[Publisher], "wait", "map"}
    BY <1>0, <1>4, <1>n, Moves DEF ReceiveInsufficient, SendSufficient
  <2> QED BY <1>1, <2>1
<1>5. CASE UnmapMarked
  <2>1. /\ pc' = pc /\ at' = at /\ mapped' = mapped \ {GetIndex(wid)} /\ wpc = "unmap"
    BY <1>5 DEF UnmapMarked, callers
  <2>2. locker[GetIndex(at[Publisher])] = Publisher /\ locker[GetIndex(wid)] = Swapper
    BY <1>0, <1>n, <2>1 DEF Locked, InSegment
  <2>3. GetIndex(at[Publisher]) # GetIndex(wid)
    BY <1>n, <2>2
  <2> QED BY <1>0, <2>1, <2>3 DEF InMemory
<1>6. CASE DoSwap
  <2>1. /\ pc' = pc /\ at' = at /\ wpc = "swap"
        /\ mapped' = mapped \/ (mapped' = mapped \ {GetIndex(wid)} /\ Limit <= wid)
    BY <1>0, <1>6, SwapTurn
  <2>2. pc[Publisher] \in {"fetch", "use"} /\ Swapping
    BY <1>0, <1>n, <2>1 DEF OneServed, Swapping
  <2>3. at[Publisher] < Limit /\ wid < at[Publisher] + QueueCapacitySegments
    BY <1>0, <1>n, <2>1, <2>2, Sizes DEF NotFar, Snapshot, Enqueuing
  <2>4. CASE Limit <= wid
    <3>1. wid \in Nat /\ at[Publisher] < wid
      BY <1>n, <2>3, <2>4, Sizes DEF Limit
    <3>2. GetIndex(at[Publisher]) # GetIndex(wid)
      BY <1>n, <2>3, <3>1, FilesApart
    <3> QED BY <1>0, <2>1, <2>2, <3>2 DEF InMemory
  <2> QED BY <1>1, <2>1, <2>4
<1>7. CASE ReceiveMark \/ LockMarked \/ SwapperDone \/ Flush \/ Close \/ UnmapMarkedFails
             \/ SwapFails \/ UNCHANGED vars
  <2>1. UNCHANGED <<pc, at, mapped>>
    BY <1>7 DEF ReceiveMark, LockMarked, SwapperDone, Flush, LastFlush, FlushIndex, EndFlush,
                Close, UnmapMarkedFails, SwapFails, vars, callers
  <2> QED BY <1>1, <2>1
<1>8. CASE MapFails(Publisher)
  BY <1>0, <1>8, <1>n, Moves DEF MapFails
<1>9. CASE MapFails(Consumer)
  <2>1. pc'[Publisher] = pc[Publisher] /\ at'[Publisher] = at[Publisher] /\ mapped' = mapped
    BY <1>0, <1>9, <1>d, <1>n, Moves DEF MapFails
  <2> QED BY <1>1, <2>1
<1> QED BY <1>2, <1>3, <1>4, <1>5, <1>6, <1>7, <1>8, <1>9, <1>n DEF Next, Works, Fails, Swap

\* A file of each of n pairs of neighbours, within one turn of the ring.
LEMMA Pairs ==
  ASSUME NEW S, S \subseteq Indexes, NEW b \in Nat, NEW n \in Nat,
         2 * n <= QueueCapacitySegments,
         \A k \in 0 .. n - 1 : GetIndex(b + 2 * k) \in S \/ GetIndex(b + 2 * k + 1) \in S
  PROVE  n <= Cardinality(S)
<1> DEFINE K == 0 .. n - 1
           p(k) == IF GetIndex(b + 2 * k) \in S THEN b + 2 * k ELSE b + 2 * k + 1
           f == [k \in K |-> GetIndex(p(k))]
<1>1. f \in [K -> S]
  OBVIOUS
<1>2. ASSUME NEW j \in K, NEW k \in K, j < k PROVE f[j] # f[k]
  <2>1. p(j) \in {b + 2 * j, b + 2 * j + 1} /\ p(k) \in {b + 2 * k, b + 2 * k + 1}
    OBVIOUS
  <2>2. f[j] = GetIndex(p(j)) /\ f[k] = GetIndex(p(k))
    OBVIOUS
  <2> HIDE DEF p, f
  <2>3. /\ p(j) \in Nat /\ p(k) \in Nat /\ p(j) < p(k)
        /\ p(k) < p(j) + QueueCapacitySegments
    BY <1>2, <2>1, Sizes
  <2> QED BY <2>2, <2>3, FilesApart
<1> HIDE DEF f
<1>3. \A j, k \in K : f[j] = f[k] => j = k
  <2> SUFFICES ASSUME NEW j \in K, NEW k \in K, f[j] = f[k], j # k PROVE FALSE
    OBVIOUS
  <2>1. j < k \/ k < j
    OBVIOUS
  <2> QED BY <1>2, <2>1
<1>4. f \in Injection(K, S)
  BY <1>1, <1>3 DEF Injection, IsInjective
<1>5. IsFiniteSet(S) /\ Cardinality(S) \in Nat
  BY CountType
<1>6. Cardinality(K) <= Cardinality(S)
  BY <1>4, <1>5, FS_Injection
<1>7. Cardinality(K) = n
  <2>1. 0 \in Int /\ n - 1 \in Int
    OBVIOUS
  <2>2. Cardinality(K) = IF 0 > n - 1 THEN 0 ELSE n - 1 - 0 + 1
    BY <2>1, FS_Interval
  <2> QED BY <2>2
<1> QED BY <1>6, <1>7

\* There is room for the publisher only before the files doSwap takes.
LEMMA RoomIsNear ==
  ASSUME PublisherInv, Swapping, pc[Publisher] = "lock", ~Insufficient,
         RingIsRoomy \/ LimitIsSmall
  PROVE  at[Publisher] < Limit
<1>0. TypeOK /\ Enqueuing /\ Snapshot /\ FullWhileSwapping /\ (RingIsRoomy => Trail)
  BY DEF PublisherInv, SegmentsInv
<1>n. /\ writing \in Nat /\ reading \in Nat /\ seen.w \in Nat /\ seen.r \in Nat
      /\ Publisher \in Callers /\ at[Publisher] \in Nat /\ job[Publisher].last \in Nat
  BY <1>0, Numbers
<1>1. CASE ClearAll
  <2>1. at[Publisher] < seen.r + QueueCapacitySegments
    BY <1>0, <1>n, Sizes DEF Enqueuing, Snapshot
  <2>2. seen.w - seen.r + 1 > (MaxInMemSegments * 3) \div 2
    BY <1>1 DEF ClearAll
  <2>3. (MaxInMemSegments * 3) \div 2 >= MaxInMemSegments /\ (MaxInMemSegments * 3) \div 2 \in Int
    BY Sizes
  <2>4. seen.w - seen.r >= MaxInMemSegments
    BY <1>n, <2>2, <2>3, Sizes
  <2> QED BY <1>n, <2>1, <2>4, Sizes DEF Limit
<1>2. CASE ~ClearAll
  <2>1. ~LimitIsSmall
    BY <1>0, <1>2 DEF FullWhileSwapping, Swapping
  <2> SUFFICES ASSUME ~(at[Publisher] < Limit) PROVE Insufficient
    OBVIOUS
  <2>2. Trail /\ RingIsRoomy
    BY <1>0, <2>1
  <2>3. First \in Nat /\ Limit \in Int /\ 2 * MaxInMemSegments <= QueueCapacitySegments
        /\ First + 2 * MaxInMemSegments <= Limit
    BY <1>n, <2>2, Sizes DEF First, Limit, RingIsRoomy
  <2>4. Front \in Nat /\ at[Publisher] <= Front
    BY <1>n DEF Front
  <2>5. ASSUME NEW k \in 0 .. MaxInMemSegments - 1
        PROVE  GetIndex(First + 2 * k) \in mapped \/ GetIndex(First + 2 * k + 1) \in mapped
    <3>1. First + 2 * k \in First .. Limit - 2 /\ First + 2 * k + 1 < Front
      BY <1>n, <2>3, <2>4, Sizes
    <3> QED BY <2>2, <3>1 DEF Trail
  <2>6. mapped \subseteq Indexes /\ MaxInMemSegments \in Nat
    BY <1>0, Sizes DEF TypeOK
  <2> HIDE DEF First
  <2>7. MaxInMemSegments <= Cardinality(mapped)
    BY <2>3, <2>5, <2>6, Pairs
  <2> QED BY <2>7 DEF Insufficient, mmapCount
<1> QED BY <1>1, <1>2

\* The publisher is before the files doSwap takes when it begins, and stays so.
LEMMA NotFarNext ==
  ASSUME RingIsRoomy \/ LimitIsSmall
  PROVE  PublisherInv /\ [Next]_vars => NotFar'
<1> DEFINE Far == {"map", "fetch", "use", "put"}
<1> SUFFICES ASSUME PublisherInv, [Next]_vars, wpc' = "swap", pc'[Consumer] = "wait",
                    pc'[Publisher] \in Far
             PROVE  at'[Publisher] < Limit'
  BY DEF NotFar, Swapping
<1>0. TypeOK /\ Enqueuing /\ Snapshot /\ NotFar
  BY DEF PublisherInv, SegmentsInv
<1>1. SwapStep
  BY NextIsSwapStep
<1>n. /\ Callers = {Publisher, Consumer} /\ Publisher # Consumer
      /\ writing \in Nat /\ at[Publisher] \in Nat /\ seen.w \in Nat /\ job[Publisher].last \in Nat
  BY <1>0, Numbers
<1>2. ASSUME NEW c \in Callers, ReceiveInsufficient(c) PROVE at'[Publisher] < Limit'
  <2>1. seen'.w = writing /\ at' = at /\ pc'[Publisher] = pc[Publisher]
    BY <1>0, <1>2, <1>n, Moves DEF ReceiveInsufficient
  <2>2. at[Publisher] <= writing + Span + 1
    BY <1>0, <1>n, <2>1, Sizes DEF Enqueuing
  <2>3. Span + 1 < QueueCapacitySegments - MaxInMemSegments
    BY Sizes DEF RingIsRoomy, LimitIsSmall
  <2>4. Limit' = writing + QueueCapacitySegments - MaxInMemSegments
    BY <2>1 DEF Limit
  <2>5. at[Publisher] < writing + QueueCapacitySegments - MaxInMemSegments
    BY <1>n, <2>2, <2>3, Sizes
  <2> QED BY <2>1, <2>4, <2>5
<1>3. CASE DoSwap
  <2>1. UNCHANGED <<pc, at, seen>> /\ wpc = "swap"
    BY <1>0, <1>3, SwapTurn
  <2> QED BY <1>0, <2>1 DEF NotFar, Swapping, Limit
<1>4. ASSUME wpc = "swap", seen' = seen, pc[Consumer] = "wait",
             pc'[Publisher] = pc[Publisher], at'[Publisher] = at[Publisher]
      PROVE  at'[Publisher] < Limit'
  BY <1>0, <1>4 DEF NotFar, Swapping, Limit
<1>5. ASSUME wpc = "swap", seen' = seen, pc[Consumer] = "wait", Enqueue
      PROVE  at'[Publisher] < Limit'
  <2>1. \/ pc[Publisher] = "lock" /\ ~Insufficient /\ at'[Publisher] = at[Publisher]
        \/ pc[Publisher] \in {"map", "fetch", "use"} /\ at'[Publisher] = at[Publisher]
    BY <1>5, PublisherSteps
  <2>2. Swapping
    BY <1>5 DEF Swapping
  <2>3. at[Publisher] < Limit
    BY <1>0, <2>1, <2>2, RoomIsNear DEF NotFar
  <2> QED BY <1>5, <2>1, <2>3 DEF Limit
<1> QED BY <1>1, <1>2, <1>3, <1>4, <1>5 DEF SwapStep

\* The publisher leaves mapped files behind it, and doSwap, which takes only
\* files further on, does not unmap them.
LEMMA TrailNext ==
  ASSUME RingIsRoomy
  PROVE  PublisherInv /\ [Next]_vars => Trail'
<1> SUFFICES ASSUME PublisherInv, [Next]_vars, wpc' = "swap", pc'[Consumer] = "wait"
             PROVE  Trail'
  BY DEF Trail, Swapping
<1>0. TypeOK /\ InMemory /\ Enqueuing /\ Snapshot /\ NotFar /\ Trail
  BY DEF PublisherInv, SegmentsInv
<1>1. SwapStep
  BY NextIsSwapStep
<1>n. /\ Callers = {Publisher, Consumer} /\ Publisher # Consumer
      /\ writing \in Nat /\ at[Publisher] \in Nat /\ seen.w \in Nat /\ wid \in Int
      /\ job[Publisher].last \in Nat /\ job[Publisher].end \in Nat
      /\ First \in Nat /\ Limit \in Int /\ Front \in Nat
  BY <1>0, Numbers, Sizes DEF First, Limit, Front
<1>2. ASSUME NEW c \in Callers, ReceiveInsufficient(c) PROVE Trail'
  <2>1. /\ seen'.w = writing /\ at' = at /\ writing' = writing
        /\ pc'[Publisher] = "idle" <=> pc[Publisher] = "idle"
        /\ pc'[Publisher] = "put" => pc[Publisher] = "put"
    BY <1>0, <1>2, <1>n, Moves DEF ReceiveInsufficient, queue
  <2>2. First' = writing + Span + 2 /\ Front' = Front
    BY <2>1 DEF First, Front
  <2>3. Front < writing + Span + 2 /\ (pc[Publisher] = "put" => at[Publisher] < writing + Span + 2)
    BY <1>0, <1>n, Sizes DEF Enqueuing, Front
  <2>4. \A x \in (writing + Span + 2) .. (Limit - 2)' : ~(x + 1 < Front)
    BY <1>n, <2>3, Sizes
  <2>5. pc'[Publisher] = "put" => ~(First' <= at'[Publisher])
    BY <1>n, <2>1, <2>2, <2>3, Sizes
  <2> QED BY <2>2, <2>4, <2>5 DEF Trail
<1>3. CASE DoSwap
  <2>1. /\ UNCHANGED <<writing, pc, at, seen>> /\ Swapping
        /\ mapped' = mapped \/ (mapped' = mapped \ {GetIndex(wid)} /\ Limit <= wid)
    BY <1>0, <1>3, SwapTurn DEF Swapping
  <2>2. First' = First /\ Limit' = Limit /\ Front' = Front
    BY <2>1 DEF First, Limit, Front
  <2>3. ASSUME NEW x \in Nat, First <= x, x < Limit, GetIndex(x) \in mapped
        PROVE  GetIndex(x) \in mapped'
    <3>1. CASE Limit <= wid
      <4>1. wid \in Nat /\ x < wid /\ wid < x + QueueCapacitySegments
        BY <1>0, <1>n, <2>1, <2>3, <3>1, Sizes DEF Snapshot, Swapping, First
      <4>2. GetIndex(x) # GetIndex(wid)
        BY <4>1, FilesApart
      <4> QED BY <2>1, <2>3, <4>2
    <3> QED BY <2>1, <2>3, <3>1
  <2>4. ASSUME NEW x \in First .. Limit - 2, x + 1 < Front
        PROVE  GetIndex(x) \in mapped' \/ GetIndex(x + 1) \in mapped'
    <3>1. GetIndex(x) \in mapped \/ GetIndex(x + 1) \in mapped
      BY <1>0, <2>1, <2>4 DEF Trail
    <3>2. /\ x \in Nat /\ First <= x /\ x < Limit
          /\ x + 1 \in Nat /\ First <= x + 1 /\ x + 1 < Limit
      BY <1>n
    <3> QED BY <2>3, <3>1, <3>2
  <2>5. ASSUME pc[Publisher] = "put", First <= at[Publisher]
        PROVE  GetIndex(at[Publisher]) \in mapped'
    BY <1>0, <1>n, <2>1, <2>3, <2>5 DEF Trail, NotFar
  <2> QED BY <2>1, <2>2, <2>4, <2>5 DEF Trail
<1>4. ASSUME wpc = "swap", seen' = seen, pc[Consumer] = "wait", mapped \subseteq mapped',
             \A x \in First .. Limit - 2 :
               (x + 1 < Front' /\ ~(x + 1 < Front)) =>
                  GetIndex(x) \in mapped' \/ GetIndex(x + 1) \in mapped',
             (pc'[Publisher] = "put" /\ First <= at'[Publisher]) =>
                  GetIndex(at'[Publisher]) \in mapped'
      PROVE  Trail'
  <2>1. First' = First /\ Limit' = Limit /\ Swapping
    BY <1>4 DEF First, Limit, Swapping
  <2>2. \A x \in First .. Limit - 2 :
          x + 1 < Front => GetIndex(x) \in mapped \/ GetIndex(x + 1) \in mapped
    BY <1>0, <2>1 DEF Trail
  <2>3. \A x \in First .. Limit - 2 :
          x + 1 < Front' => GetIndex(x) \in mapped' \/ GetIndex(x + 1) \in mapped'
    BY <1>4, <2>2
  <2> QED BY <1>4, <2>1, <2>3 DEF Trail
<1>5. ASSUME wpc = "swap", seen' = seen, pc[Consumer] = "wait", writing' = writing,
             pc'[Publisher] = pc[Publisher], at'[Publisher] = at[Publisher],
             mapped \subseteq mapped'
      PROVE  Trail'
  <2>1. Front' = Front
    BY <1>5 DEF Front
  <2>2. (pc[Publisher] = "put" /\ First <= at[Publisher]) => GetIndex(at[Publisher]) \in mapped
    BY <1>0, <1>5 DEF Trail, Swapping
  <2> QED BY <1>4, <1>5, <2>1, <2>2
<1>6. ASSUME wpc = "swap", seen' = seen, pc[Consumer] = "wait", Enqueue
      PROVE  Trail'
  <2>0. mapped \subseteq mapped'
    BY <1>6, PublisherSteps
  <2>1. CASE /\ pc[Publisher] = "idle" /\ pc'[Publisher] = "lock" /\ writing' = writing
             /\ at'[Publisher] <= writing + 1
    <3>2. at'[Publisher] \in Nat
      <4>1. TypeOK'
        BY TypeNext DEF PublisherInv
      <4>2. at'[Publisher] \in Segment
        BY <1>n, <4>1 DEF TypeOK
      <4> QED BY <4>2, SegmentsAssumption DEF Segment
    <3> DEFINE a == at'[Publisher]
    <3>3. /\ Front' = (IF a <= writing THEN writing + 1 ELSE a) /\ Front = writing + 1
          /\ a \in Nat /\ a <= writing + 1
      BY <2>1, <3>2 DEF Front
    <3> HIDE DEF a
    <3>4. Front' = Front
      BY <1>n, <3>3
    <3> QED BY <1>4, <1>6, <2>0, <2>1, <3>4
  <2>2. CASE /\ pc[Publisher] # "idle" /\ pc'[Publisher] # "idle"
             /\ writing' = writing /\ at'[Publisher] = at[Publisher]
             /\ pc'[Publisher] = "put" => pc[Publisher] = "use"
    <3>1. Front' = Front
      BY <2>2 DEF Front
    <3>2. pc'[Publisher] = "put" => GetIndex(at'[Publisher]) \in mapped'
      BY <1>0, <2>0, <2>2 DEF InMemory
    <3> QED BY <1>4, <1>6, <2>0, <3>1, <3>2
  <2>3. CASE /\ pc[Publisher] = "use" /\ pc'[Publisher] = "lock" /\ writing' = writing
             /\ at'[Publisher] = at[Publisher] + 1
    <3>0. writing <= at[Publisher] /\ GetIndex(at[Publisher]) \in mapped'
      BY <1>0, <2>0, <2>3 DEF Enqueuing, InMemory
    <3>1. Front' = at[Publisher] + 1 /\ at[Publisher] <= Front /\ GetIndex(at[Publisher]) \in mapped'
      BY <1>n, <2>3, <3>0 DEF Front
    <3>2. \A x \in First .. Limit - 2 :
            (x + 1 < Front' /\ ~(x + 1 < Front)) => x + 1 = at[Publisher]
      BY <1>n, <3>1
    <3> QED BY <1>4, <1>6, <2>0, <2>3, <3>1, <3>2
  <2>4. CASE /\ pc[Publisher] = "put" /\ pc'[Publisher] = "idle" /\ mapped' = mapped
             /\ writing' = job[Publisher].end
    <3>1. /\ Front' = job[Publisher].end + 1 /\ at[Publisher] <= Front
          /\ at[Publisher] = job[Publisher].last
          /\ job[Publisher].end <= job[Publisher].last + 1
      BY <1>0, <1>n, <2>4 DEF Front, Enqueuing
    <3>2. \A x \in First .. Limit - 2 :
            (x + 1 < Front' /\ ~(x + 1 < Front)) =>
               (x + 1 = at[Publisher] \/ x = at[Publisher]) /\ First <= at[Publisher]
      BY <1>n, <3>1
    <3>3. First <= at[Publisher] => GetIndex(at[Publisher]) \in mapped'
      BY <1>0, <1>6, <2>4 DEF Trail, Swapping
    <3> QED BY <1>4, <1>6, <2>0, <2>4, <3>2, <3>3
  <2> QED BY <1>6, <2>1, <2>2, <2>3, <2>4, PublisherSteps
<1>7. ASSUME wpc = "swap", seen' = seen, pc[Consumer] = "wait", pc'[Publisher] = "idle",
             writing' = writing, mapped' = mapped
      PROVE  Trail'
  <2>1. Front' = writing + 1 /\ writing + 1 <= Front
    BY <1>7, <1>n DEF Front
  <2>2. \A x \in First .. Limit - 2 : x + 1 < Front' => x + 1 < Front
    BY <1>n, <2>1
  <2> QED BY <1>4, <1>7, <2>2
<1> QED BY <1>1, <1>2, <1>3, <1>5, <1>6, <1>7 DEF SwapStep

\* At first nobody holds a lock and nothing is swapped.
LEMMA PublisherInit == Init => PublisherInv
<1> SUFFICES ASSUME Init PROVE PublisherInv
  OBVIOUS
<1>1. SegmentsInv
  BY SegmentsInit
<1>2. pc[Publisher] = "idle" /\ pc[Consumer] = "idle" /\ Publisher # Nobody
  BY DEF Init, Callers, Publisher, Consumer, Nobody
<1>3. Locked
  BY <1>2 DEF Init, Locked, InSegment
<1>4. Ordered
  BY <1>2 DEF Init, Ordered, InSegment
<1>5. InMemory /\ Enqueuing /\ Snapshot /\ FullWhileSwapping /\ Trail /\ NotFar
  BY <1>2 DEF Init, InMemory, Enqueuing, Snapshot, FullWhileSwapping, Trail, NotFar, Swapping
<1> QED BY <1>1, <1>3, <1>4, <1>5 DEF PublisherInv

(***************************************************************************)
(* doSwap unmaps files without their locks, by a snapshot of the offsets   *)
(* that grows old while the publisher goes on; yet in a ring that is roomy *)
(* or has a small limit, as the default configuration has, no file is      *)
(* unmapped while the publisher writes to it, and every Enqueue releases   *)
(* the locks it has taken.                                                 *)
(***************************************************************************)
THEOREM PublisherIsUndisturbed ==
  ASSUME RingIsRoomy \/ LimitIsSmall
  PROVE  Spec => []PublisherUndisturbed
<1>1. Init => PublisherInv
  BY PublisherInit
<1>2. PublisherInv /\ [Next]_vars => PublisherInv'
  <2> SUFFICES ASSUME PublisherInv, [Next]_vars PROVE PublisherInv'
    OBVIOUS
  <2>1. SegmentsInv'
    BY TypeNext, RecordNext, CountNext DEF PublisherInv, SegmentsInv
  <2>2. Locked' /\ InMemory' /\ Ordered' /\ Enqueuing' /\ Snapshot' /\ FullWhileSwapping'
    BY LockedNext, InMemoryNext, OrderedNext, EnqueuingNext, SnapshotNext, FullNext
  <2>3. (RingIsRoomy => Trail') /\ NotFar'
    BY TrailNext, NotFarNext
  <2> QED BY <2>1, <2>2, <2>3 DEF PublisherInv, RingIsRoomy
<1>3. PublisherInv => PublisherUndisturbed
  BY DEF PublisherInv, PublisherUndisturbed, Held, Locked, InMemory, InSegment
<1> QED BY <1>1, <1>2, <1>3, PTL DEF Spec
=============================================================================
