---------------------------- MODULE Ingest_proof ----------------------------
(***************************************************************************)
(* The partitioned queue, for every number of partitions, every size of a  *)
(* sub-queue and any number of concurrent callers of Enqueue; and what a   *)
(* gatherer that uses it behind the receivers may rely on.                 *)
(***************************************************************************)
EXTENDS Ingest, SequenceTheorems, FiniteSetTheorems, TLAPS

\* How far a caller has looked is a partition at every step: between the
\* increment of the index and the first check it must not be left over from an
\* earlier search.
SearchBounded == \A g \in Enqueuers : addition[g] \in Partitions

QueueInv == QueueTypeOK /\ SearchBounded

-----------------------------------------------------------------------------
\* There is an item to stand for none.
LEMMA NoItemType == NoItem \in Items
  BY PartitionAssumption DEF NoItem

\* The search wraps around once at most, so it stays among the sub-queues.
LEMMA AtPartition ==
  ASSUME NEW g \in Enqueuers, part[g] \in Partitions, addition[g] \in Partitions
  PROVE At(g) \in Partitions
  BY PartitionAssumption DEF At, Partitions

\* All sub-queues are empty at first.
LEMMA QueueInvInit == QueueInit => QueueInv
  BY PartitionAssumption, NoItemType
  DEF QueueInit, QueueInv, QueueTypeOK, SearchBounded, Partitions

\* Every step of a caller or of a consumer keeps the invariant.
LEMMA QueueInvNext == QueueInv /\ [QueueNext]_queueVars => QueueInv'
  <1> SUFFICES ASSUME QueueInv, [QueueNext]_queueVars PROVE QueueInv'
    OBVIOUS
  <1> USE PartitionAssumption DEF QueueInv, QueueTypeOK, SearchBounded
  <1>0. 0 \in Partitions /\ Partitions \subseteq Nat
    BY DEF Partitions
  <1>1. ASSUME NEW g \in Enqueuers, NEW e \in Items, CallEnqueue(g, e) PROVE QueueInv'
    BY <1>1 DEF CallEnqueue, Partitions
  <1>2. ASSUME NEW g \in Enqueuers, Increment(g) PROVE QueueInv'
    BY <1>2 DEF Increment, Partitions
  <1>3. ASSUME NEW g \in Enqueuers, Swap(g) PROVE QueueInv'
    <2>1. CASE loadBalancerIndex = part[g]
      <3>1. /\ loadBalancerIndex' = 0
            /\ part' = [part EXCEPT ![g] = 0]
            /\ qpc' = [qpc EXCEPT ![g] = "check"]
            /\ UNCHANGED <<queueName, subQueues, item, addition>>
        BY <1>3, <2>1 DEF Swap
      <3> QED
        BY <1>0, <3>1
    <2>2. CASE loadBalancerIndex # part[g]
      <3>1. /\ qpc' = [qpc EXCEPT ![g] = "add"]
            /\ UNCHANGED <<queueName, subQueues, item, addition, loadBalancerIndex, part>>
        BY <1>3, <2>2 DEF Swap
      <3> QED
        BY <3>1
    <2> QED
      BY <2>1, <2>2
  <1>4. ASSUME NEW g \in Enqueuers, CheckFull(g) PROVE QueueInv'
    <2>1. CASE ~IsFull(At(g))
      <3>1. At(g) \in Partitions
        BY <1>4, AtPartition DEF CheckFull
      <3>2. /\ part' = [part EXCEPT ![g] = At(g)]
            /\ addition' = [addition EXCEPT ![g] = 0]
            /\ qpc' = [qpc EXCEPT ![g] = "put"]
            /\ UNCHANGED <<queueName, subQueues, loadBalancerIndex, item>>
        BY <1>4, <2>1 DEF CheckFull
      <3> QED
        BY <1>0, <3>1, <3>2
    <2>2. CASE IsFull(At(g)) /\ addition[g] + 1 < Partition
      <3>1. addition[g] + 1 \in Partitions
        BY <2>2 DEF Partitions
      <3>2. /\ addition' = [addition EXCEPT ![g] = @ + 1]
            /\ UNCHANGED <<queueName, subQueues, loadBalancerIndex, item, qpc, part>>
        BY <1>4, <2>2 DEF CheckFull
      <3> QED
        BY <1>0, <3>1, <3>2
    <2>3. CASE IsFull(At(g)) /\ ~(addition[g] + 1 < Partition)
      <3>1. /\ qpc' = [qpc EXCEPT ![g] = "failed"]
            /\ UNCHANGED <<queueName, subQueues, loadBalancerIndex, item, addition, part>>
        BY <1>4, <2>3 DEF CheckFull
      <3> QED
        BY <3>1
    <2> QED
      BY <2>1, <2>2, <2>3
  <1>5. ASSUME NEW g \in Enqueuers, Put(g) PROVE QueueInv'
    <2>1. CASE Refuses(part[g])
      BY <1>5, <2>1 DEF Put
    <2>2. CASE ~Refuses(part[g])
      <3>1. part[g] \in Partitions /\ Len(subQueues[part[g]]) < EventBufferSize
        BY <1>5, <2>2 DEF Put, Refuses, IsFull
      <3>2. /\ qpc' = [qpc EXCEPT ![g] = "accepted"]
            /\ subQueues' = [subQueues EXCEPT ![part[g]] = Append(@, item[g])]
            /\ UNCHANGED <<queueName, loadBalancerIndex, item, part, addition>>
        BY <1>5, <2>2 DEF Put
      <3>3. subQueues' \in [Partitions -> Seq(Items)]
        BY <3>1, <3>2
      <3>4. ASSUME NEW p \in Partitions PROVE Len(subQueues'[p]) <= EventBufferSize
        BY <3>1, <3>2
      <3> QED
        BY <3>2, <3>3, <3>4
    <2> QED
      BY <2>1, <2>2
  <1>6. ASSUME NEW g \in Enqueuers, Return(g) PROVE QueueInv'
    BY <1>6, NoItemType DEF Return, Partitions
  <1>7. ASSUME NEW p \in Partitions, Dequeue(p) PROVE QueueInv'
    <2>1. Tail(subQueues[p]) \in Seq(Items)
          /\ Len(Tail(subQueues[p])) <= EventBufferSize
      BY <1>7 DEF Dequeue
    <2>2. subQueues' \in [Partitions -> Seq(Items)]
      BY <1>7, <2>1 DEF Dequeue
    <2>3. ASSUME NEW q \in Partitions PROVE Len(subQueues'[q]) <= EventBufferSize
      BY <1>7, <2>1 DEF Dequeue
    <2> QED
      BY <1>7, <2>2, <2>3 DEF Dequeue, choice
  <1>8. CASE UNCHANGED queueVars
    BY <1>8 DEF queueVars, choice
  <1> QED
    BY <1>1, <1>2, <1>3, <1>4, <1>5, <1>6, <1>7, <1>8 DEF QueueNext, Enqueue

\* findPartition and Enqueue never leave the slice of sub-queues and never put
\* more into one than its size, for any number of partitions and of callers
\* that share the index.
THEOREM QueueIsSafe == QueueSpec => []QueueTypeOK
  <1>1. QueueInv => QueueTypeOK
    BY DEF QueueInv
  <1> QED
    BY <1>1, QueueInvInit, QueueInvNext, PTL DEF QueueSpec

-----------------------------------------------------------------------------
(***************************************************************************)
(* The gatherer.                                                           *)
(***************************************************************************)
\* What a sub-queue holds does not matter here, only that it is a sequence.
IsSequence(s) == \E S : s \in Seq(S)

\* The partition a search from part is at after j steps.
Wrapped(p, j) == IF p + j >= Partition THEN p + j - Partition ELSE p + j

\* Where the search is.
SearchOK ==
  LET g == Gatherer
  IN /\ subQueues = [p \in Partitions |-> subQueues[p]]
     /\ \A p \in Partitions : IsSequence(subQueues[p])
     /\ DOMAIN qpc = Enqueuers /\ DOMAIN part = Enqueuers /\ DOMAIN addition = Enqueuers
     /\ loadBalancerIndex \in Nat
     /\ qpc[g] \in {"idle", "add", "swap", "check", "put", "accepted", "failed"}
     /\ qpc[g] = "swap" => addition[g] = 0
     /\ qpc[g] = "check" => part[g] \in Partitions /\ addition[g] \in Partitions
     /\ qpc[g] = "put" => part[g] \in Partitions

\* A partition that had room when Enqueue was called is still to be found: no
\* other goroutine fills it, and the search has not passed it.
RoomAhead ==
  LET g == Gatherer
  IN (queueName = "memory-queue" /\ ~full) =>
       /\ qpc[g] \in {"add", "swap"} => \E p \in Partitions : ~IsFull(p)
       /\ qpc[g] = "check" =>
            \E j \in addition[g] .. Partition - 1 : ~IsFull(Wrapped(part[g], j))
       /\ qpc[g] = "put" => ~IsFull(part[g])
       /\ qpc[g] # "failed"

GatherInv == SearchOK /\ RoomAhead

-----------------------------------------------------------------------------
\* There is a gatherer.
LEMMA GathererIs == Gatherer \in Enqueuers
  BY IngestAssumption DEF Gatherer

\* Appending and taking the head off leave a sequence.
LEMMA StillSequence ==
  ASSUME NEW s, IsSequence(s)
  PROVE  /\ Len(s) \in Nat
         /\ \A e : IsSequence(Append(s, e)) /\ Len(Append(s, e)) = Len(s) + 1
         /\ s # <<>> => IsSequence(Tail(s)) /\ Len(Tail(s)) = Len(s) - 1
<1>1. PICK S : s \in Seq(S)
  BY DEF IsSequence
<1>2. ASSUME NEW e PROVE IsSequence(Append(s, e)) /\ Len(Append(s, e)) = Len(s) + 1
  <2>1. s \in Seq(S \cup {e})
    BY <1>1
  <2>2. Append(s, e) \in Seq(S \cup {e}) /\ Len(Append(s, e)) = Len(s) + 1
    BY <2>1
  <2> QED BY <2>2 DEF IsSequence
<1>3. ASSUME s # <<>> PROVE IsSequence(Tail(s)) /\ Len(Tail(s)) = Len(s) - 1
  <2>1. Tail(s) \in Seq(S) /\ Len(Tail(s)) = Len(s) - 1
    BY <1>1, <1>3
  <2> QED BY <2>1 DEF IsSequence
<1> QED BY <1>1, <1>2, <1>3

\* A search for a partition finds each one.
LEMMA SearchReaches ==
  ASSUME NEW a \in Partitions, NEW p \in Partitions
  PROVE  \E j \in 0 .. Partition - 1 : Wrapped(a, j) = p
<1>1. CASE a <= p
  <2>1. p - a \in 0 .. Partition - 1 /\ Wrapped(a, p - a) = p
    BY <1>1, PartitionAssumption DEF Partitions, Wrapped
  <2> QED BY <2>1
<1>2. CASE a > p
  <2>1. p - a + Partition \in 0 .. Partition - 1 /\ Wrapped(a, p - a + Partition) = p
    BY <1>2, PartitionAssumption DEF Partitions, Wrapped
  <2> QED BY <2>1
<1> QED BY <1>1, <1>2, PartitionAssumption DEF Partitions

\* At first nobody searches.
LEMMA GatherInit == Init => GatherInv
<1> SUFFICES ASSUME Init PROVE GatherInv
  OBVIOUS
<1>1. \A p \in Partitions : IsSequence(subQueues[p])
  <2>1. <<>> \in Seq({})
    OBVIOUS
  <2> QED BY <2>1 DEF Init, QueueInit, IsSequence
<1> QED BY <1>1, GathererIs DEF Init, QueueInit, GatherInv, SearchOK, RoomAhead

\* The steps of the receivers that do not concern the queue.
Elsewhere == UNCHANGED <<queueVars, full>>

\* What a step does to the queue and to what is known of its room.
GatherStep ==
  \/ \E e : Gather(e)
  \/ Enqueue(Gatherer) /\ UNCHANGED full
  \/ Return(Gatherer) /\ full' = FALSE
  \/ \E p \in Partitions : Dequeue(p) /\ UNCHANGED full
  \/ Elsewhere

\* Handlers and limiters reach the queue through the gatherer only.
LEMMA NextIsGatherStep == [Next]_vars => GatherStep
<1>1. ASSUME NEW c \in Clients, Handling(c) PROVE GatherStep
  <2>1. ASSUME NEW k, Recv(c, k) PROVE Elsewhere
    BY <2>1 DEF Recv, Elsewhere
  <2>2. ASSUME NEW n, RecvList(c, n) PROVE Elsewhere
    BY <2>2 DEF RecvList, Elsewhere, history
  <2>3. ASSUME EndOfStream(c) \/ StreamFails(c) PROVE Elsewhere
    BY <2>3 DEF EndOfStream, StreamFails, Finish, Elsewhere
  <2>4. ASSUME Timeout(c) PROVE Elsewhere
    BY <2>4 DEF Timeout, Elsewhere, history
  <2>5. ASSUME Send(c) PROVE \E e : Gather(e)
    BY <2>5 DEF Send
  <2>6. ASSUME Buffer(c) \/ Check(c) PROVE Elsewhere
    BY <2>6 DEF Buffer, Check, Elsewhere, history
  <2>7. ASSUME Signal(c) \/ Tick(c) \/ Stop(c) PROVE Elsewhere
    BY <2>7 DEF Signal, Tick, Stop, Select, Elsewhere, history
  <2>8. ASSUME Flush(c) PROVE Elsewhere
    BY <2>8 DEF Flush, Elsewhere
  <2>9. ASSUME FlushSend(c) PROVE \E e : Gather(e)
    BY <2>9 DEF FlushSend
  <2> QED BY <1>1, <2>1, <2>2, <2>3, <2>4, <2>5, <2>6, <2>7, <2>8, <2>9
          DEF Handling, GatherStep
<1>2. Enqueuing => GatherStep
  BY DEF Enqueuing, GatherStep, history
<1>3. Enqueued => GatherStep
  BY DEF Enqueued, GatherStep
<1>4. ASSUME NEW p \in Partitions, ConsumeQueue(p) PROVE GatherStep
  BY <1>4 DEF ConsumeQueue, GatherStep
<1>5. UNCHANGED vars => GatherStep
  BY DEF vars, history, GatherStep, Elsewhere
<1> QED BY <1>1, <1>2, <1>3, <1>4, <1>5 DEF Next

\* A search that began with room in some partition ends at one with room,
\* whatever consumers take out meanwhile.
LEMMA GatherNext == GatherInv /\ [Next]_vars => GatherInv'
<1> SUFFICES ASSUME GatherInv, GatherStep PROVE GatherInv'
  BY NextIsGatherStep
<1> DEFINE g == Gatherer
<1> USE PartitionAssumption, GathererIs
<1>0. Partitions \subseteq Nat /\ 0 \in Partitions
  BY DEF Partitions
<1>1. ASSUME NEW e, Gather(e) PROVE GatherInv'
  <2>1. SearchOK'
    BY <1>0, <1>1 DEF Gather, CallEnqueue, GatherInv, SearchOK
  <2>2. \A p : IsFull(p)' <=> IsFull(p)
    BY <1>1 DEF Gather, CallEnqueue, IsFull
  <2>3. /\ qpc'[g] = IF Partition = 1 THEN "put" ELSE "add"
        /\ part'[g] = 0 /\ full' = \A p \in Partitions : IsFull(p)
    BY <1>1 DEF Gather, CallEnqueue, GatherInv, SearchOK
  <2>4. ASSUME ~full' PROVE \E p \in Partitions : ~IsFull(p)'
    BY <2>2, <2>3, <2>4
  <2>5. Partition = 1 => Partitions = {0}
    BY DEF Partitions
  <2>6. RoomAhead'
    BY <2>2, <2>3, <2>4, <2>5 DEF RoomAhead
  <2> QED BY <2>1, <2>6 DEF GatherInv
<1>2. ASSUME Increment(g), UNCHANGED full PROVE GatherInv'
  <2>1. SearchOK'
    BY <1>0, <1>2 DEF Increment, GatherInv, SearchOK, Partitions
  <2>2. \A p : IsFull(p)' <=> IsFull(p)
    BY <1>2 DEF Increment, IsFull
  <2>3. /\ qpc[g] = "add" /\ addition'[g] = 0 /\ UNCHANGED queueName
        /\ qpc'[g] \in {"swap", "check"}
        /\ qpc'[g] = "check" => part'[g] \in Partitions
    BY <1>2 DEF Increment, GatherInv, SearchOK, Partitions
  <2>4. ASSUME queueName = "memory-queue", ~full PROVE \E p \in Partitions : ~IsFull(p)
    BY <2>3, <2>4 DEF GatherInv, RoomAhead
  <2>5. ASSUME queueName = "memory-queue", ~full, qpc'[g] = "check"
        PROVE  \E j \in 0 .. Partition - 1 : ~IsFull(Wrapped(part'[g], j))
    BY <2>3, <2>4, <2>5, SearchReaches
  <2>6. RoomAhead'
    BY <1>2, <2>2, <2>3, <2>4, <2>5 DEF RoomAhead, Wrapped
  <2> QED BY <2>1, <2>6 DEF GatherInv
<1>3. ASSUME Swap(g), UNCHANGED full PROVE GatherInv'
  <2>1. SearchOK'
    BY <1>0, <1>3 DEF Swap, GatherInv, SearchOK
  <2>2. \A p : IsFull(p)' <=> IsFull(p)
    BY <1>3 DEF Swap, IsFull
  <2>3. /\ qpc[g] = "swap" /\ addition'[g] = 0 /\ UNCHANGED queueName
        /\ qpc'[g] \in {"add", "check"}
        /\ qpc'[g] = "check" => part'[g] \in Partitions
    BY <1>0, <1>3 DEF Swap, GatherInv, SearchOK
  <2>4. ASSUME queueName = "memory-queue", ~full PROVE \E p \in Partitions : ~IsFull(p)
    BY <2>3, <2>4 DEF GatherInv, RoomAhead
  <2>5. ASSUME queueName = "memory-queue", ~full, qpc'[g] = "check"
        PROVE  \E j \in 0 .. Partition - 1 : ~IsFull(Wrapped(part'[g], j))
    BY <2>3, <2>4, <2>5, SearchReaches
  <2>6. RoomAhead'
    BY <1>3, <2>2, <2>3, <2>4, <2>5 DEF RoomAhead, Wrapped
  <2> QED BY <2>1, <2>6 DEF GatherInv
<1>4. ASSUME CheckFull(g), UNCHANGED full PROVE GatherInv'
  <2>1. At(g) = Wrapped(part[g], addition[g]) /\ At(g) \in Partitions
    BY <1>4, AtPartition DEF At, Wrapped, CheckFull, GatherInv, SearchOK
  <2>2. \A p : IsFull(p)' <=> IsFull(p)
    BY <1>4 DEF CheckFull, IsFull
  <2>3. CASE ~IsFull(At(g))
    <3>1. /\ qpc'[g] = "put" /\ part'[g] = At(g)
          /\ UNCHANGED <<queueName, subQueues, loadBalancerIndex>>
          /\ DOMAIN qpc' = Enqueuers /\ DOMAIN part' = Enqueuers
          /\ DOMAIN addition' = Enqueuers
      BY <1>4, <2>3 DEF CheckFull, GatherInv, SearchOK
    <3> QED BY <2>1, <2>2, <2>3, <3>1 DEF GatherInv, SearchOK, RoomAhead
  <2>4. CASE IsFull(At(g)) /\ addition[g] + 1 < Partition
    <3>1. /\ addition'[g] = addition[g] + 1 /\ addition[g] \in Nat /\ qpc[g] = "check"
          /\ UNCHANGED <<queueName, subQueues, loadBalancerIndex, qpc, part>>
          /\ DOMAIN addition' = Enqueuers
      BY <1>0, <1>4, <2>4 DEF CheckFull, GatherInv, SearchOK
    <3>2. SearchOK'
      BY <2>4, <3>1 DEF GatherInv, SearchOK, Partitions
    <3>3. ASSUME queueName = "memory-queue", ~full
          PROVE  \E j \in addition[g] + 1 .. Partition - 1 : ~IsFull(Wrapped(part[g], j))
      <4>1. PICK j \in addition[g] .. Partition - 1 : ~IsFull(Wrapped(part[g], j))
        BY <3>1, <3>3 DEF GatherInv, RoomAhead
      <4>2. j # addition[g]
        BY <2>1, <2>4, <4>1
      <4> QED BY <3>1, <4>1, <4>2
    <3> QED BY <1>4, <2>2, <3>1, <3>2, <3>3 DEF GatherInv, RoomAhead, Wrapped
  <2>5. CASE IsFull(At(g)) /\ ~(addition[g] + 1 < Partition)
    <3>1. /\ qpc[g] = "check" /\ qpc'[g] = "failed" /\ addition[g] \in Partitions
          /\ UNCHANGED <<queueName, subQueues, loadBalancerIndex, part, addition>>
          /\ DOMAIN qpc' = Enqueuers
      BY <1>4, <2>5 DEF CheckFull, GatherInv, SearchOK
    <3>2. ~(queueName = "memory-queue" /\ ~full)
      <4> SUFFICES ASSUME queueName = "memory-queue", ~full PROVE FALSE
        OBVIOUS
      <4>1. PICK j \in addition[g] .. Partition - 1 : ~IsFull(Wrapped(part[g], j))
        BY <3>1 DEF GatherInv, RoomAhead
      <4>2. j = addition[g]
        BY <2>5, <3>1, <4>1 DEF Partitions
      <4> QED BY <2>1, <2>5, <4>1, <4>2
    <3> QED BY <1>4, <3>1, <3>2 DEF GatherInv, SearchOK, RoomAhead
  <2> QED BY <2>3, <2>4, <2>5
<1>5. ASSUME Put(g), UNCHANGED full PROVE GatherInv'
  <2>1. /\ qpc[g] = "put" /\ part[g] \in Partitions
        /\ UNCHANGED <<queueName, loadBalancerIndex, part, addition>>
        /\ DOMAIN qpc' = Enqueuers
    BY <1>5 DEF Put, GatherInv, SearchOK
  <2>2. CASE Refuses(part[g])
    <3>1. qpc'[g] = "failed" /\ UNCHANGED subQueues
      BY <1>5, <2>2 DEF Put, GatherInv, SearchOK
    <3>2. ~(queueName = "memory-queue" /\ ~full)
      BY <2>1, <2>2 DEF Refuses, GatherInv, RoomAhead
    <3> QED BY <1>5, <2>1, <3>1, <3>2 DEF GatherInv, SearchOK, RoomAhead
  <2>3. CASE ~Refuses(part[g])
    <3>1. /\ qpc'[g] = "accepted"
          /\ subQueues' = [subQueues EXCEPT ![part[g]] = Append(@, item[g])]
      BY <1>5, <2>3 DEF Put, GatherInv, SearchOK
    <3>2. \A p \in Partitions : IsSequence(subQueues'[p])
      BY <2>1, <3>1, StillSequence DEF GatherInv, SearchOK
    <3>3. subQueues' = [p \in Partitions |-> subQueues'[p]]
      BY <3>1 DEF GatherInv, SearchOK
    <3> QED BY <2>1, <3>1, <3>2, <3>3 DEF GatherInv, SearchOK, RoomAhead
  <2> QED BY <2>2, <2>3
<1>6. ASSUME Return(g), full' = FALSE PROVE GatherInv'
  BY <1>0, <1>6 DEF Return, GatherInv, SearchOK, RoomAhead
<1>7. ASSUME NEW p \in Partitions, Dequeue(p), UNCHANGED full PROVE GatherInv'
  <2>1. /\ UNCHANGED <<queueName, loadBalancerIndex, qpc, part, addition>>
        /\ subQueues[p] # <<>>
        /\ subQueues' = [subQueues EXCEPT ![p] = Tail(@)]
    BY <1>7 DEF Dequeue, choice
  <2>2. \A q \in Partitions : /\ IsSequence(subQueues'[q])
                               /\ Len(subQueues'[q]) <= Len(subQueues[q])
    BY <2>1, StillSequence DEF GatherInv, SearchOK
  <2>3. subQueues' = [q \in Partitions |-> subQueues'[q]]
    BY <2>1 DEF GatherInv, SearchOK
  <2>4. SearchOK'
    BY <2>1, <2>2, <2>3 DEF GatherInv, SearchOK
  <2>5. \A q \in Partitions : IsFull(q)' => IsFull(q)
    <3>1. \A q \in Partitions : Len(subQueues[q]) \in Nat /\ Len(subQueues'[q]) \in Nat
      BY <2>2, StillSequence DEF GatherInv, SearchOK
    <3> QED BY <2>1, <2>2, <3>1 DEF IsFull
  <2>6. \A j \in 0 .. Partition - 1 :
          qpc[g] = "check" => Wrapped(part[g], j) \in Partitions
    BY DEF GatherInv, SearchOK, Wrapped, Partitions
  <2>7. qpc[g] = "check" => addition[g] .. Partition - 1 \subseteq 0 .. Partition - 1
    BY DEF GatherInv, SearchOK, Partitions
  <2>8. RoomAhead'
    <3> SUFFICES ASSUME queueName = "memory-queue", ~full
                 PROVE  /\ qpc[g] \in {"add", "swap"} => \E q \in Partitions : ~IsFull(q)'
                        /\ qpc[g] = "check" =>
                             \E j \in addition[g] .. Partition - 1 :
                               ~(IsFull(Wrapped(part[g], j))')
                        /\ qpc[g] = "put" => ~(IsFull(part[g])')
                        /\ qpc[g] # "failed"
      BY <1>7, <2>1 DEF RoomAhead, Wrapped
    <3>1. qpc[g] \in {"add", "swap"} => \E q \in Partitions : ~IsFull(q)'
      BY <2>5 DEF GatherInv, RoomAhead
    <3>2. ASSUME qpc[g] = "check"
          PROVE  \E j \in addition[g] .. Partition - 1 : ~(IsFull(Wrapped(part[g], j))')
      <4>1. PICK j \in addition[g] .. Partition - 1 : ~IsFull(Wrapped(part[g], j))
        BY <3>2 DEF GatherInv, RoomAhead
      <4>2. Wrapped(part[g], j) \in Partitions
        BY <2>6, <2>7, <3>2
      <4>3. ~(IsFull(Wrapped(part[g], j))')
        BY <2>1, <2>5, <4>1, <4>2
      <4> QED BY <4>3
    <3>3. qpc[g] = "put" => ~(IsFull(part[g])')
      BY <2>1, <2>5 DEF GatherInv, RoomAhead, SearchOK
    <3>4. qpc[g] # "failed"
      BY DEF GatherInv, RoomAhead
    <3> QED BY <3>1, <3>2, <3>3, <3>4
  <2> QED BY <2>4, <2>8 DEF GatherInv
<1>8. CASE Elsewhere
  BY <1>8 DEF Elsewhere, queueVars, choice, GatherInv, SearchOK, RoomAhead, IsFull, Wrapped
<1> QED
  BY <1>1, <1>2, <1>3, <1>4, <1>5, <1>6, <1>7, <1>8 DEF GatherStep, Enqueue

(***************************************************************************)
(* For any number of partitions and any size of them, an event is refused  *)
(* by memory queues only if none had room when the gatherer called         *)
(* Enqueue, however receivers, limiters and consumers interleave.          *)
(***************************************************************************)
THEOREM GathererRefusesOnlyWhenFull == Spec => []RefusedOnlyWhenFull
<1>1. GatherInv => RefusedOnlyWhenFull
  BY DEF GatherInv, RoomAhead, RefusedOnlyWhenFull
<1> QED BY <1>1, GatherInit, GatherNext, PTL DEF Spec
-----------------------------------------------------------------------------
(***************************************************************************)
(* Where the messages are.                                                 *)
(***************************************************************************)
AllEvents == [client : Clients, msgs : Seq(Nat)]

\* The messages of a client on their way to the queue, in the order they will
\* get there.
Ahead(c) == ((Gathered(c) \o batch[c]) \o messages[c]) \o hold[c]

Sorted(s) == \A j, k \in DOMAIN s : j < k => s[j] < s[k]

IngestType ==
  /\ \A c \in Clients :
       /\ svc[c].mode \in {"each", "collect", "limited", "unary", "list", "http"}
       /\ svc[c].identity = "first" => svc[c].mode = "limited"
  /\ hpc \in [Clients -> {"recv", "send", "failsend", "buffer", "check", "signal",
                          "stop", "done"}]
  /\ lpc \in [Clients -> {"none", "select", "flush", "send", "last", "lastsend", "exit"}]
  /\ reply \in [Clients -> {"none", "ok", "error", "timeout"}]
  /\ identity \in [Clients -> BOOLEAN]
  /\ got \in [Clients -> 0 .. MaxMessages]
  /\ hold \in [Clients -> Seq(Nat)] /\ messages \in [Clients -> Seq(Nat)]
  /\ batch \in [Clients -> Seq(Nat)]
  /\ delivered \in [Clients -> [1 .. MaxMessages -> Nat]]
  /\ subQueues \in [Partitions -> Seq(AllEvents)]
  /\ DOMAIN item = Enqueuers
  /\ qpc[Gatherer] # "idle" => item[Gatherer] \in AllEvents

\* What the handler and the limiter of a client have in their hands at each
\* point of their code.
Hands(c) ==
  /\ svc[c].mode # "limited" =>
       /\ messages[c] = <<>> /\ batch[c] = <<>> /\ lpc[c] = "none"
       /\ hpc[c] \notin {"buffer", "check", "signal", "stop"}
  /\ svc[c].mode = "limited" => hpc[c] \notin {"send", "failsend"}
  /\ hpc[c] = "recv" /\ svc[c].mode # "collect" => hold[c] = <<>>
  /\ hpc[c] = "recv" /\ svc[c].mode = "list" => got[c] = 0
  /\ hpc[c] \in {"check", "signal", "stop", "done"} => hold[c] = <<>>
  /\ hpc[c] = "buffer" => Len(hold[c]) = 1
  /\ hpc[c] \in {"send", "failsend"} /\ svc[c].mode = "list" => hold[c] # <<>>
  /\ lpc[c] \notin {"send", "lastsend"} => batch[c] = <<>>
  /\ svc[c].identity = "first" /\ (messages[c] # <<>> \/ hpc[c] = "buffer") => identity[c]
  /\ reply[c] = "ok" => hpc[c] \in {"stop", "done"}

\* How full a stream's buffer can be: the handler adds a message above the
\* limit only while the limiter is about to empty it.
Buffered(c) ==
  IF lpc[c] \in {"flush", "last"}
  THEN /\ Len(messages[c]) <= LimitCount + 1
       /\ hpc[c] \in {"recv", "buffer"} => Len(messages[c]) <= LimitCount
  ELSE /\ Len(messages[c]) <= LimitCount
       /\ hpc[c] \in {"recv", "buffer"} => Len(messages[c]) < LimitCount

\* What is on its way is in order, and behind what is in the queue.
Behind(c) ==
  /\ Sorted(Ahead(c))
  /\ \A p \in Partitions : \A k \in DOMAIN subQueues[p] :
       subQueues[p][k].client = c =>
         \A x \in ToSet(subQueues[p][k].msgs) :
           x \in 1 .. got[c] /\ \A y \in ToSet(Ahead(c)) : x < y

\* The numbers 1 .. n are each in one of the sets, or in one set of the family.
Once(n, a, q, d, x) ==
  /\ a \subseteq 1 .. n /\ d \subseteq 1 .. n /\ x \subseteq 1 .. n
  /\ \A p \in Partitions : q[p] \subseteq 1 .. n
  /\ \A i \in 1 .. n : i \in a \cup d \cup x \/ \E p \in Partitions : i \in q[p]
  /\ a \cap d = {} /\ a \cap x = {} /\ d \cap x = {}
  /\ \A p \in Partitions : q[p] \cap a = {} /\ q[p] \cap d = {} /\ q[p] \cap x = {}
  /\ \A p, r \in Partitions : p # r => q[p] \cap q[r] = {}

InQueues(c) == [p \in Partitions |-> {i \in 1 .. MaxMessages : InQueue(p, c, i)}]
Delivered(c) == {i \in 1 .. MaxMessages : delivered[c][i] = 1}
Dropped(c) == {i \in 1 .. MaxMessages : <<c, i>> \in dropped}

Places(c) ==
  /\ Once(got[c], ToSet(Ahead(c)), InQueues(c), Delivered(c), Dropped(c))
  /\ \A i \in 1 .. MaxMessages : delivered[c][i] \in {0, 1}

AccountInv ==
  /\ IngestType /\ InOrder
  /\ \A c \in Clients : Hands(c) /\ Buffered(c) /\ Behind(c) /\ Places(c)

-----------------------------------------------------------------------------
\* Facts about sequences of numbers.

\* What a concatenation holds.
LEMMA ConcatSet ==
  ASSUME NEW s \in Seq(Nat), NEW t \in Seq(Nat)
  PROVE  s \o t \in Seq(Nat) /\ ToSet(s \o t) = ToSet(s) \cup ToSet(t)
<1> DEFINE u == s \o t
<1>1. /\ u \in Seq(Nat) /\ Len(u) = Len(s) + Len(t)
      /\ \A i \in 1 .. Len(s) + Len(t) : u[i] = IF i <= Len(s) THEN s[i] ELSE t[i - Len(s)]
  BY ConcatProperties, Zenon
<1> HIDE DEF u
<1>2. Len(s) \in Nat /\ Len(t) \in Nat
  OBVIOUS
<1>3. DOMAIN s = 1 .. Len(s) /\ DOMAIN t = 1 .. Len(t) /\ DOMAIN u = 1 .. Len(u)
  BY <1>1
<1>4. ASSUME NEW x \in ToSet(u) PROVE x \in ToSet(s) \cup ToSet(t)
  <2>1. PICK i \in 1 .. Len(s) + Len(t) : x = u[i]
    BY <1>1, <1>3, <1>4 DEF ToSet
  <2>2. CASE i <= Len(s)
    <3>1. i \in 1 .. Len(s) /\ x = s[i]
      BY <1>1, <1>2, <2>1, <2>2
    <3> QED BY <1>3, <3>1 DEF ToSet
  <2>3. CASE ~(i <= Len(s))
    <3>1. i - Len(s) \in 1 .. Len(t) /\ x = t[i - Len(s)]
      BY <1>1, <1>2, <2>1, <2>3
    <3> QED BY <1>3, <3>1 DEF ToSet
  <2> QED BY <2>2, <2>3
<1>5. ASSUME NEW x \in ToSet(s) PROVE x \in ToSet(u)
  <2>1. PICK i \in 1 .. Len(s) : x = s[i]
    BY <1>3, <1>5 DEF ToSet
  <2>2. i \in 1 .. Len(s) + Len(t) /\ x = u[i]
    BY <1>1, <1>2, <2>1
  <2> QED BY <1>1, <1>3, <2>2 DEF ToSet
<1>6. ASSUME NEW x \in ToSet(t) PROVE x \in ToSet(u)
  <2>1. PICK i \in 1 .. Len(t) : x = t[i]
    BY <1>3, <1>6 DEF ToSet
  <2>2. /\ i + Len(s) \in 1 .. Len(s) + Len(t) /\ ~(i + Len(s) <= Len(s))
        /\ (i + Len(s)) - Len(s) = i
    BY <1>2, <2>1
  <2>3. x = u[i + Len(s)]
    BY <1>1, <2>1, <2>2
  <2> QED BY <1>1, <1>3, <2>2, <2>3 DEF ToSet
<1>7. ToSet(u) = ToSet(s) \cup ToSet(t)
  BY <1>4, <1>5, <1>6
<1> QED BY <1>1, <1>7 DEF u

\* A concatenation is in order when both parts are, one before the other.
LEMMA ConcatSorted ==
  ASSUME NEW s \in Seq(Nat), NEW t \in Seq(Nat)
  PROVE  Sorted(s \o t) <=>
           Sorted(s) /\ Sorted(t) /\ \A x \in ToSet(s), y \in ToSet(t) : x < y
<1> DEFINE u == s \o t
           l == Len(s)
           m == Len(t)
<1>1. /\ u \in Seq(Nat) /\ Len(u) = l + m
      /\ \A i \in 1 .. l + m : u[i] = IF i <= l THEN s[i] ELSE t[i - l]
  BY ConcatProperties, Zenon
<1>2. /\ l \in Nat /\ m \in Nat
      /\ DOMAIN s = 1 .. l /\ DOMAIN t = 1 .. m
  OBVIOUS
<1>3. DOMAIN u = 1 .. l + m
  BY <1>1
<1> HIDE DEF u, l, m
<1>4. ASSUME NEW i \in 1 .. l PROVE i \in 1 .. l + m /\ u[i] = s[i]
  BY <1>1, <1>2
<1>5. ASSUME NEW i \in 1 .. m PROVE i + l \in 1 .. l + m /\ u[i + l] = t[i]
  <2>1. i + l \in 1 .. l + m /\ ~(i + l <= l) /\ (i + l) - l = i
    BY <1>2
  <2> QED BY <1>1, <2>1
<1>6. ASSUME Sorted(u)
      PROVE  Sorted(s) /\ Sorted(t) /\ \A x \in ToSet(s), y \in ToSet(t) : x < y
  <2>1. \A i, j \in 1 .. l + m : i < j => u[i] < u[j]
    BY <1>3, <1>6 DEF Sorted
  <2>2. ASSUME NEW i \in 1 .. l, NEW j \in 1 .. l, i < j PROVE s[i] < s[j]
    BY <1>4, <2>1, <2>2
  <2>3. ASSUME NEW i \in 1 .. m, NEW j \in 1 .. m, i < j PROVE t[i] < t[j]
    <3>1. i + l < j + l
      BY <1>2, <2>3
    <3> QED BY <1>5, <2>1, <3>1
  <2>4. ASSUME NEW i \in 1 .. l, NEW j \in 1 .. m PROVE s[i] < t[j]
    <3>1. i < j + l
      BY <1>2
    <3> QED BY <1>4, <1>5, <2>1, <3>1
  <2> QED BY <1>2, <2>2, <2>3, <2>4 DEF Sorted, ToSet
<1>7. ASSUME Sorted(s), Sorted(t), \A x \in ToSet(s), y \in ToSet(t) : x < y
      PROVE  Sorted(u)
  <2> SUFFICES ASSUME NEW i \in 1 .. l + m, NEW j \in 1 .. l + m, i < j PROVE u[i] < u[j]
    BY <1>3 DEF Sorted
  <2>1. CASE j <= l
    <3>1. i \in 1 .. l /\ j \in 1 .. l
      BY <1>2, <2>1
    <3> QED BY <1>2, <1>4, <1>7, <3>1 DEF Sorted
  <2>2. CASE i <= l /\ ~(j <= l)
    <3>1. i \in 1 .. l /\ j - l \in 1 .. m
      BY <1>2, <2>2
    <3>2. u[i] = s[i] /\ u[j] = t[j - l]
      BY <1>1, <2>2
    <3> QED BY <1>2, <1>7, <3>1, <3>2 DEF ToSet
  <2>3. CASE ~(i <= l) /\ ~(j <= l)
    <3>1. i - l \in 1 .. m /\ j - l \in 1 .. m /\ i - l < j - l
      BY <1>2, <2>3
    <3>2. u[i] = t[i - l] /\ u[j] = t[j - l]
      BY <1>1, <2>3
    <3> QED BY <1>2, <1>7, <3>1, <3>2 DEF Sorted
  <2> QED BY <1>2, <2>1, <2>2, <2>3
<1> QED BY <1>6, <1>7 DEF u

\* A sequence that is in order holds a number once.
LEMMA SortedOnce ==
  ASSUME NEW s \in Seq(Nat), Sorted(s), NEW i
  PROVE  Times(s, i) = IF i \in ToSet(s) THEN 1 ELSE 0
<1> DEFINE K == {k \in DOMAIN s : s[k] = i}
<1>1. CASE i \in ToSet(s)
  <2>1. PICK k \in DOMAIN s : s[k] = i
    BY <1>1 DEF ToSet
  <2>2. ASSUME NEW j \in DOMAIN s, s[j] = i PROVE j = k
    <3>1. j \in Nat /\ k \in Nat /\ s[j] \in Nat /\ s[k] \in Nat
      OBVIOUS
    <3>2. ~(j < k) /\ ~(k < j)
      BY <2>1, <2>2, <3>1 DEF Sorted
    <3> QED BY <3>1, <3>2
  <2>3. K = {k}
    BY <2>1, <2>2
  <2> QED BY <1>1, <2>3, FS_Singleton DEF Times
<1>2. CASE i \notin ToSet(s)
  <2>1. K = {}
    BY <1>2 DEF ToSet
  <2> QED BY <1>2, <2>1, FS_EmptySet DEF Times
<1> QED BY <1>1, <1>2

\* Taking a part out of a sequence that is in order.
LEMMA TakeOut ==
  ASSUME NEW a \in Seq(Nat), NEW m \in Seq(Nat), NEW z \in Seq(Nat),
         Sorted((a \o m) \o z)
  PROVE  /\ Sorted(a \o z) /\ Sorted(m)
         /\ ToSet(m) \subseteq ToSet((a \o m) \o z)
         /\ ToSet(a \o z) = ToSet((a \o m) \o z) \ ToSet(m)
         /\ \A x \in ToSet(m), y \in ToSet(z) : x < y
<1>1. a \o m \in Seq(Nat) /\ ToSet(a \o m) = ToSet(a) \cup ToSet(m)
  BY ConcatSet
<1>2. /\ ToSet((a \o m) \o z) = ToSet(a) \cup ToSet(m) \cup ToSet(z)
      /\ Sorted(a \o m) /\ Sorted(z)
      /\ \A x \in ToSet(a) \cup ToSet(m), y \in ToSet(z) : x < y
  BY <1>1, ConcatSet, ConcatSorted
<1>3. Sorted(a) /\ Sorted(m) /\ \A x \in ToSet(a), y \in ToSet(m) : x < y
  BY <1>2, ConcatSorted
<1>4. Sorted(a \o z) /\ ToSet(a \o z) = ToSet(a) \cup ToSet(z)
  BY <1>2, <1>3, ConcatSet, ConcatSorted
<1>5. ToSet(a) \subseteq Nat /\ ToSet(m) \subseteq Nat /\ ToSet(z) \subseteq Nat
  BY DEF ToSet
<1>6. ASSUME NEW x, x \in ToSet(m) PROVE x \notin ToSet(a) /\ x \notin ToSet(z)
  <2>1. x \in Nat /\ ~(x < x)
    BY <1>5, <1>6
  <2> QED BY <1>2, <1>3, <1>6, <2>1
<1> QED BY <1>2, <1>3, <1>4, <1>6

\* The empty sequence.
LEMMA EmptySet == <<>> \in Seq(Nat) /\ ToSet(<<>>) = {} /\ Sorted(<<>>)
  BY DEF ToSet, Sorted

\* The empty sequence adds nothing.
LEMMA EmptyConcat ==
  ASSUME NEW s \in Seq(Nat)
  PROVE  s \o <<>> = s /\ <<>> \o s = s
  BY ConcatEmptySeq, Zenon

\* Concatenating is associative.
LEMMA Regroup ==
  ASSUME NEW s \in Seq(Nat), NEW t \in Seq(Nat), NEW u \in Seq(Nat)
  PROVE  (s \o t) \o u = s \o (t \o u)
<1> DEFINE a == s \o t
           b == t \o u
           l == Len(s)
           m == Len(t)
           n == Len(u)
<1>1. /\ a \in Seq(Nat) /\ Len(a) = l + m
      /\ \A i \in 1 .. l + m : a[i] = IF i <= l THEN s[i] ELSE t[i - l]
  BY ConcatProperties, Zenon
<1>2. /\ b \in Seq(Nat) /\ Len(b) = m + n
      /\ \A i \in 1 .. m + n : b[i] = IF i <= m THEN t[i] ELSE u[i - m]
  BY ConcatProperties, Zenon
<1>3. l \in Nat /\ m \in Nat /\ n \in Nat /\ Len(s) = l /\ Len(u) = n
  OBVIOUS
<1> HIDE DEF a, b, l, m, n
<1> DEFINE x == a \o u
           y == s \o b
<1>4. /\ x \in Seq(Nat) /\ Len(x) = Len(a) + Len(u)
      /\ \A i \in 1 .. Len(a) + Len(u) : x[i] = IF i <= Len(a) THEN a[i] ELSE u[i - Len(a)]
  BY <1>1, ConcatProperties, Zenon
<1>5. /\ y \in Seq(Nat) /\ Len(y) = Len(s) + Len(b)
      /\ \A i \in 1 .. Len(s) + Len(b) : y[i] = IF i <= Len(s) THEN s[i] ELSE b[i - Len(s)]
  BY <1>2, ConcatProperties, Zenon
<1> HIDE DEF x, y
<1>6. Len(x) = (l + m) + n /\ Len(y) = (l + m) + n
  BY <1>1, <1>2, <1>3, <1>4, <1>5
<1>7. ASSUME NEW i \in 1 .. Len(x) PROVE x[i] = y[i]
  <2>1. CASE i <= l
    <3>1. i \in 1 .. l + m /\ x[i] = a[i] /\ y[i] = s[i]
      BY <1>1, <1>2, <1>3, <1>4, <1>5, <1>6, <2>1
    <3> QED BY <1>1, <2>1, <3>1
  <2>2. CASE ~(i <= l) /\ i <= l + m
    <3>1. /\ i \in 1 .. l + m /\ i - l \in 1 .. m + n /\ i - l <= m
          /\ x[i] = a[i] /\ y[i] = b[i - l]
      BY <1>1, <1>2, <1>3, <1>4, <1>5, <1>6, <2>2
    <3> QED BY <1>1, <1>2, <2>2, <3>1
  <2>3. CASE ~(i <= l + m)
    <3>1. /\ i \in 1 .. (l + m) + n /\ ~(i <= l)
          /\ i - l \in 1 .. m + n /\ ~(i - l <= m) /\ (i - l) - m = i - (l + m)
      BY <1>3, <1>6, <2>3
    <3>2. x[i] = u[i - (l + m)]
      BY <1>1, <1>3, <1>4, <1>6, <2>3, <3>1
    <3>3. y[i] = b[i - l]
      BY <1>2, <1>3, <1>5, <1>6, <3>1
    <3> QED BY <1>2, <3>1, <3>2, <3>3
  <2> QED BY <1>3, <2>1, <2>2, <2>3
<1>8. x = y
  BY <1>4, <1>5, <1>6, <1>7, SeqEqual
<1> QED BY <1>8 DEF x, y, a, b

\* Concatenation by another name, for steps that need these laws and no more.
Cat(s, t) == s \o t

\* The laws.
LEMMA CatLaws ==
  ASSUME NEW s \in Seq(Nat), NEW t \in Seq(Nat), NEW u \in Seq(Nat)
  PROVE  /\ Cat(s, t) \in Seq(Nat) /\ Cat(<<>>, s) = s /\ Cat(s, <<>>) = s
         /\ Cat(Cat(s, t), u) = Cat(s, Cat(t, u))
<1>1. (s \o t) \o u = s \o (t \o u)
  BY Regroup, Zenon
<1>2. s \o t \in Seq(Nat)
  BY ConcatSet
<1>3. s \o <<>> = s /\ <<>> \o s = s
  BY EmptyConcat
<1> QED BY <1>1, <1>2, <1>3 DEF Cat

\* The first of four parts can be taken apart from the others.
LEMMA FrontFirst ==
  ASSUME NEW x \in Seq(Nat), NEW b \in Seq(Nat), NEW m \in Seq(Nat), NEW h \in Seq(Nat)
  PROVE  LET z == Cat(Cat(b, m), h)
         IN /\ z \in Seq(Nat)
            /\ Cat(Cat(Cat(x, b), m), h) = Cat(Cat(<<>>, x), z)
            /\ Cat(Cat(Cat(<<>>, b), m), h) = Cat(<<>>, z)
  BY CatLaws

-----------------------------------------------------------------------------
\* One more message, which is on its way.
LEMMA OnceMore ==
  ASSUME NEW n \in Nat, NEW a, NEW q, NEW d, NEW x, Once(n, a, q, d, x)
  PROVE  Once(n + 1, a \cup {n + 1}, q, d, x)
<1> DEFINE N == 1 .. n
           M == 1 .. n + 1
           l == n + 1
<1>1. M = N \cup {l} /\ l \notin N
  OBVIOUS
<1>2. Once(n, a, q, d, x) /\ N = 1 .. n
  OBVIOUS
<1> HIDE DEF N, M
<1> QED BY <1>1, <1>2 DEF Once, M

\* One more message, which is dropped.
LEMMA OnceLess ==
  ASSUME NEW n \in Nat, NEW a, NEW q, NEW d, NEW x, Once(n, a, q, d, x)
  PROVE  Once(n + 1, a, q, d, x \cup {n + 1})
<1> DEFINE N == 1 .. n
           M == 1 .. n + 1
           l == n + 1
<1>1. M = N \cup {l} /\ l \notin N
  OBVIOUS
<1>2. Once(n, a, q, d, x) /\ N = 1 .. n
  OBVIOUS
<1> HIDE DEF N, M
<1> QED BY <1>1, <1>2 DEF Once, M

\* Messages on their way are dropped.
LEMMA OnceDrop ==
  ASSUME NEW n, NEW a, NEW q, NEW d, NEW x, NEW m, m \subseteq a, Once(n, a, q, d, x)
  PROVE  Once(n, a \ m, q, d, x \cup m)
  BY DEF Once

\* Messages on their way get into a sub-queue.
LEMMA OncePut ==
  ASSUME NEW n, NEW a, NEW q, NEW d, NEW x, NEW m, m \subseteq a, Once(n, a, q, d, x),
         NEW p \in Partitions, NEW r, r[p] = q[p] \cup m,
         \A s \in Partitions : s # p => r[s] = q[s]
  PROVE  Once(n, a \ m, r, d, x)
<1>1. \A i \in 1 .. n : i \in (a \ m) \cup d \cup x \/ \E s \in Partitions : i \in r[s]
  <2> SUFFICES ASSUME NEW i \in 1 .. n, i \notin (a \ m) \cup d \cup x
               PROVE  \E s \in Partitions : i \in r[s]
    OBVIOUS
  <2>1. CASE i \in m
    BY <2>1
  <2>2. CASE i \notin m
    <3>1. PICK s \in Partitions : i \in q[s]
      BY <2>2 DEF Once
    <3> QED BY <3>1
  <2> QED BY <2>1, <2>2
<1>2. \A s \in Partitions : r[s] \subseteq q[s] \cup m
  OBVIOUS
<1>3. \A s \in Partitions : r[s] \cap (a \ m) = {} /\ r[s] \cap d = {} /\ r[s] \cap x = {}
  BY <1>2 DEF Once
<1>4. \A s, t \in Partitions : s # t => r[s] \cap r[t] = {}
  BY DEF Once
<1>5. \A s \in Partitions : r[s] \subseteq 1 .. n
  BY <1>2 DEF Once
<1> QED BY <1>1, <1>3, <1>4, <1>5 DEF Once

\* Messages are taken from a sub-queue and delivered.
LEMMA OnceTake ==
  ASSUME NEW n, NEW a, NEW q, NEW d, NEW x, NEW m, Once(n, a, q, d, x),
         NEW p \in Partitions, m \subseteq q[p], NEW r, r[p] = q[p] \ m,
         \A s \in Partitions : s # p => r[s] = q[s]
  PROVE  Once(n, a, r, d \cup m, x)
<1>1. \A i \in 1 .. n : i \in a \cup (d \cup m) \cup x \/ \E s \in Partitions : i \in r[s]
  <2> SUFFICES ASSUME NEW i \in 1 .. n, i \notin a \cup (d \cup m) \cup x
               PROVE  \E s \in Partitions : i \in r[s]
    OBVIOUS
  <2>1. PICK s \in Partitions : i \in q[s]
    BY DEF Once
  <2> QED BY <2>1
<1>2. \A s \in Partitions : r[s] \subseteq q[s]
  OBVIOUS
<1>3. \A s \in Partitions : r[s] \cap a = {} /\ r[s] \cap (d \cup m) = {} /\ r[s] \cap x = {}
  BY <1>2 DEF Once
<1>4. \A s, t \in Partitions : s # t => r[s] \cap r[t] = {}
  BY <1>2 DEF Once
<1>5. \A s \in Partitions : r[s] \subseteq 1 .. n
  BY <1>2 DEF Once
<1>6. a \cap (d \cup m) = {} /\ (d \cup m) \cap x = {} /\ d \cup m \subseteq 1 .. n
  BY DEF Once
<1> QED BY <1>1, <1>3, <1>4, <1>5, <1>6 DEF Once

-----------------------------------------------------------------------------
\* What a step does to the messages of one client.

\* The queue keeps what it holds of client c, and nothing of it is delivered.
QueueKeeps(c) == UNCHANGED subQueues /\ delivered'[c] = delivered[c]
DropsOnly(c, m) ==
  \A i \in 1 .. MaxMessages : <<c, i>> \in dropped' <=> (<<c, i>> \in dropped \/ i \in m)

\* What is on its way are sequences of numbers.
LEMMA AheadType ==
  ASSUME IngestType, NEW c \in Clients
  PROVE  /\ Gathered(c) \in Seq(Nat) /\ batch[c] \in Seq(Nat)
         /\ messages[c] \in Seq(Nat) /\ hold[c] \in Seq(Nat)
         /\ Gathered(c) \o batch[c] \in Seq(Nat)
         /\ (Gathered(c) \o batch[c]) \o messages[c] \in Seq(Nat)
         /\ Ahead(c) \in Seq(Nat)
<1>1. Gathered(c) \in Seq(Nat)
  <2>1. CASE qpc[Gatherer] \notin {"idle", "accepted"} /\ item[Gatherer].client = c
    <3>1. item[Gatherer] \in AllEvents
      BY <2>1 DEF IngestType
    <3> QED BY <2>1, <3>1 DEF Gathered, AllEvents
  <2>2. CASE ~(qpc[Gatherer] \notin {"idle", "accepted"} /\ item[Gatherer].client = c)
    BY <2>2, EmptySet DEF Gathered
  <2> QED BY <2>1, <2>2
<1>2. batch[c] \in Seq(Nat) /\ messages[c] \in Seq(Nat) /\ hold[c] \in Seq(Nat)
  BY DEF IngestType
<1>3. Gathered(c) \o batch[c] \in Seq(Nat)
  BY <1>1, <1>2, ConcatSet
<1>4. (Gathered(c) \o batch[c]) \o messages[c] \in Seq(Nat)
  BY <1>2, <1>3, ConcatSet
<1>5. Ahead(c) \in Seq(Nat)
  BY <1>2, <1>4, ConcatSet DEF Ahead
<1> QED BY <1>1, <1>2, <1>3, <1>4, <1>5

\* Nothing happens to a client.
LEMMA KeepSame ==
  ASSUME NEW c \in Clients, Behind(c), Places(c), QueueKeeps(c), DropsOnly(c, {}),
         Ahead(c)' = Ahead(c), got'[c] = got[c]
  PROVE  Behind(c)' /\ Places(c)'
<1>1. InQueues(c)' = InQueues(c)
  BY DEF QueueKeeps, InQueues, InQueue
<1>2. Delivered(c)' = Delivered(c) /\ Dropped(c)' = Dropped(c)
  BY DEF QueueKeeps, DropsOnly, Delivered, Dropped
<1>3. Places(c)'
  BY <1>1, <1>2 DEF Places, QueueKeeps
<1>4. Behind(c)'
  BY DEF Behind, QueueKeeps
<1> QED BY <1>3, <1>4

\* A message is received.
LEMMA KeepMore ==
  ASSUME IngestType, NEW c \in Clients, Behind(c), Places(c), QueueKeeps(c),
         DropsOnly(c, {}), Ahead(c)' = Ahead(c) \o <<got[c] + 1>>, got'[c] = got[c] + 1
  PROVE  Behind(c)' /\ Places(c)'
<1> DEFINE n == got[c]
           a == Ahead(c)
           t == <<got[c] + 1>>
<1>1. n \in Nat /\ a \in Seq(Nat)
  BY AheadType DEF IngestType
<1>2. t \in Seq(Nat) /\ ToSet(t) = {n + 1} /\ Sorted(t)
  BY <1>1 DEF ToSet, Sorted
<1>3. Once(n, ToSet(a), InQueues(c), Delivered(c), Dropped(c))
  BY DEF Places
<1>4. ToSet(a) \subseteq 1 .. n
  BY <1>3 DEF Once
<1>5. Ahead(c)' = a \o t /\ got'[c] = n + 1
  OBVIOUS
<1>b. Sorted(a)
  BY DEF Behind
<1> HIDE DEF a, t, n
<1>6. Sorted(a \o t) /\ ToSet(a \o t) = ToSet(a) \cup {n + 1}
  BY <1>1, <1>2, <1>4, <1>b, ConcatSet, ConcatSorted
<1>7. InQueues(c)' = InQueues(c)
  BY DEF QueueKeeps, InQueues, InQueue
<1>8. Delivered(c)' = Delivered(c) /\ Dropped(c)' = Dropped(c)
  BY DEF QueueKeeps, DropsOnly, Delivered, Dropped
<1>9. Once(n + 1, ToSet(a) \cup {n + 1}, InQueues(c), Delivered(c), Dropped(c))
  BY <1>1, <1>3, OnceMore
<1>10. Places(c)'
  BY <1>5, <1>6, <1>7, <1>8, <1>9 DEF Places, QueueKeeps
<1>11. ASSUME NEW p \in Partitions, NEW k \in DOMAIN subQueues[p],
              subQueues[p][k].client = c, NEW x \in ToSet(subQueues[p][k].msgs)
       PROVE  x \in 1 .. n + 1 /\ \A y \in ToSet(a) \cup {n + 1} : x < y
  <2>1. x \in 1 .. n /\ \A y \in ToSet(a) : x < y
    BY <1>11 DEF Behind, n, a
  <2> QED BY <1>1, <2>1
<1>12. Behind(c)'
  BY <1>5, <1>6, <1>11 DEF Behind, QueueKeeps
<1> QED BY <1>10, <1>12

\* A message is received and dropped at once.
LEMMA KeepLess ==
  ASSUME IngestType, NEW c \in Clients, Behind(c), Places(c), QueueKeeps(c),
         DropsOnly(c, {got[c] + 1}), Ahead(c)' = Ahead(c), got'[c] = got[c] + 1,
         got[c] < MaxMessages
  PROVE  Behind(c)' /\ Places(c)'
<1>1. got[c] \in Nat /\ got[c] + 1 \in 1 .. MaxMessages
  BY IngestAssumption DEF IngestType
<1>2. Once(got[c], ToSet(Ahead(c)), InQueues(c), Delivered(c), Dropped(c))
  BY DEF Places
<1>3. InQueues(c)' = InQueues(c)
  BY DEF QueueKeeps, InQueues, InQueue
<1>4. Delivered(c)' = Delivered(c) /\ Dropped(c)' = Dropped(c) \cup {got[c] + 1}
  BY <1>1 DEF QueueKeeps, DropsOnly, Delivered, Dropped
<1>5. Places(c)'
  BY <1>1, <1>2, <1>3, <1>4, OnceLess DEF Places, QueueKeeps
<1>6. ASSUME NEW p \in Partitions, NEW k \in DOMAIN subQueues[p],
             subQueues[p][k].client = c, NEW x \in ToSet(subQueues[p][k].msgs)
      PROVE  x \in 1 .. got[c] + 1 /\ \A y \in ToSet(Ahead(c)) : x < y
  <2>1. x \in 1 .. got[c] /\ \A y \in ToSet(Ahead(c)) : x < y
    BY <1>6 DEF Behind
  <2> QED BY <1>1, <2>1
<1>7. Behind(c)'
  BY <1>6 DEF Behind, QueueKeeps
<1> QED BY <1>5, <1>7

\* The first request of a client holds n messages.
LEMMA KeepList ==
  ASSUME IngestType, NEW c \in Clients, Behind(c), Places(c), QueueKeeps(c),
         DropsOnly(c, {}), NEW n \in Nat, got[c] = 0, got'[c] = n,
         Ahead(c)' = [i \in 1 .. n |-> i]
  PROVE  Behind(c)' /\ Places(c)'
<1> DEFINE s == [i \in 1 .. n |-> i]
<1>1. Sorted(s) /\ ToSet(s) = 1 .. n
  BY DEF Sorted, ToSet
<1>2. Once(0, ToSet(Ahead(c)), InQueues(c), Delivered(c), Dropped(c))
  BY DEF Places
<1>3. Once(n, 1 .. n, InQueues(c), Delivered(c), Dropped(c))
  <2>1. 1 .. 0 = {}
    OBVIOUS
  <2>2. /\ Delivered(c) = {} /\ Dropped(c) = {}
        /\ \A p \in Partitions : InQueues(c)[p] = {}
    BY <1>2, <2>1 DEF Once
  <2> QED BY <2>2 DEF Once
<1>4. InQueues(c)' = InQueues(c)
  BY DEF QueueKeeps, InQueues, InQueue
<1>5. Delivered(c)' = Delivered(c) /\ Dropped(c)' = Dropped(c)
  BY DEF QueueKeeps, DropsOnly, Delivered, Dropped
<1>6. Ahead(c)' = s
  OBVIOUS
<1> HIDE DEF s
<1>7. Places(c)'
  BY <1>1, <1>3, <1>4, <1>5, <1>6 DEF Places, QueueKeeps
<1>8. ASSUME NEW p \in Partitions, NEW k \in DOMAIN subQueues[p],
             subQueues[p][k].client = c, NEW x \in ToSet(subQueues[p][k].msgs)
      PROVE  FALSE
  <2>1. x \in 1 .. got[c]
    BY <1>8 DEF Behind
  <2> QED BY <2>1
<1>9. Behind(c)'
  BY <1>1, <1>6, <1>8 DEF Behind, QueueKeeps
<1> QED BY <1>7, <1>9

\* Messages on their way are dropped.
LEMMA KeepDrop ==
  ASSUME IngestType, NEW c \in Clients, Behind(c), Places(c), QueueKeeps(c),
         NEW a \in Seq(Nat), NEW m \in Seq(Nat), NEW z \in Seq(Nat),
         Ahead(c) = (a \o m) \o z, Ahead(c)' = a \o z, DropsOnly(c, ToSet(m)),
         got'[c] = got[c]
  PROVE  Behind(c)' /\ Places(c)'
<1>1. /\ Sorted(a \o z) /\ ToSet(m) \subseteq ToSet(Ahead(c))
      /\ ToSet(a \o z) = ToSet(Ahead(c)) \ ToSet(m)
  BY TakeOut DEF Behind
<1>2. Once(got[c], ToSet(Ahead(c)), InQueues(c), Delivered(c), Dropped(c))
  BY DEF Places
<1>3. InQueues(c)' = InQueues(c)
  BY DEF QueueKeeps, InQueues, InQueue
<1>4. ToSet(m) \subseteq 1 .. MaxMessages
  BY <1>1, <1>2, IngestAssumption DEF Once, IngestType
<1>5. Delivered(c)' = Delivered(c) /\ Dropped(c)' = Dropped(c) \cup ToSet(m)
  BY <1>4 DEF QueueKeeps, DropsOnly, Delivered, Dropped
<1>6. Once(got[c], ToSet(Ahead(c)) \ ToSet(m), InQueues(c), Delivered(c),
           Dropped(c) \cup ToSet(m))
  BY <1>1, <1>2, OnceDrop
<1>7. Places(c)'
  BY <1>1, <1>3, <1>5, <1>6 DEF Places, QueueKeeps
<1>8. Behind(c)'
  BY <1>1 DEF Behind, QueueKeeps
<1> QED BY <1>7, <1>8

-----------------------------------------------------------------------------
\* Event e gets into sub-queue p.
Puts(p, e) ==
  /\ subQueues' = [subQueues EXCEPT ![p] = Append(@, e)]
  /\ UNCHANGED <<delivered, dropped, got>>

\* Where the events of the sub-queues are then.
LEMMA PutsAt ==
  ASSUME IngestType, NEW p \in Partitions, NEW e \in AllEvents, Puts(p, e)
  PROVE  LET n == Len(subQueues[p])
         IN /\ n \in Nat /\ DOMAIN subQueues[p] = 1 .. n
            /\ DOMAIN subQueues'[p] = 1 .. n + 1
            /\ \A k \in 1 .. n : subQueues'[p][k] = subQueues[p][k]
            /\ subQueues'[p][n + 1] = e
            /\ \A q \in Partitions : q # p => subQueues'[q] = subQueues[q]
<1> DEFINE s == subQueues[p]
<1>1. s \in Seq(AllEvents)
  BY DEF IngestType
<1>2. subQueues'[p] = Append(s, e) /\ \A q \in Partitions : q # p => subQueues'[q] = subQueues[q]
  BY DEF IngestType, Puts
<1> DEFINE E == AllEvents
<1>3. s \in Seq(E) /\ e \in E
  BY <1>1
<1> HIDE DEF s, E
<1>4. /\ Len(s) \in Nat /\ DOMAIN s = 1 .. Len(s)
      /\ DOMAIN Append(s, e) = 1 .. Len(s) + 1
      /\ \A k \in 1 .. Len(s) : Append(s, e)[k] = s[k]
      /\ Append(s, e)[Len(s) + 1] = e
  BY <1>3, AppendProperties
<1> QED BY <1>2, <1>4 DEF s

\* The messages of the event, and no others, are in the sub-queue in addition.
LEMMA PutsIn ==
  ASSUME IngestType, NEW p \in Partitions, NEW e \in AllEvents, Puts(p, e),
         NEW q \in Partitions, NEW d, NEW i
  PROVE  InQueue(q, d, i)' <=>
           InQueue(q, d, i) \/ (q = p /\ d = e.client /\ i \in ToSet(e.msgs))
<1> DEFINE n == Len(subQueues[p])
<1>1. /\ n \in Nat /\ DOMAIN subQueues[p] = 1 .. n
      /\ DOMAIN subQueues'[p] = 1 .. n + 1
      /\ \A k \in 1 .. n : subQueues'[p][k] = subQueues[p][k]
      /\ subQueues'[p][n + 1] = e
      /\ \A r \in Partitions : r # p => subQueues'[r] = subQueues[r]
  BY PutsAt
<1> HIDE DEF n
<1>2. CASE q # p
  BY <1>1, <1>2 DEF InQueue
<1>3. CASE q = p
  <2>1. 1 .. n + 1 = (1 .. n) \cup {n + 1}
    BY <1>1
  <2>2. InQueue(p, d, i)' <=>
          \E k \in 1 .. n + 1 :
            subQueues'[p][k].client = d /\ i \in ToSet(subQueues'[p][k].msgs)
    BY <1>1 DEF InQueue
  <2>3. InQueue(p, d, i) <=>
          \E k \in 1 .. n : subQueues[p][k].client = d /\ i \in ToSet(subQueues[p][k].msgs)
    BY <1>1 DEF InQueue
  <2> QED BY <1>1, <1>3, <2>1, <2>2, <2>3
<1> QED BY <1>2, <1>3

\* The client of the event.
LEMMA KeepPut ==
  ASSUME IngestType, NEW p \in Partitions, NEW e \in AllEvents, Puts(p, e),
         NEW c \in Clients, c = e.client, Behind(c), Places(c), NEW z \in Seq(Nat),
         Ahead(c) = (<<>> \o e.msgs) \o z, Ahead(c)' = <<>> \o z
  PROVE  Behind(c)' /\ Places(c)'
<1> DEFINE m == e.msgs
           n == Len(subQueues[p])
<1>1. <<>> \in Seq(Nat) /\ m \in Seq(Nat)
  BY EmptySet DEF AllEvents
<1>2. /\ Sorted(<<>> \o z) /\ ToSet(m) \subseteq ToSet(Ahead(c))
      /\ ToSet(<<>> \o z) = ToSet(Ahead(c)) \ ToSet(m)
      /\ \A x \in ToSet(m), y \in ToSet(z) : x < y
  <2> DEFINE o == <<>>
  <2>1. /\ o \in Seq(Nat) /\ Sorted((o \o m) \o z) /\ Ahead(c) = (o \o m) \o z
    BY <1>1 DEF Behind
  <2> HIDE DEF o, m
  <2>2. /\ Sorted(o \o z) /\ ToSet(m) \subseteq ToSet((o \o m) \o z)
        /\ ToSet(o \o z) = ToSet((o \o m) \o z) \ ToSet(m)
        /\ \A x \in ToSet(m), y \in ToSet(z) : x < y
    BY <1>1, <2>1, TakeOut
  <2> QED BY <2>1, <2>2 DEF o
<1>3. Once(got[c], ToSet(Ahead(c)), InQueues(c), Delivered(c), Dropped(c))
  BY DEF Places
<1>4. ToSet(m) \subseteq 1 .. got[c] /\ ToSet(m) \subseteq 1 .. MaxMessages
  BY <1>2, <1>3, IngestAssumption DEF Once, IngestType
<1>5. Delivered(c)' = Delivered(c) /\ Dropped(c)' = Dropped(c)
  BY DEF Puts, Delivered, Dropped
<1>6. InQueues(c)'[p] = InQueues(c)[p] \cup ToSet(m)
  <2>1. \A i : InQueue(p, c, i)' <=> InQueue(p, c, i) \/ i \in ToSet(m)
    BY PutsIn
  <2> QED BY <1>4, <2>1 DEF InQueues
<1>7. \A q \in Partitions : q # p => InQueues(c)'[q] = InQueues(c)[q]
  <2>1. \A q \in Partitions : q # p => \A i : InQueue(q, c, i)' <=> InQueue(q, c, i)
    BY PutsIn
  <2> QED BY <2>1 DEF InQueues
<1>8. Once(got[c], ToSet(Ahead(c)) \ ToSet(m), InQueues(c)', Delivered(c), Dropped(c))
  <2> DEFINE r == InQueues(c)'
             q0 == InQueues(c)
             t == ToSet(m)
             a0 == ToSet(Ahead(c))
             n0 == got[c]
             d0 == Delivered(c)
             x0 == Dropped(c)
  <2>1. /\ r[p] = q0[p] \cup t /\ \A s \in Partitions : s # p => r[s] = q0[s]
        /\ t \subseteq a0
    BY <1>2, <1>6, <1>7
  <2>2. Once(n0, a0, q0, d0, x0)
    BY <1>3
  <2> HIDE DEF r, q0, t, a0, n0, d0, x0
  <2>3. Once(n0, a0 \ t, r, d0, x0)
    BY <2>1, <2>2, OncePut
  <2> QED BY <2>3 DEF r, t, a0, n0, d0, x0
<1>9. Places(c)'
  BY <1>2, <1>5, <1>8 DEF Places, Puts
<1>10. ToSet(<<>> \o z) = ToSet(z)
  BY EmptyConcat
<1>11. /\ n \in Nat /\ DOMAIN subQueues[p] = 1 .. n
       /\ DOMAIN subQueues'[p] = 1 .. n + 1
       /\ \A k \in 1 .. n : subQueues'[p][k] = subQueues[p][k]
       /\ subQueues'[p][n + 1] = e
       /\ \A r \in Partitions : r # p => subQueues'[r] = subQueues[r]
  BY PutsAt
<1> HIDE DEF n
<1>12. ASSUME NEW q \in Partitions, NEW k \in DOMAIN subQueues'[q],
              subQueues'[q][k].client = c, NEW x \in ToSet(subQueues'[q][k].msgs)
       PROVE  x \in 1 .. got[c] /\ \A y \in ToSet(z) : x < y
  <2>1. CASE q = p /\ k = n + 1
    <3>1. x \in ToSet(m)
      BY <1>11, <1>12, <2>1
    <3> QED BY <1>2, <1>4, <3>1
  <2>2. CASE ~(q = p /\ k = n + 1)
    <3>1. k \in DOMAIN subQueues[q] /\ subQueues'[q][k] = subQueues[q][k]
      BY <1>11, <1>12, <2>2
    <3>2. x \in 1 .. got[c] /\ \A y \in ToSet(Ahead(c)) : x < y
      BY <1>12, <3>1 DEF Behind
    <3> QED BY <1>2, <1>10, <3>2
  <2> QED BY <2>1, <2>2
<1>13. Behind(c)'
  BY <1>2, <1>10, <1>12 DEF Behind, Puts
<1> QED BY <1>9, <1>13

\* The other clients.
LEMMA KeepPutOther ==
  ASSUME IngestType, NEW p \in Partitions, NEW e \in AllEvents, Puts(p, e),
         NEW d \in Clients, d # e.client, Behind(d), Places(d), Ahead(d)' = Ahead(d)
  PROVE  Behind(d)' /\ Places(d)'
<1> DEFINE n == Len(subQueues[p])
<1>1. InQueues(d)' = InQueues(d)
  <2>1. \A q \in Partitions : \A i : InQueue(q, d, i)' <=> InQueue(q, d, i)
    BY PutsIn
  <2> QED BY <2>1 DEF InQueues
<1>2. Delivered(d)' = Delivered(d) /\ Dropped(d)' = Dropped(d)
  BY DEF Puts, Delivered, Dropped
<1>3. Places(d)'
  BY <1>1, <1>2 DEF Places, Puts
<1>4. /\ n \in Nat /\ DOMAIN subQueues[p] = 1 .. n
      /\ DOMAIN subQueues'[p] = 1 .. n + 1
      /\ \A k \in 1 .. n : subQueues'[p][k] = subQueues[p][k]
      /\ subQueues'[p][n + 1] = e
      /\ \A r \in Partitions : r # p => subQueues'[r] = subQueues[r]
  BY PutsAt
<1> HIDE DEF n
<1>5. ASSUME NEW q \in Partitions, NEW k \in DOMAIN subQueues'[q],
             subQueues'[q][k].client = d
      PROVE  k \in DOMAIN subQueues[q] /\ subQueues'[q][k] = subQueues[q][k]
  BY <1>4, <1>5
<1>6. Behind(d)'
  BY <1>5 DEF Behind, Puts
<1> QED BY <1>3, <1>6

\* The event comes after those of its client that are in the sub-queue.
LEMMA PutInOrder ==
  ASSUME IngestType, NEW p \in Partitions, NEW e \in AllEvents, Puts(p, e), InOrder,
         Behind(e.client), NEW z \in Seq(Nat), Ahead(e.client) = (<<>> \o e.msgs) \o z
  PROVE  InOrder'
<1> DEFINE m == e.msgs
           n == Len(subQueues[p])
<1>1. <<>> \in Seq(Nat) /\ m \in Seq(Nat)
  BY EmptySet DEF AllEvents
<1>2. Sorted(m) /\ ToSet(m) \subseteq ToSet(Ahead(e.client))
  <2> DEFINE o == <<>>
  <2>1. /\ o \in Seq(Nat) /\ Sorted((o \o m) \o z) /\ Ahead(e.client) = (o \o m) \o z
    BY <1>1 DEF Behind
  <2> HIDE DEF o, m
  <2>2. Sorted(m) /\ ToSet(m) \subseteq ToSet((o \o m) \o z)
    BY <1>1, <2>1, TakeOut
  <2> QED BY <2>1, <2>2
<1>3. /\ n \in Nat /\ DOMAIN subQueues[p] = 1 .. n
      /\ DOMAIN subQueues'[p] = 1 .. n + 1
      /\ \A k \in 1 .. n : subQueues'[p][k] = subQueues[p][k]
      /\ subQueues'[p][n + 1] = e
      /\ \A r \in Partitions : r # p => subQueues'[r] = subQueues[r]
  BY PutsAt
<1> HIDE DEF n
<1> SUFFICES ASSUME NEW q \in Partitions, NEW j \in DOMAIN subQueues'[q],
                    NEW k \in DOMAIN subQueues'[q],
                    subQueues'[q][j].client = subQueues'[q][k].client,
                    NEW a \in DOMAIN subQueues'[q][j].msgs,
                    NEW b \in DOMAIN subQueues'[q][k].msgs,
                    j < k \/ (j = k /\ a < b)
             PROVE  subQueues'[q][j].msgs[a] < subQueues'[q][k].msgs[b]
  BY DEF InOrder
<1>4. CASE q # p \/ (j # n + 1 /\ k # n + 1)
  <2>1. /\ j \in DOMAIN subQueues[q] /\ subQueues'[q][j] = subQueues[q][j]
        /\ k \in DOMAIN subQueues[q] /\ subQueues'[q][k] = subQueues[q][k]
    BY <1>3, <1>4
  <2> QED BY <2>1 DEF InOrder
<1>5. CASE q = p /\ j = n + 1
  <2>1. k = n + 1 /\ a < b
    BY <1>3, <1>5
  <2> QED BY <1>2, <1>3, <1>5, <2>1 DEF Sorted
<1>6. CASE q = p /\ j # n + 1 /\ k = n + 1
  <2>1. j \in DOMAIN subQueues[p] /\ subQueues'[p][j] = subQueues[p][j]
    BY <1>3, <1>6
  <2>2. subQueues[p][j].client = e.client
    BY <1>3, <1>6, <2>1
  <2>3. subQueues[p][j].msgs[a] \in ToSet(subQueues[p][j].msgs)
    BY <1>6, <2>1 DEF ToSet
  <2>4. m[b] \in ToSet(m)
    BY <1>3, <1>6 DEF ToSet
  <2>5. subQueues[p][j].msgs[a] < m[b]
    BY <1>2, <2>1, <2>2, <2>3, <2>4 DEF Behind
  <2> QED BY <1>3, <1>6, <2>1, <2>5
<1> QED BY <1>4, <1>5, <1>6

-----------------------------------------------------------------------------
\* The first event of sub-queue p is taken and delivered.
Bumped(f, m) == [i \in DOMAIN f |-> f[i] + (IF i \in m THEN 1 ELSE 0)]
Takes(p) ==
  /\ subQueues[p] # <<>>
  /\ subQueues' = [subQueues EXCEPT ![p] = Tail(@)]
  /\ LET e == Head(subQueues[p])
     IN delivered' = [delivered EXCEPT ![e.client] = Bumped(@, ToSet(e.msgs))]
  /\ UNCHANGED <<dropped, got>>

\* Where the events of the sub-queues are then.
LEMMA TakesAt ==
  ASSUME IngestType, NEW p \in Partitions, Takes(p)
  PROVE  LET n == Len(subQueues[p])
         IN /\ n \in Nat \ {0} /\ DOMAIN subQueues[p] = 1 .. n
            /\ Head(subQueues[p]) = subQueues[p][1] /\ subQueues[p][1] \in AllEvents
            /\ DOMAIN subQueues'[p] = 1 .. n - 1
            /\ \A k \in 1 .. n - 1 : subQueues'[p][k] = subQueues[p][k + 1]
            /\ \A q \in Partitions : q # p => subQueues'[q] = subQueues[q]
<1> DEFINE s == subQueues[p]
           E == AllEvents
<1>1. s \in Seq(E) /\ s # <<>>
  BY DEF IngestType, Takes
<1>2. subQueues'[p] = Tail(s) /\ \A q \in Partitions : q # p => subQueues'[q] = subQueues[q]
  BY DEF IngestType, Takes
<1> HIDE DEF s, E
<1>3. /\ Len(s) \in Nat \ {0} /\ DOMAIN s = 1 .. Len(s)
      /\ Head(s) = s[1] /\ s[1] \in E
      /\ DOMAIN Tail(s) = 1 .. Len(s) - 1
      /\ \A k \in 1 .. Len(s) - 1 : Tail(s)[k] = s[k + 1]
  <2>1. Tail(s) \in Seq(E) /\ Len(Tail(s)) = Len(s) - 1
    BY <1>1
  <2>2. DOMAIN Tail(s) = 1 .. Len(s) - 1
    BY <2>1
  <2>3. Len(s) \in Nat \ {0} /\ DOMAIN s = 1 .. Len(s) /\ Head(s) = s[1] /\ s[1] \in E
    BY <1>1
  <2>4. \A k \in 1 .. Len(s) - 1 : Tail(s)[k] = s[k + 1]
    BY <1>1, <2>3
  <2> QED BY <2>2, <2>3, <2>4
<1> QED BY <1>2, <1>3 DEF s, E

\* Its messages are gone from the sub-queue, since no other event of the
\* sub-queue holds one of them.
LEMMA TakesOut ==
  ASSUME IngestType, InOrder, NEW p \in Partitions, Takes(p),
         NEW q \in Partitions, NEW d, NEW i
  PROVE  InQueue(q, d, i)' <=>
           /\ InQueue(q, d, i)
           /\ ~(q = p /\ d = subQueues[p][1].client /\ i \in ToSet(subQueues[p][1].msgs))
<1> DEFINE n == Len(subQueues[p])
           e == subQueues[p][1]
<1>1. /\ n \in Nat \ {0} /\ DOMAIN subQueues[p] = 1 .. n /\ e \in AllEvents
      /\ DOMAIN subQueues'[p] = 1 .. n - 1
      /\ \A k \in 1 .. n - 1 : subQueues'[p][k] = subQueues[p][k + 1]
      /\ \A r \in Partitions : r # p => subQueues'[r] = subQueues[r]
  BY TakesAt
<1>2. CASE q # p
  BY <1>1, <1>2 DEF InQueue
<1>3. CASE q = p
  <2>1. InQueue(p, d, i)' <=>
          \E k \in 1 .. n - 1 :
            subQueues[p][k + 1].client = d /\ i \in ToSet(subQueues[p][k + 1].msgs)
    BY <1>1 DEF InQueue
  <2>2. InQueue(p, d, i) <=>
          \E k \in 1 .. n : subQueues[p][k].client = d /\ i \in ToSet(subQueues[p][k].msgs)
    BY <1>1 DEF InQueue
  <2>3. ASSUME NEW k \in 1 .. n - 1, subQueues[p][k + 1].client = d,
               i \in ToSet(subQueues[p][k + 1].msgs)
        PROVE  InQueue(p, d, i) /\ ~(d = e.client /\ i \in ToSet(e.msgs))
    <3>1. k + 1 \in 1 .. n /\ 1 < k + 1 /\ 1 \in 1 .. n
      BY <1>1
    <3>2. InQueue(p, d, i)
      BY <2>2, <2>3, <3>1
    <3>3. ASSUME d = e.client, i \in ToSet(e.msgs) PROVE FALSE
      <4>1. PICK a \in DOMAIN e.msgs : e.msgs[a] = i
        BY <3>3 DEF ToSet
      <4>2. PICK b \in DOMAIN subQueues[p][k + 1].msgs : subQueues[p][k + 1].msgs[b] = i
        BY <2>3 DEF ToSet
      <4>3. e.msgs[a] < subQueues[p][k + 1].msgs[b]
        BY <1>1, <2>3, <3>1, <3>3 DEF InOrder
      <4>4. i \in Nat
        BY <1>1, <4>1 DEF AllEvents
      <4> QED BY <4>1, <4>2, <4>3, <4>4
    <3> QED BY <3>2, <3>3
  <2>4. ASSUME NEW k \in 1 .. n, subQueues[p][k].client = d,
               i \in ToSet(subQueues[p][k].msgs), ~(d = e.client /\ i \in ToSet(e.msgs))
        PROVE  InQueue(p, d, i)'
    <3>1. k # 1
      BY <2>4
    <3>2. k - 1 \in 1 .. n - 1 /\ (k - 1) + 1 = k
      BY <1>1, <3>1
    <3> QED BY <2>1, <2>4, <3>2
  <2> QED BY <1>3, <2>1, <2>2, <2>3, <2>4
<1> QED BY <1>2, <1>3

\* The events that are left keep their order.
LEMMA TakeInOrder ==
  ASSUME IngestType, InOrder, NEW p \in Partitions, Takes(p)
  PROVE  InOrder'
<1> DEFINE n == Len(subQueues[p])
<1>1. /\ n \in Nat \ {0} /\ DOMAIN subQueues[p] = 1 .. n
      /\ DOMAIN subQueues'[p] = 1 .. n - 1
      /\ \A k \in 1 .. n - 1 : subQueues'[p][k] = subQueues[p][k + 1]
      /\ \A r \in Partitions : r # p => subQueues'[r] = subQueues[r]
  BY TakesAt
<1> HIDE DEF n
<1> SUFFICES ASSUME NEW q \in Partitions, NEW j \in DOMAIN subQueues'[q],
                    NEW k \in DOMAIN subQueues'[q],
                    subQueues'[q][j].client = subQueues'[q][k].client,
                    NEW a \in DOMAIN subQueues'[q][j].msgs,
                    NEW b \in DOMAIN subQueues'[q][k].msgs,
                    j < k \/ (j = k /\ a < b)
             PROVE  subQueues'[q][j].msgs[a] < subQueues'[q][k].msgs[b]
  BY DEF InOrder
<1>2. CASE q # p
  BY <1>1, <1>2 DEF InOrder
<1>3. CASE q = p
  <2>0. j \in 1 .. n - 1 /\ k \in 1 .. n - 1
    BY <1>1, <1>3
  <2>1. /\ j + 1 \in DOMAIN subQueues[p] /\ subQueues'[p][j] = subQueues[p][j + 1]
        /\ k + 1 \in DOMAIN subQueues[p] /\ subQueues'[p][k] = subQueues[p][k + 1]
        /\ j + 1 < k + 1 \/ (j + 1 = k + 1 /\ a < b)
    BY <1>1, <2>0
  <2> QED BY <1>3, <2>1 DEF InOrder
<1> QED BY <1>2, <1>3

\* What is in the queue afterwards was there before.
LEMMA TakeBehind ==
  ASSUME IngestType, NEW p \in Partitions, Takes(p),
         NEW d \in Clients, Behind(d), Ahead(d)' = Ahead(d)
  PROVE  Behind(d)'
<1> DEFINE n == Len(subQueues[p])
<1>1. /\ n \in Nat \ {0} /\ DOMAIN subQueues[p] = 1 .. n
      /\ DOMAIN subQueues'[p] = 1 .. n - 1
      /\ \A k \in 1 .. n - 1 : subQueues'[p][k] = subQueues[p][k + 1]
      /\ \A r \in Partitions : r # p => subQueues'[r] = subQueues[r]
  BY TakesAt
<1> HIDE DEF n
<1>2. ASSUME NEW q \in Partitions, NEW k \in DOMAIN subQueues'[q]
      PROVE  \E j \in DOMAIN subQueues[q] : subQueues'[q][k] = subQueues[q][j]
  <2>1. CASE q # p
    BY <1>1, <2>1
  <2>2. CASE q = p
    <3>1. k + 1 \in DOMAIN subQueues[p] /\ subQueues'[p][k] = subQueues[p][k + 1]
      BY <1>1, <2>2
    <3> QED BY <2>2, <3>1
  <2> QED BY <2>1, <2>2
<1> SUFFICES ASSUME NEW q \in Partitions, NEW k \in DOMAIN subQueues'[q],
                    subQueues'[q][k].client = d, NEW x \in ToSet(subQueues'[q][k].msgs)
             PROVE  x \in 1 .. got[d] /\ \A y \in ToSet(Ahead(d)) : x < y
  BY DEF Behind, Takes
<1>3. PICK j \in DOMAIN subQueues[q] : subQueues'[q][k] = subQueues[q][j]
  BY <1>2
<1> QED BY <1>3 DEF Behind

\* The client of the event: its messages are delivered for the first time.
LEMMA TakePlaces ==
  ASSUME IngestType, InOrder, NEW p \in Partitions, Takes(p),
         NEW c \in Clients, c = subQueues[p][1].client, Behind(c), Places(c),
         Ahead(c)' = Ahead(c)
  PROVE  Places(c)'
<1> DEFINE e == subQueues[p][1]
           m == ToSet(e.msgs)
           q0 == InQueues(c)
           r == InQueues(c)'
           a0 == ToSet(Ahead(c))
           n0 == got[c]
           d0 == Delivered(c)
           x0 == Dropped(c)
<1>1. 1 \in DOMAIN subQueues[p] /\ Head(subQueues[p]) = e
  BY TakesAt
<1>2. m \subseteq 1 .. got[c]
  BY <1>1 DEF Behind
<1>3. got[c] \in 0 .. MaxMessages
  BY DEF IngestType
<1>4. m \subseteq 1 .. MaxMessages
  BY <1>2, <1>3, IngestAssumption
<1>5. m \subseteq q0[p]
  BY <1>1, <1>4 DEF InQueues, InQueue
<1>6. \A q \in Partitions : \A i :
        InQueue(q, c, i)' <=> InQueue(q, c, i) /\ ~(q = p /\ i \in m)
  BY TakesOut
<1>7. r[p] = q0[p] \ m /\ \A q \in Partitions : q # p => r[q] = q0[q]
  BY <1>6 DEF InQueues
<1>8. Once(n0, a0, q0, d0, x0)
  BY DEF Places
<1>9. q0[p] \cap d0 = {}
  BY <1>8 DEF Once
<1>10. /\ delivered'[c] = Bumped(delivered[c], m)
       /\ DOMAIN delivered[c] = 1 .. MaxMessages
  BY <1>1 DEF Takes, IngestType
<1>11. \A i \in 1 .. MaxMessages :
         delivered'[c][i] = delivered[c][i] + (IF i \in m THEN 1 ELSE 0)
  BY <1>10 DEF Bumped
<1>12. \A i \in m : delivered[c][i] = 0
  BY <1>4, <1>5, <1>9 DEF Places, Delivered
<1>13. \A i \in 1 .. MaxMessages :
         delivered'[c][i] = IF i \in m THEN 1 ELSE delivered[c][i]
  <2> SUFFICES ASSUME NEW i \in 1 .. MaxMessages
               PROVE  delivered'[c][i] = IF i \in m THEN 1 ELSE delivered[c][i]
    OBVIOUS
  <2>1. delivered[c][i] \in {0, 1}
    BY DEF Places
  <2> QED BY <1>11, <1>12, <2>1
<1>14. Delivered(c)' = d0 \cup m /\ Dropped(c)' = x0
  BY <1>4, <1>13 DEF Delivered, Dropped, Takes
<1>15. \A i \in 1 .. MaxMessages : delivered'[c][i] \in {0, 1}
  BY <1>13 DEF Places
<1> HIDE DEF e, m, q0, r, a0, n0, d0, x0
<1>16. Once(n0, a0, r, d0 \cup m, x0)
  BY <1>5, <1>7, <1>8, OnceTake
<1> QED BY <1>14, <1>15, <1>16 DEF Places, Takes, r, a0, n0

\* The other clients.
LEMMA TakePlacesOther ==
  ASSUME IngestType, InOrder, NEW p \in Partitions, Takes(p),
         NEW d \in Clients, d # subQueues[p][1].client, Places(d), Ahead(d)' = Ahead(d)
  PROVE  Places(d)'
<1>1. InQueues(d)' = InQueues(d)
  <2>1. \A q \in Partitions : \A i : InQueue(q, d, i)' <=> InQueue(q, d, i)
    BY TakesOut
  <2> QED BY <2>1 DEF InQueues
<1>2. Head(subQueues[p]) = subQueues[p][1]
  BY TakesAt
<1>3. delivered'[d] = delivered[d]
  BY <1>2 DEF Takes, IngestType
<1>4. Delivered(d)' = Delivered(d) /\ Dropped(d)' = Dropped(d)
  BY <1>3 DEF Delivered, Dropped, Takes
<1> QED BY <1>1, <1>3, <1>4 DEF Places, Takes

-----------------------------------------------------------------------------
\* Every action keeps the invariant.

\* What the handler and the limiter of client d keep.
Own(d) == <<svc[d], hpc[d], got[d], hold[d], reply[d], identity[d], messages[d], lpc[d],
            batch[d]>>

\* A client a step does not concern.
LEMMA OwnSame ==
  ASSUME NEW d \in Clients, UNCHANGED Own(d), Hands(d), Buffered(d)
  PROVE  Hands(d)' /\ Buffered(d)'
  BY DEF Own, Hands, Buffered

\* The gatherer keeps what it has.
LEMMA GatheredSame ==
  ASSUME UNCHANGED <<qpc, item>>, NEW d
  PROVE  Gathered(d)' = Gathered(d)
  BY DEF Gathered

\* A client neither the step nor the gatherer concerns.
LEMMA OtherSame ==
  ASSUME AccountInv, UNCHANGED <<qpc, item, subQueues>>, NEW d \in Clients,
         UNCHANGED Own(d), delivered'[d] = delivered[d], DropsOnly(d, {})
  PROVE  Hands(d)' /\ Buffered(d)' /\ Behind(d)' /\ Places(d)'
<1>1. Ahead(d)' = Ahead(d) /\ got'[d] = got[d]
  BY GatheredSame DEF Ahead, Own
<1>2. Hands(d) /\ Buffered(d) /\ Behind(d) /\ Places(d)
  BY DEF AccountInv
<1> QED BY <1>1, <1>2, OwnSame, KeepSame DEF QueueKeeps

\* As long as there are messages to come no client has sent all of them.
LEMMA RoomForMore ==
  ASSUME IngestType, NEW c \in Clients, Total < MaxMessages
  PROVE  got[c] < MaxMessages
<1> DEFINE S == {m \in Clients \X (1 .. MaxMessages) : m[2] <= got[m[1]]}
           T == {c} \X (1 .. MaxMessages)
<1>3. got[c] \in 0 .. MaxMessages /\ MaxMessages \in Nat
  BY IngestAssumption DEF IngestType
<1> DEFINE N == 1 .. MaxMessages
<1>a. IsFiniteSet(N) /\ Cardinality(N) = MaxMessages
  BY <1>3, FS_Interval
<1>b. IsFiniteSet({c}) /\ Cardinality({c}) = 1
  BY FS_Singleton
<1>1. IsFiniteSet(Clients \X N)
  <2> HIDE DEF N
  <2> QED BY <1>a, IngestAssumption, FS_Product, Zenon
<1>2. IsFiniteSet(S)
  BY <1>1, FS_Subset
<1>4. Cardinality(T) = MaxMessages
  <2> DEFINE C == {c}
  <2>1. IsFiniteSet(C) /\ IsFiniteSet(N)
    BY <1>a, <1>b
  <2> HIDE DEF N, C
  <2>2. Cardinality(C \X N) = Cardinality(C) * Cardinality(N)
    BY <2>1, FS_Product, Zenon
  <2>3. Cardinality({c} \X N) = 1 * MaxMessages
    BY <1>a, <1>b, <2>2 DEF C
  <2> QED BY <1>3, <2>3 DEF N
<1>5. ASSUME got[c] = MaxMessages PROVE T \subseteq S
  BY <1>3, <1>5
<1>6. ASSUME got[c] = MaxMessages PROVE MaxMessages <= Cardinality(S)
  BY <1>2, <1>4, <1>5, <1>6, FS_Subset
<1>7. Cardinality(S) \in Nat
  BY <1>2, FS_CardinalityType
<1> QED BY <1>3, <1>6, <1>7 DEF Total

\* A message of a stream or a request.
LEMMA RecvKeeps ==
  ASSUME AccountInv, NEW c \in Clients, NEW kind, Recv(c, kind)
  PROVE  AccountInv'
<1> DEFINE n == got[c] + 1
<1>1. IngestType /\ Hands(c) /\ Buffered(c) /\ Behind(c) /\ Places(c)
  BY DEF AccountInv
<1>2. got[c] < MaxMessages /\ got[c] \in Nat
  BY <1>1, RoomForMore DEF Recv, IngestType
<1>3. /\ hpc[c] = "recv" /\ got' = Of(got, c, n) /\ got'[c] = n
      /\ UNCHANGED <<queueVars, svc, limited, delivered, full>>
  BY <1>1 DEF Recv, IngestType, Of
<1>4. UNCHANGED <<qpc, item, subQueues, messages, lpc, batch, svc>>
  BY <1>3 DEF queueVars, choice, limited
<1>g. got' \in [Clients -> 0 .. MaxMessages]
  <2>1. n \in 0 .. MaxMessages
    BY <1>2, IngestAssumption
  <2> QED BY <1>1, <1>3, <2>1 DEF IngestType, Of
<1>5. CASE Rejected(c, kind)
  <2>1. /\ reply' = IF svc[c].mode = "http" /\ reply[c] # "none" THEN reply
                    ELSE Of(reply, c, "error")
        /\ hpc' = Of(hpc, c, IF svc[c].mode = "limited" THEN "stop" ELSE "done")
        /\ dropped' = dropped \cup {<<c, n>>}
        /\ UNCHANGED <<hold, identity>>
    BY <1>3, <1>5 DEF Recv, Reject
  <2>2. IngestType'
    <3>1. reply' \in [Clients -> {"none", "ok", "error", "timeout"}]
      BY <1>1, <2>1 DEF IngestType, Of
    <3>2. hpc' \in [Clients -> {"recv", "send", "failsend", "buffer", "check", "signal",
                                "stop", "done"}]
      BY <1>1, <2>1 DEF IngestType, Of
    <3> QED BY <1>1, <1>3, <1>4, <1>g, <2>1, <3>1, <3>2 DEF IngestType
  <2>3. hold[c] = <<>>
    BY <1>1, <1>3, <1>5 DEF Rejected, IngestType, Hands
  <2>4. Hands(c)' /\ Buffered(c)'
    BY <1>1, <1>3, <1>4, <2>1, <2>3 DEF Hands, Buffered, IngestType, Of
  <2>5. Behind(c)' /\ Places(c)'
    <3>1. Ahead(c)' = Ahead(c)
      BY <1>4, <2>1, GatheredSame DEF Ahead
    <3>2. QueueKeeps(c) /\ DropsOnly(c, {n})
      BY <1>3, <1>4, <2>1 DEF QueueKeeps, DropsOnly
    <3> QED BY <1>1, <1>2, <1>3, <3>1, <3>2, KeepLess
  <2>6. ASSUME NEW d \in Clients, d # c
        PROVE  Hands(d)' /\ Buffered(d)' /\ Behind(d)' /\ Places(d)'
    <3>1. UNCHANGED Own(d)
      BY <1>1, <1>3, <1>4, <2>1, <2>6 DEF Own, Of, IngestType
    <3>2. DropsOnly(d, {}) /\ delivered'[d] = delivered[d]
      BY <1>3, <2>1, <2>6 DEF DropsOnly
    <3> QED BY <1>4, <3>1, <3>2, OtherSame
  <2>7. InOrder'
    BY <1>4 DEF AccountInv, InOrder
  <2> QED BY <2>2, <2>4, <2>5, <2>6, <2>7 DEF AccountInv
<1>6. CASE ~Rejected(c, kind)
  <2>1. /\ hold' = Of(hold, c, Append(hold[c], n))
        /\ identity' = Of(identity, c, identity[c] \/ kind = "named")
        /\ hpc' = Of(hpc, c, CASE svc[c].mode = "limited" -> "buffer"
                               [] svc[c].mode = "collect" -> "recv"
                               [] OTHER -> "send")
        /\ UNCHANGED <<reply, dropped>>
    BY <1>3, <1>6 DEF Recv
  <2>2. /\ Append(hold[c], n) \in Seq(Nat) /\ Len(Append(hold[c], n)) = Len(hold[c]) + 1
        /\ Append(hold[c], n) # <<>>
    <3>1. hold[c] \in Seq(Nat) /\ n \in Nat
      BY <1>1, <1>2 DEF IngestType
    <3> HIDE DEF n
    <3> QED BY <3>1, AppendProperties
  <2>3. IngestType'
    <3>1. hold' \in [Clients -> Seq(Nat)]
      BY <1>1, <2>1, <2>2 DEF IngestType, Of
    <3>2. hpc'[c] \in {"buffer", "recv", "send"} /\ identity'[c] \in BOOLEAN
      BY <1>1, <2>1 DEF IngestType, Of
    <3>3. /\ hpc' \in [Clients -> {"recv", "send", "failsend", "buffer", "check", "signal",
                                   "stop", "done"}]
          /\ identity' \in [Clients -> BOOLEAN] /\ got' \in [Clients -> 0 .. MaxMessages]
      BY <1>1, <1>g, <2>1, <3>2 DEF IngestType, Of
    <3> QED BY <1>1, <1>3, <1>4, <2>1, <3>1, <3>3 DEF IngestType
  <2>4. Hands(c)' /\ Buffered(c)'
    <3>1. /\ hold'[c] = Append(hold[c], n) /\ UNCHANGED <<reply, messages, lpc, batch, svc>>
          /\ identity'[c] = (identity[c] \/ kind = "named")
          /\ svc[c].mode = "limited" => hpc'[c] = "buffer"
          /\ svc[c].mode = "collect" => hpc'[c] = "recv"
          /\ svc[c].mode \notin {"limited", "collect"} => hpc'[c] = "send"
      BY <1>1, <1>4, <2>1 DEF IngestType, Of
    <3>2. svc[c].mode = "limited" => Len(hold'[c]) = 1
      BY <1>1, <1>3, <2>2, <3>1 DEF Hands
    <3>3. svc[c].identity = "first" => identity'[c]
      BY <1>1, <1>6, <3>1 DEF Rejected, IngestType
    <3>4. hold'[c] # <<>>
      BY <1>1, <2>2, <3>1 DEF IngestType
    <3>5. reply[c] # "ok" /\ svc[c].mode # "list"
      BY <1>1, <1>3 DEF Hands, Recv
    <3>6. Hands(c)'
      BY <1>1, <3>1, <3>2, <3>3, <3>4, <3>5 DEF Hands
    <3>7. Buffered(c)'
      BY <1>1, <1>3, <3>1 DEF Buffered, Hands, IngestType
    <3> QED BY <3>6, <3>7
  <2>5. Behind(c)' /\ Places(c)'
    <3>1. Ahead(c)' = Ahead(c) \o <<n>>
      <4> DEFINE f == (Gathered(c) \o batch[c]) \o messages[c]
      <4>1. f \in Seq(Nat) /\ hold[c] \in Seq(Nat) /\ <<n>> \in Seq(Nat)
        BY <1>1, <1>2, AheadType
      <4>2. Ahead(c)' = f \o hold'[c] /\ Ahead(c) = f \o hold[c]
        BY <1>4, GatheredSame DEF Ahead
      <4>3. hold'[c] = hold[c] \o <<n>>
        <5>1. hold'[c] = Append(hold[c], n)
          BY <1>1, <2>1 DEF IngestType, Of
        <5>2. n \in Nat /\ hold[c] \in Seq(Nat)
          BY <1>2, <4>1
        <5> HIDE DEF n
        <5>3. Append(hold[c], n) = hold[c] \o <<n>>
          BY <5>2, AppendIsConcat
        <5> QED BY <5>1, <5>3
      <4> DEFINE t == <<n>>
      <4>4. t \in Seq(Nat)
        BY <4>1
      <4> HIDE DEF f, t
      <4>5. f \o (hold[c] \o t) = (f \o hold[c]) \o t
        BY <4>1, <4>4, Regroup, Zenon
      <4> QED BY <4>2, <4>3, <4>5 DEF t
    <3>2. QueueKeeps(c) /\ DropsOnly(c, {})
      BY <1>3, <1>4, <2>1 DEF QueueKeeps, DropsOnly
    <3> QED BY <1>1, <1>3, <3>1, <3>2, KeepMore
  <2>6. ASSUME NEW d \in Clients, d # c
        PROVE  Hands(d)' /\ Buffered(d)' /\ Behind(d)' /\ Places(d)'
    <3>1. UNCHANGED Own(d)
      BY <1>1, <1>3, <1>4, <2>1, <2>6 DEF Own, Of, IngestType
    <3>2. DropsOnly(d, {}) /\ delivered'[d] = delivered[d]
      BY <1>3, <2>1 DEF DropsOnly
    <3> QED BY <1>4, <3>1, <3>2, OtherSame
  <2>7. InOrder'
    BY <1>4 DEF AccountInv, InOrder
  <2> QED BY <2>3, <2>4, <2>5, <2>6, <2>7 DEF AccountInv
<1> QED BY <1>5, <1>6

\* What is to be shown of a step of the handler or the limiter of client c that
\* leaves the queue alone.
LEMMA HandlerStep ==
  ASSUME AccountInv, NEW c \in Clients, UNCHANGED <<qpc, item, subQueues, delivered>>,
         \A d \in Clients : d # c => UNCHANGED Own(d) /\ DropsOnly(d, {}),
         IngestType', Hands(c)', Buffered(c)', Behind(c)', Places(c)'
  PROVE  AccountInv'
<1>1. ASSUME NEW d \in Clients, d # c
      PROVE  Hands(d)' /\ Buffered(d)' /\ Behind(d)' /\ Places(d)'
  BY <1>1, OtherSame
<1>2. InOrder'
  BY DEF AccountInv, InOrder
<1> QED BY <1>1, <1>2 DEF AccountInv

\* The same for a step that leaves all messages where they are.
LEMMA QuietStep ==
  ASSUME AccountInv, NEW c \in Clients,
         UNCHANGED <<qpc, item, subQueues, delivered, dropped, got, batch, messages, hold>>,
         \A d \in Clients : d # c => UNCHANGED Own(d),
         IngestType', Hands(c)', Buffered(c)'
  PROVE  AccountInv'
<1>1. \A d \in Clients : DropsOnly(d, {}) /\ QueueKeeps(d)
  BY DEF DropsOnly, QueueKeeps
<1>2. Ahead(c)' = Ahead(c)
  BY GatheredSame DEF Ahead
<1>3. Behind(c)' /\ Places(c)'
  BY <1>1, <1>2, KeepSame DEF AccountInv
<1> QED BY <1>1, <1>3, HandlerStep

\* A request that holds n messages.
LEMMA RecvListKeeps ==
  ASSUME AccountInv, NEW c \in Clients, NEW n \in 0 .. MaxMessages, RecvList(c, n)
  PROVE  AccountInv'
<1> DEFINE s == [i \in 1 .. n |-> i]
<1>1. IngestType /\ Hands(c) /\ Buffered(c) /\ Behind(c) /\ Places(c)
  BY DEF AccountInv
<1>2. /\ hpc[c] = "recv" /\ svc[c].mode = "list"
      /\ got' = Of(got, c, n) /\ hold' = Of(hold, c, s)
      /\ hpc' = Of(hpc, c, IF n = 0 THEN "done" ELSE "send")
      /\ reply' = IF n = 0 THEN Of(reply, c, "ok") ELSE reply
      /\ UNCHANGED <<queueVars, svc, bad, identity, limited, history>>
  BY DEF RecvList
<1>3. UNCHANGED <<qpc, item, subQueues, messages, lpc, batch, svc, identity, delivered, dropped>>
  BY <1>2 DEF queueVars, choice, limited, history
<1>4. /\ hold[c] = <<>> /\ messages[c] = <<>> /\ batch[c] = <<>> /\ got[c] = 0
      /\ lpc[c] = "none"
  BY <1>1, <1>2 DEF Hands
<1>n. n \in Nat
  BY IngestAssumption
<1>5. s \in Seq(Nat) /\ (n = 0 => s = <<>>) /\ (n # 0 => s # <<>>)
  <2>1. Len(s) = n /\ s \in Seq(Nat)
    BY <1>n
  <2> QED BY <1>n, <2>1
<1>6. /\ got'[c] = n /\ hold'[c] = s /\ hpc'[c] = (IF n = 0 THEN "done" ELSE "send")
      /\ n # 0 => reply'[c] = reply[c]
      /\ reply[c] # "ok"
  BY <1>1, <1>2 DEF IngestType, Of, Hands
<1>7. IngestType'
  <2>1. /\ got' \in [Clients -> 0 .. MaxMessages] /\ hold' \in [Clients -> Seq(Nat)]
        /\ reply' \in [Clients -> {"none", "ok", "error", "timeout"}]
        /\ hpc' \in [Clients -> {"recv", "send", "failsend", "buffer", "check", "signal",
                                 "stop", "done"}]
    <3> HIDE DEF s
    <3> QED BY <1>1, <1>2, <1>5 DEF IngestType, Of
  <2> QED BY <1>1, <1>3, <2>1 DEF IngestType
<1>8. \A d \in Clients : d # c => UNCHANGED Own(d) /\ DropsOnly(d, {})
  BY <1>1, <1>2, <1>3 DEF Own, Of, IngestType, DropsOnly
<1> HIDE DEF s
<1>9. Hands(c)' /\ Buffered(c)'
  BY <1>1, <1>2, <1>3, <1>4, <1>5, <1>6, IngestAssumption DEF Hands, Buffered
<1>10. Gathered(c) = <<>>
  <2>1. Once(got[c], ToSet(Ahead(c)), InQueues(c), Delivered(c), Dropped(c))
    BY <1>1 DEF Places
  <2>2. ToSet(Ahead(c)) = {}
    BY <1>4, <2>1 DEF Once
  <2>3. Ahead(c) = Gathered(c) /\ Gathered(c) \in Seq(Nat)
    BY <1>1, <1>4, AheadType, EmptyConcat DEF Ahead
  <2>4. DOMAIN Gathered(c) = {}
    BY <2>2, <2>3 DEF ToSet
  <2>5. Len(Gathered(c)) = 0
    BY <2>3, <2>4
  <2> QED BY <2>3, <2>5
<1>11. Ahead(c)' = s
  <2>1. Ahead(c)' = ((<<>> \o <<>>) \o <<>>) \o s
    BY <1>3, <1>4, <1>6, <1>10, GatheredSame DEF Ahead
  <2> QED BY <1>5, <2>1, EmptySet, EmptyConcat
<1>12. QueueKeeps(c) /\ DropsOnly(c, {})
  BY <1>3 DEF QueueKeeps, DropsOnly
<1>13. Behind(c)' /\ Places(c)'
  BY <1>1, <1>4, <1>6, <1>11, <1>12, <1>n, KeepList DEF s
<1> QED BY <1>3, <1>7, <1>8, <1>9, <1>13, HandlerStep

\* The end of a stream.
LEMMA FinishKeeps ==
  ASSUME AccountInv, NEW c \in Clients, NEW answer \in {"ok", "error"}, hpc[c] = "recv",
         svc[c].mode \in {"each", "collect", "limited", "http"}, Finish(c, answer)
  PROVE  AccountInv'
<1>1. IngestType /\ Hands(c) /\ Buffered(c) /\ Behind(c) /\ Places(c)
  BY DEF AccountInv
<1>2. UNCHANGED <<qpc, item, subQueues, messages, lpc, batch, svc, identity, delivered, got>>
  BY DEF Finish, queueVars, choice, limited
<1>3. /\ hpc'[c] \in {"stop", "done", "send", "failsend"} /\ hpc' = Of(hpc, c, hpc'[c])
      /\ reply' = reply \/ reply' = Of(reply, c, answer)
      /\ hpc'[c] \in {"stop"} <=> svc[c].mode = "limited"
      /\ hpc'[c] \in {"send", "failsend"} => svc[c].mode = "collect" /\ reply' = reply
      /\ hold' = IF hpc'[c] = "done" THEN Of(hold, c, <<>>) ELSE hold
  BY <1>1 DEF Finish, IngestType, Of
<1>4. \/ UNCHANGED dropped /\ (hpc'[c] = "done" => hold[c] = <<>>)
      \/ hpc'[c] = "done" /\ dropped' = dropped \cup Number(c, hold[c])
  BY <1>1, <1>3 DEF Finish, Hands, IngestType, Of
<1>5. IngestType'
  <2>1. hpc' \in [Clients -> {"recv", "send", "failsend", "buffer", "check", "signal",
                              "stop", "done"}]
    <3>1. PICK h \in {"stop", "done", "send", "failsend"} : hpc' = Of(hpc, c, h)
      BY <1>3
    <3> QED BY <1>1, <3>1 DEF IngestType, Of
  <2>2. reply' \in [Clients -> {"none", "ok", "error", "timeout"}]
    BY <1>1, <1>3 DEF IngestType, Of
  <2>3. hold' \in [Clients -> Seq(Nat)]
    BY <1>1, <1>3, EmptySet DEF IngestType, Of
  <2> QED BY <1>1, <1>2, <2>1, <2>2, <2>3 DEF IngestType
<1>6. \A d \in Clients : d # c => UNCHANGED Own(d) /\ DropsOnly(d, {})
  <2>1. \A d \in Clients : d # c => UNCHANGED Own(d)
    BY <1>1, <1>2, <1>3 DEF Own, Of, IngestType
  <2> QED BY <1>4, <2>1 DEF DropsOnly, Number
<1>7. Hands(c)' /\ Buffered(c)'
  <2>1. hold'[c] = IF hpc'[c] = "done" THEN <<>> ELSE hold[c]
    BY <1>1, <1>3 DEF IngestType, Of
  <2>2. svc[c].mode = "limited" => hold[c] = <<>>
    BY <1>1 DEF Hands
  <2>3. reply[c] # "ok"
    BY <1>1 DEF Hands
  <2>4. Hands(c)'
    BY <1>1, <1>2, <1>3, <2>1, <2>2, <2>3 DEF Hands
  <2>5. Buffered(c)'
    BY <1>1, <1>2, <1>3, IngestAssumption DEF Buffered, Hands, IngestType
  <2> QED BY <2>4, <2>5
<1>8. Behind(c)' /\ Places(c)'
  <2>1. QueueKeeps(c)
    BY <1>2 DEF QueueKeeps
  <2>2. CASE UNCHANGED dropped /\ (hpc'[c] = "done" => hold[c] = <<>>)
    <3>1. hold'[c] = hold[c]
      BY <1>1, <1>3, <2>2 DEF IngestType, Of
    <3>2. Ahead(c)' = Ahead(c)
      BY <1>2, <3>1, GatheredSame DEF Ahead
    <3> QED BY <1>1, <1>2, <2>1, <2>2, <3>2, KeepSame DEF DropsOnly
  <2>3. CASE hpc'[c] = "done" /\ dropped' = dropped \cup Number(c, hold[c])
    <3> DEFINE a == (Gathered(c) \o batch[c]) \o messages[c]
               m == hold[c]
               z == <<>>
    <3>1. a \in Seq(Nat) /\ m \in Seq(Nat) /\ z \in Seq(Nat)
      BY <1>1, AheadType, EmptySet
    <3>2. hold'[c] = z
      BY <1>1, <1>3, <2>3 DEF IngestType, Of
    <3>3. Ahead(c)' = a \o z /\ Ahead(c) = a \o m
      BY <1>2, <3>2, GatheredSame DEF Ahead
    <3>4. DropsOnly(c, ToSet(m))
      BY <2>3 DEF DropsOnly, Number
    <3>5. (a \o m) \o z = a \o m
      BY <3>1, ConcatSet, EmptyConcat
    <3> HIDE DEF a, m, z
    <3> QED BY <1>1, <1>2, <2>1, <3>1, <3>3, <3>4, <3>5, KeepDrop
  <2> QED BY <1>4, <2>2, <2>3
<1> QED BY <1>2, <1>5, <1>6, <1>7, <1>8, HandlerStep

\* The answer of the TimeoutHandler.
LEMMA TimeoutKeeps ==
  ASSUME AccountInv, NEW c \in Clients, Timeout(c)
  PROVE  AccountInv'
<1>1. IngestType /\ Hands(c) /\ Buffered(c)
  BY DEF AccountInv
<1>2. /\ UNCHANGED <<qpc, item, subQueues, delivered, dropped, got, batch, messages, hold>>
      /\ UNCHANGED <<svc, hpc, lpc, identity>> /\ reply' = Of(reply, c, "timeout")
  BY DEF Timeout, queueVars, choice, limited, history
<1>3. IngestType'
  <2>1. reply' \in [Clients -> {"none", "ok", "error", "timeout"}]
    BY <1>1, <1>2 DEF IngestType, Of
  <2> QED BY <1>1, <1>2, <2>1 DEF IngestType
<1>4. reply'[c] = "timeout"
  BY <1>1, <1>2 DEF IngestType, Of
<1>5. Hands(c)' /\ Buffered(c)'
  BY <1>1, <1>2, <1>4 DEF Hands, Buffered
<1>6. \A d \in Clients : d # c => UNCHANGED Own(d)
  BY <1>1, <1>2 DEF IngestType, Of, Own
<1> QED BY <1>2, <1>3, <1>5, <1>6, QuietStep

-----------------------------------------------------------------------------
\* An event is handed to the gatherer, which has none: it is ahead of all else.
LEMMA Gathers ==
  ASSUME GatherInv, IngestType, NEW c \in Clients, NEW m \in Seq(Nat), Gather(Packed(c, m))
  PROVE  /\ \A d : Gathered(d) = <<>>
         /\ Gathered(c)' = m /\ \A d : d # c => Gathered(d)' = <<>>
         /\ DOMAIN item' = Enqueuers
         /\ qpc'[Gatherer] # "idle" => item'[Gatherer] \in AllEvents
         /\ UNCHANGED subQueues
<1>1. /\ qpc[Gatherer] = "idle" /\ item' = [item EXCEPT ![Gatherer] = Packed(c, m)]
      /\ qpc' = [qpc EXCEPT ![Gatherer] = IF Partition = 1 THEN "put" ELSE "add"]
      /\ UNCHANGED subQueues
  BY DEF Gather, CallEnqueue
<1>2. DOMAIN qpc = Enqueuers /\ DOMAIN item = Enqueuers
  BY DEF GatherInv, SearchOK, IngestType
<1>3. item'[Gatherer] = Packed(c, m) /\ qpc'[Gatherer] \in {"put", "add"}
  BY <1>1, <1>2, GathererIs
<1>4. /\ Packed(c, m) \in AllEvents /\ Packed(c, m).client = c /\ Packed(c, m).msgs = m
  BY DEF Packed, AllEvents
<1>5. \A d : Gathered(d) = <<>>
  BY <1>1 DEF Gathered
<1>6. Gathered(c)' = m /\ \A d : d # c => Gathered(d)' = <<>>
  BY <1>3, <1>4 DEF Gathered
<1> QED BY <1>1, <1>2, <1>3, <1>4, <1>5, <1>6

\* What is to be shown of a step that hands an event of client c over.
LEMMA GathersStep ==
  ASSUME GatherInv, AccountInv, NEW c \in Clients, NEW m \in Seq(Nat),
         Gather(Packed(c, m)), UNCHANGED <<delivered, dropped, got>>,
         \A d \in Clients : d # c => UNCHANGED Own(d),
         IngestType', Hands(c)', Buffered(c)', Ahead(c)' = Ahead(c)
  PROVE  AccountInv'
<1>1. /\ \A d : Gathered(d) = <<>>
      /\ \A d : d # c => Gathered(d)' = <<>>
      /\ UNCHANGED subQueues
  BY Gathers DEF AccountInv
<1>2. ASSUME NEW d \in Clients
      PROVE  Hands(d)' /\ Buffered(d)' /\ Behind(d)' /\ Places(d)'
  <2>1. Ahead(d)' = Ahead(d)
    <3>1. CASE d # c
      BY <1>1, <3>1 DEF Ahead, Own
    <3> QED BY <3>1
  <2>2. Behind(d)' /\ Places(d)'
    BY <1>1, <2>1, KeepSame DEF AccountInv, QueueKeeps, DropsOnly
  <2>3. Hands(d)' /\ Buffered(d)'
    <3>1. CASE d # c
      BY <3>1, OwnSame DEF AccountInv
    <3> QED BY <3>1
  <2> QED BY <2>2, <2>3
<1>3. InOrder'
  BY <1>1 DEF AccountInv, InOrder
<1> QED BY <1>2, <1>3 DEF AccountInv

\* The head and the tail of what a handler holds are what it holds.
LEMMA HeadTail ==
  ASSUME NEW s \in Seq(Nat), s # <<>>
  PROVE  /\ <<Head(s)>> \in Seq(Nat) /\ Tail(s) \in Seq(Nat)
         /\ <<Head(s)>> \o Tail(s) = s
<1>1. Head(s) \in Nat /\ Tail(s) \in Seq(Nat)
  OBVIOUS
<1>2. <<Head(s)>> \o Tail(s) = s
  BY ConcatSimplifications, HeadTailProperties
<1> QED BY <1>1, <1>2

\* The handler sends.
LEMMA SendKeeps ==
  ASSUME GatherInv, AccountInv, NEW c \in Clients, Send(c)
  PROVE  AccountInv'
<1> DEFINE list == svc[c].mode = "list"
           out == IF list THEN <<Head(hold[c])>> ELSE hold[c]
           rest == IF list THEN Tail(hold[c]) ELSE <<>>
<1>1. IngestType /\ Hands(c) /\ Buffered(c)
  BY DEF AccountInv
<1>2. /\ hpc[c] \in {"send", "failsend"} /\ Gather(Packed(c, out))
      /\ hold' = Of(hold, c, rest)
      /\ hpc' = Of(hpc, c, CASE svc[c].mode = "each" -> "recv"
                             [] rest # <<>> -> "send"
                             [] OTHER -> "done")
      /\ reply' = IF hpc'[c] = "done" /\ reply[c] = "none"
                  THEN Of(reply, c, IF hpc[c] = "send" THEN "ok" ELSE "error") ELSE reply
      /\ UNCHANGED <<svc, got, bad, identity, limited, dropped, delivered>>
  BY DEF Send
<1>3. UNCHANGED <<svc, got, identity, messages, lpc, batch, dropped, delivered>>
  BY <1>2 DEF limited
<1>4. hold[c] \in Seq(Nat) /\ (list => hold[c] # <<>>)
  BY <1>1, <1>2 DEF IngestType, Hands
<1>5. out \in Seq(Nat) /\ rest \in Seq(Nat) /\ out \o rest = hold[c]
  <2>1. CASE list
    BY <1>4, <2>1, HeadTail
  <2>2. CASE ~list
    BY <1>4, <2>2, EmptySet, EmptyConcat
  <2> QED BY <2>1, <2>2
<1>l. /\ svc[c].mode # "limited" /\ messages[c] = <<>> /\ batch[c] = <<>> /\ lpc[c] = "none"
      /\ reply[c] # "ok"
  BY <1>1, <1>2 DEF Hands
<1>r. svc[c].mode # "list" => rest = <<>>
  OBVIOUS
<1> HIDE DEF list, out, rest
<1>h. PICK h \in {"recv", "send", "done"} :
        /\ hpc' = Of(hpc, c, h)
        /\ svc[c].mode = "each" => h = "recv"
        /\ svc[c].mode # "each" /\ rest # <<>> => h = "send"
        /\ svc[c].mode # "each" /\ rest = <<>> => h = "done"
  <2> DEFINE k == CASE svc[c].mode = "each" -> "recv"
                    [] rest # <<>> -> "send"
                    [] OTHER -> "done"
  <2>1. hpc' = Of(hpc, c, k)
    BY <1>2
  <2>2. /\ k \in {"recv", "send", "done"}
        /\ svc[c].mode = "each" => k = "recv"
        /\ svc[c].mode # "each" /\ rest # <<>> => k = "send"
        /\ svc[c].mode # "each" /\ rest = <<>> => k = "done"
    BY <1>r
  <2> HIDE DEF k
  <2> QED BY <2>1, <2>2
<1>6. hold'[c] = rest /\ hpc'[c] = h
  BY <1>1, <1>2, <1>h DEF IngestType, Of
<1>7. /\ \A d : Gathered(d) = <<>>
      /\ Gathered(c)' = out
      /\ DOMAIN item' = Enqueuers
      /\ qpc'[Gatherer] # "idle" => item'[Gatherer] \in AllEvents
      /\ UNCHANGED subQueues
  BY <1>1, <1>2, <1>5, Gathers
<1>8. IngestType'
  <2>1. /\ hold' \in [Clients -> Seq(Nat)]
        /\ hpc' \in [Clients -> {"recv", "send", "failsend", "buffer", "check", "signal",
                                 "stop", "done"}]
    BY <1>1, <1>2, <1>5, <1>h DEF IngestType, Of
  <2>2. reply' \in [Clients -> {"none", "ok", "error", "timeout"}]
    BY <1>1, <1>2 DEF IngestType, Of
  <2> QED BY <1>1, <1>3, <1>7, <2>1, <2>2 DEF IngestType
<1>9. \A d \in Clients : d # c => UNCHANGED Own(d)
  BY <1>1, <1>2, <1>3 DEF Own, Of, IngestType
<1>10. Hands(c)'
  <2>1. reply'[c] = "ok" => hpc'[c] = "done"
    BY <1>1, <1>2, <1>l DEF IngestType, Of
  <2> QED BY <1>1, <1>3, <1>6, <1>h, <1>l, <1>r, <2>1 DEF Hands
<1>11. Buffered(c)'
  <2>1. Len(messages[c]) = 0
    BY <1>l
  <2> QED BY <1>3, <1>l, <2>1, IngestAssumption DEF Buffered
<1>12. Ahead(c)' = Ahead(c)
  <2>1. Ahead(c) = ((<<>> \o <<>>) \o <<>>) \o hold[c]
    BY <1>7, <1>l DEF Ahead
  <2>2. Ahead(c)' = ((out \o <<>>) \o <<>>) \o rest
    BY <1>3, <1>6, <1>7, <1>l DEF Ahead
  <2>3. Ahead(c) = hold[c]
    BY <1>4, <2>1, EmptySet, EmptyConcat
  <2>4. Ahead(c)' = out \o rest
    BY <1>5, <2>2, EmptyConcat
  <2> QED BY <1>5, <2>3, <2>4
<1> QED BY <1>2, <1>3, <1>5, <1>8, <1>9, <1>10, <1>11, <1>12, GathersStep

\* The limiter sends a batch.
LEMMA FlushSendKeeps ==
  ASSUME GatherInv, AccountInv, NEW c \in Clients, FlushSend(c)
  PROVE  AccountInv'
<1>1. IngestType /\ Hands(c) /\ Buffered(c)
  BY DEF AccountInv
<1>2. /\ lpc[c] \in {"send", "lastsend"} /\ Gather(Packed(c, batch[c]))
      /\ batch' = Of(batch, c, <<>>)
      /\ lpc' = Of(lpc, c, IF lpc[c] = "send" THEN "select" ELSE "exit")
      /\ UNCHANGED <<svc, hpc, got, hold, reply, identity, messages, dropped, delivered>>
  BY DEF FlushSend, handler
<1>3. batch[c] \in Seq(Nat) /\ messages[c] \in Seq(Nat) /\ hold[c] \in Seq(Nat)
  BY <1>1 DEF IngestType
<1>4. batch'[c] = <<>> /\ lpc'[c] \in {"select", "exit"}
  BY <1>1, <1>2 DEF IngestType, Of
<1>5. /\ \A d : Gathered(d) = <<>>
      /\ Gathered(c)' = batch[c]
      /\ DOMAIN item' = Enqueuers
      /\ qpc'[Gatherer] # "idle" => item'[Gatherer] \in AllEvents
      /\ UNCHANGED subQueues
  BY <1>1, <1>2, <1>3, Gathers
<1>6. IngestType'
  <2>1. batch' \in [Clients -> Seq(Nat)]
    BY <1>1, <1>2, EmptySet DEF IngestType, Of
  <2>2. lpc' \in [Clients -> {"none", "select", "flush", "send", "last", "lastsend", "exit"}]
    BY <1>1, <1>2 DEF IngestType, Of
  <2> QED BY <1>1, <1>2, <1>5, <2>1, <2>2 DEF IngestType
<1>7. \A d \in Clients : d # c => UNCHANGED Own(d)
  BY <1>1, <1>2 DEF Own, Of, IngestType
<1>8. Hands(c)' /\ Buffered(c)'
  BY <1>1, <1>2, <1>4 DEF Hands, Buffered
<1>9. Ahead(c)' = Ahead(c)
  <2>1. /\ Ahead(c) = ((<<>> \o batch[c]) \o messages[c]) \o hold[c]
        /\ Ahead(c)' = ((batch[c] \o <<>>) \o messages[c]) \o hold[c]
    BY <1>2, <1>4, <1>5 DEF Ahead
  <2> QED BY <1>3, <2>1, EmptyConcat
<1> QED BY <1>2, <1>3, <1>6, <1>7, <1>8, <1>9, GathersStep

-----------------------------------------------------------------------------
\* A message goes into the buffer of its stream.
LEMMA BufferKeeps ==
  ASSUME AccountInv, NEW c \in Clients, Buffer(c)
  PROVE  AccountInv'
<1>1. IngestType /\ Hands(c) /\ Buffered(c) /\ Behind(c) /\ Places(c)
  BY DEF AccountInv
<1>2. /\ hpc[c] = "buffer" /\ messages' = Of(messages, c, messages[c] \o hold[c])
      /\ hold' = Of(hold, c, <<>>) /\ hpc' = Of(hpc, c, "check")
      /\ UNCHANGED <<qpc, item, subQueues, svc, got, reply, identity, lpc, batch, dropped,
                     delivered>>
  BY DEF Buffer, queueVars, choice, history
<1>3. messages[c] \in Seq(Nat) /\ hold[c] \in Seq(Nat) /\ messages[c] \o hold[c] \in Seq(Nat)
  BY <1>1, ConcatSet DEF IngestType
<1>4. /\ messages'[c] = messages[c] \o hold[c] /\ hold'[c] = <<>> /\ hpc'[c] = "check"
      /\ svc[c].mode = "limited" /\ Len(hold[c]) = 1
      /\ svc[c].identity = "first" => identity[c]
  BY <1>1, <1>2 DEF IngestType, Of, Hands
<1>5. IngestType'
  <2>1. /\ messages' \in [Clients -> Seq(Nat)] /\ hold' \in [Clients -> Seq(Nat)]
        /\ hpc' \in [Clients -> {"recv", "send", "failsend", "buffer", "check", "signal",
                                 "stop", "done"}]
    BY <1>1, <1>2, <1>3, EmptySet DEF IngestType, Of
  <2> QED BY <1>1, <1>2, <2>1 DEF IngestType
<1>6. \A d \in Clients : d # c => UNCHANGED Own(d) /\ DropsOnly(d, {})
  BY <1>1, <1>2 DEF Own, Of, IngestType, DropsOnly
<1>7. Hands(c)'
  BY <1>1, <1>2, <1>4 DEF Hands
<1>8. Buffered(c)'
  <2> DEFINE n == Len(messages[c])
             k == Len(messages[c] \o hold[c])
  <2>a. k = n + Len(hold[c])
    BY <1>3, ConcatProperties, Zenon
  <2>1. k = n + 1 /\ n \in Nat
    BY <1>3, <1>4, <2>a
  <2>2. LimitCount \in Nat
    BY IngestAssumption
  <2>3. IF lpc[c] \in {"flush", "last"} THEN n <= LimitCount ELSE n < LimitCount
    BY <1>1, <1>2 DEF Buffered
  <2>4. Len(messages'[c]) = k
    BY <1>4
  <2> HIDE DEF n, k
  <2> QED BY <1>2, <1>4, <2>1, <2>2, <2>3, <2>4 DEF Buffered
<1>9. Behind(c)' /\ Places(c)'
  <2>1. Ahead(c)' = Ahead(c)
    <3> DEFINE a == Gathered(c) \o batch[c]
               m == messages[c]
               h == hold[c]
    <3>1. a \in Seq(Nat) /\ m \in Seq(Nat) /\ h \in Seq(Nat) /\ a \o m \in Seq(Nat)
      BY <1>1, AheadType
    <3>2. Ahead(c) = (a \o m) \o h /\ Ahead(c)' = (a \o (m \o h)) \o <<>>
      BY <1>2, <1>4, GatheredSame DEF Ahead
    <3> HIDE DEF a, m, h
    <3>3. (a \o m) \o h = a \o (m \o h)
      BY <3>1, Regroup, Zenon
    <3>4. (a \o m) \o h \in Seq(Nat)
      BY <3>1, ConcatSet
    <3> QED BY <3>2, <3>3, <3>4, EmptyConcat
  <2>2. QueueKeeps(c) /\ DropsOnly(c, {})
    BY <1>2 DEF QueueKeeps, DropsOnly
  <2> QED BY <1>1, <1>2, <2>1, <2>2, KeepSame
<1> QED BY <1>2, <1>5, <1>6, <1>7, <1>8, <1>9, HandlerStep

\* The handler looks at how full the buffer is.
LEMMA CheckKeeps ==
  ASSUME AccountInv, NEW c \in Clients, Check(c)
  PROVE  AccountInv'
<1>1. IngestType /\ Hands(c) /\ Buffered(c)
  BY DEF AccountInv
<1>2. /\ UNCHANGED <<qpc, item, subQueues, delivered, dropped, got, batch, messages, hold>>
      /\ UNCHANGED <<svc, reply, lpc, identity>> /\ hpc[c] = "check"
      /\ hpc' = Of(hpc, c, IF Len(messages[c]) >= LimitCount THEN "signal" ELSE "recv")
  BY DEF Check, queueVars, choice, limited, history
<1>3. IngestType'
  <2>1. hpc' \in [Clients -> {"recv", "send", "failsend", "buffer", "check", "signal",
                              "stop", "done"}]
    BY <1>1, <1>2 DEF IngestType, Of
  <2> QED BY <1>1, <1>2, <2>1 DEF IngestType
<1>4. hpc'[c] = IF Len(messages[c]) >= LimitCount THEN "signal" ELSE "recv"
  BY <1>1, <1>2 DEF IngestType, Of
<1>5. Hands(c)'
  BY <1>1, <1>2, <1>4 DEF Hands
<1>6. Buffered(c)'
  <2>1. Len(messages[c]) \in Nat /\ LimitCount \in Nat
    BY <1>1, IngestAssumption DEF IngestType
  <2> QED BY <1>1, <1>2, <1>4, <2>1 DEF Buffered
<1>7. \A d \in Clients : d # c => UNCHANGED Own(d)
  BY <1>1, <1>2 DEF IngestType, Of, Own
<1> QED BY <1>2, <1>3, <1>5, <1>6, <1>7, QuietStep

\* The limiter is signalled, its timer fires, or its stream has ended.
LEMMA SelectKeeps ==
  ASSUME AccountInv, NEW c \in Clients, Signal(c) \/ Tick(c) \/ Stop(c)
  PROVE  AccountInv'
<1>1. IngestType /\ Hands(c) /\ Buffered(c)
  BY DEF AccountInv
<1>2. PICK from \in {"recv", "send", "failsend", "buffer", "check", "signal", "stop", "done"},
           to \in {"flush", "last"} :
        /\ Select(c, from, to)
        /\ from = hpc[c] \/ (hpc[c] = "signal" /\ from = "recv")
             \/ (hpc[c] = "stop" /\ from = "done")
  BY <1>1 DEF Signal, Tick, Stop, IngestType
<1>3. /\ UNCHANGED <<qpc, item, subQueues, delivered, dropped, got, batch, messages, hold>>
      /\ UNCHANGED <<svc, reply, identity>> /\ lpc[c] = "select"
      /\ lpc' = Of(lpc, c, to) /\ hpc' = Of(hpc, c, from)
  BY <1>2 DEF Select, queueVars, choice, history
<1>4. IngestType'
  <2>1. /\ hpc' \in [Clients -> {"recv", "send", "failsend", "buffer", "check", "signal",
                                 "stop", "done"}]
        /\ lpc' \in [Clients -> {"none", "select", "flush", "send", "last", "lastsend", "exit"}]
    BY <1>1, <1>3 DEF IngestType, Of
  <2> QED BY <1>1, <1>3, <2>1 DEF IngestType
<1>5. hpc'[c] = from /\ lpc'[c] = to
  BY <1>1, <1>3 DEF IngestType, Of
<1>6. Hands(c)'
  BY <1>1, <1>2, <1>3, <1>5 DEF Hands
<1>7. Buffered(c)'
  <2>1. Len(messages[c]) \in Nat /\ LimitCount \in Nat
    BY <1>1, IngestAssumption DEF IngestType
  <2> QED BY <1>1, <1>2, <1>3, <1>5, <2>1 DEF Buffered
<1>8. \A d \in Clients : d # c => UNCHANGED Own(d)
  BY <1>1, <1>3 DEF IngestType, Of, Own
<1> QED BY <1>3, <1>4, <1>6, <1>7, <1>8, QuietStep

\* The limiter packs what is in the buffer, or drops it.
LEMMA FlushKeeps ==
  ASSUME AccountInv, NEW c \in Clients, Flush(c)
  PROVE  AccountInv'
<1>1. IngestType /\ Hands(c) /\ Buffered(c) /\ Behind(c) /\ Places(c)
  BY DEF AccountInv
<1>2. /\ lpc[c] \in {"flush", "last"}
      /\ UNCHANGED <<qpc, item, subQueues, svc, hpc, got, hold, reply, identity, delivered>>
  BY DEF Flush, queueVars, choice, handler
<1>3. /\ batch[c] = <<>> /\ svc[c].mode = "limited" /\ messages[c] \in Seq(Nat)
      /\ hold[c] \in Seq(Nat)
      /\ svc[c].identity = "first" /\ messages[c] # <<>> => identity[c]
  BY <1>1, <1>2 DEF Hands, IngestType
<1>4. PICK to \in {"select", "exit", "send", "lastsend"}, b \in Seq(Nat) :
        /\ lpc' = Of(lpc, c, to) /\ messages' = Of(messages, c, <<>>)
        /\ batch' = Of(batch, c, b)
        /\ \/ to \in {"send", "lastsend"} /\ b = messages[c] /\ UNCHANGED dropped
           \/ b = <<>> /\ dropped' = dropped \cup Number(c, messages[c])
  <2>1. CASE messages[c] = <<>>
    <3>1. /\ lpc' = Of(lpc, c, IF lpc[c] = "flush" THEN "select" ELSE "exit")
          /\ UNCHANGED <<messages, batch, dropped>>
      BY <2>1 DEF Flush
    <3>2. messages = Of(messages, c, <<>>) /\ batch = Of(batch, c, <<>>)
      BY <1>1, <1>3, <2>1 DEF IngestType, Of
    <3>3. Number(c, messages[c]) = {}
      BY <2>1, EmptySet DEF Number
    <3> QED BY <3>1, <3>2, <3>3, EmptySet
  <2>2. CASE messages[c] # <<>> /\ svc[c].identity = "first" /\ messages[c][1] \in bad[c]
    <3>1. /\ lpc' = Of(lpc, c, IF lpc[c] = "flush" THEN "select" ELSE "exit")
          /\ messages' = Of(messages, c, <<>>) /\ UNCHANGED batch
          /\ dropped' = dropped \cup Number(c, messages[c])
      BY <1>3, <2>2 DEF Flush
    <3>2. batch = Of(batch, c, <<>>)
      BY <1>1, <1>3 DEF IngestType, Of
    <3> QED BY <3>1, <3>2, EmptySet
  <2>3. CASE messages[c] # <<>> /\ ~(svc[c].identity = "first" /\ messages[c][1] \in bad[c])
    <3>1. /\ lpc' = Of(lpc, c, IF lpc[c] = "flush" THEN "send" ELSE "lastsend")
          /\ batch' = Of(batch, c, messages[c]) /\ messages' = Of(messages, c, <<>>)
          /\ UNCHANGED dropped
      BY <1>3, <2>3 DEF Flush
    <3> QED BY <1>3, <3>1
  <2> QED BY <2>1, <2>2, <2>3
<1>5. lpc'[c] = to /\ messages'[c] = <<>> /\ batch'[c] = b
  BY <1>1, <1>4 DEF IngestType, Of
<1>6. IngestType'
  <2>1. /\ messages' \in [Clients -> Seq(Nat)] /\ batch' \in [Clients -> Seq(Nat)]
        /\ lpc' \in [Clients -> {"none", "select", "flush", "send", "last", "lastsend", "exit"}]
    BY <1>1, <1>4, EmptySet DEF IngestType, Of
  <2> QED BY <1>1, <1>2, <2>1 DEF IngestType
<1>7. \A d \in Clients : d # c => UNCHANGED Own(d) /\ DropsOnly(d, {})
  <2>1. \A d \in Clients : d # c => UNCHANGED Own(d)
    BY <1>1, <1>2, <1>4 DEF Own, Of, IngestType
  <2> QED BY <1>4, <2>1 DEF DropsOnly, Number
<1>8. Hands(c)'
  BY <1>1, <1>2, <1>3, <1>4, <1>5 DEF Hands
<1>9. Buffered(c)'
  <2>1. Len(messages'[c]) = 0
    BY <1>5
  <2> QED BY <1>4, <1>5, <2>1, IngestAssumption DEF Buffered
<1>10. Behind(c)' /\ Places(c)'
  <2> DEFINE g == Gathered(c)
             m == messages[c]
             h == hold[c]
             z == <<>>
  <2>1. g \in Seq(Nat) /\ m \in Seq(Nat) /\ h \in Seq(Nat) /\ z \in Seq(Nat)
    BY <1>1, AheadType, EmptySet
  <2>2. Ahead(c) = ((g \o z) \o m) \o h /\ Ahead(c)' = ((g \o b) \o z) \o h
    BY <1>2, <1>3, <1>5, GatheredSame DEF Ahead
  <2>3. \A s \in Seq(Nat) : s \o z = s
    BY EmptyConcat
  <2>4. QueueKeeps(c)
    BY <1>2 DEF QueueKeeps
  <2>5. CASE b = m /\ UNCHANGED dropped
    <3>1. g \o m \in Seq(Nat)
      BY <2>1, ConcatSet
    <3>2. Ahead(c)' = Ahead(c)
      <4> HIDE DEF g, m, h, z
      <4> QED BY <2>1, <2>2, <2>3, <2>5, <3>1
    <3> QED BY <1>1, <1>2, <2>4, <2>5, <3>2, KeepSame DEF DropsOnly
  <2>6. CASE b = <<>> /\ dropped' = dropped \cup Number(c, m)
    <3>1. DropsOnly(c, ToSet(m))
      BY <2>6 DEF DropsOnly, Number
    <3>2. b = z
      BY <2>6
    <3> HIDE DEF g, m, h, z
    <3>3. Ahead(c) = (g \o m) \o h /\ Ahead(c)' = g \o h
      BY <2>1, <2>2, <2>3, <3>2
    <3> QED BY <1>1, <1>2, <2>1, <2>4, <3>1, <3>3, KeepDrop
  <2> QED BY <1>4, <2>5, <2>6
<1> QED BY <1>2, <1>6, <1>7, <1>8, <1>9, <1>10, HandlerStep

-----------------------------------------------------------------------------
\* What is to be shown of a step of the gatherer or a consumer.
LEMMA QueueStep ==
  ASSUME AccountInv, UNCHANGED <<handler, limited>>, IngestType', InOrder',
         \A d \in Clients : Behind(d)' /\ Places(d)'
  PROVE  AccountInv'
<1>1. ASSUME NEW d \in Clients PROVE Hands(d)' /\ Buffered(d)'
  <2>1. UNCHANGED Own(d)
    BY DEF handler, limited, Own
  <2> QED BY <2>1, OwnSame DEF AccountInv
<1> QED BY <1>1 DEF AccountInv

\* The gatherer looks for a partition, or is refused.
LEMMA SearchKeeps ==
  ASSUME AccountInv, UNCHANGED <<handler, limited, dropped, delivered, subQueues, item>>,
         DOMAIN qpc = Enqueuers,
         qpc[Gatherer] \notin {"idle", "accepted"}, qpc'[Gatherer] \notin {"idle", "accepted"}
  PROVE  AccountInv'
<1>1. IngestType'
  BY DEF AccountInv, IngestType, handler, limited
<1>2. InOrder'
  BY DEF AccountInv, InOrder
<1>3. ASSUME NEW d \in Clients PROVE Behind(d)' /\ Places(d)'
  <2>1. Gathered(d)' = Gathered(d)
    BY DEF Gathered
  <2>2. Ahead(d)' = Ahead(d) /\ got'[d] = got[d]
    BY <2>1 DEF Ahead, handler, limited
  <2> QED BY <2>2, KeepSame DEF AccountInv, QueueKeeps, DropsOnly
<1> QED BY <1>1, <1>2, <1>3, QueueStep

\* The event gets into a sub-queue.
LEMMA PutKeeps ==
  ASSUME GatherInv, AccountInv, UNCHANGED <<handler, limited, dropped, delivered>>,
         Put(Gatherer), ~Refuses(part[Gatherer])
  PROVE  AccountInv'
<1> DEFINE p == part[Gatherer]
           e == item[Gatherer]
<1>1. IngestType /\ InOrder /\ \A d \in Clients : Behind(d) /\ Places(d)
  BY DEF AccountInv
<1>2. /\ qpc[Gatherer] = "put" /\ p \in Partitions
      /\ qpc'[Gatherer] = "accepted" /\ UNCHANGED item
      /\ subQueues' = [subQueues EXCEPT ![p] = Append(@, e)]
  BY GathererIs DEF Put, GatherInv, SearchOK
<1>3. UNCHANGED <<got, batch, messages, hold>>
  BY DEF handler, limited
<1>a. e \in AllEvents
  BY <1>1, <1>2 DEF IngestType
<1>4. PICK c \in Clients : c = e.client
  BY <1>a DEF AllEvents
<1>m. e.msgs \in Seq(Nat)
  BY <1>a DEF AllEvents
<1>5. Puts(p, e)
  BY <1>2, <1>3 DEF Puts
<1>6. /\ Gathered(c) = e.msgs /\ \A d : d # c => Gathered(d) = <<>>
      /\ \A d : Gathered(d)' = <<>>
  BY <1>2, <1>4 DEF Gathered
<1>7. IngestType'
  <2>1. subQueues' \in [Partitions -> Seq(AllEvents)]
    <3>1. Append(subQueues[p], e) \in Seq(AllEvents)
      <4> DEFINE E == AllEvents
                 s == subQueues[p]
      <4>1. s \in Seq(E) /\ e \in E
        BY <1>1, <1>2, <1>a DEF IngestType
      <4> HIDE DEF E, s, e
      <4>2. Append(s, e) \in Seq(E)
        BY <4>1
      <4> QED BY <4>2 DEF E, s
    <3> QED BY <1>1, <1>2, <3>1 DEF IngestType
  <2> QED BY <1>1, <1>2, <1>a, <2>1 DEF IngestType, handler, limited
<1> DEFINE z == Cat(Cat(batch[c], messages[c]), hold[c])
           b == batch[c]
           m == messages[c]
           h == hold[c]
           x == e.msgs
           o == <<>>
<1>8. /\ b \in Seq(Nat) /\ m \in Seq(Nat) /\ h \in Seq(Nat) /\ x \in Seq(Nat)
      /\ o \in Seq(Nat)
  BY <1>1, <1>m, EmptySet DEF IngestType
<1>9. /\ z = Cat(Cat(b, m), h) /\ Ahead(c) = Cat(Cat(Cat(x, b), m), h)
      /\ Ahead(c)' = Cat(Cat(Cat(o, b), m), h)
  BY <1>3, <1>6 DEF Ahead, Cat
<1>10. z \in Seq(Nat) /\ Ahead(c) = (o \o x) \o z /\ Ahead(c)' = o \o z
  <2> HIDE DEF b, m, h, x, z
  <2>1. z \in Seq(Nat) /\ Ahead(c) = Cat(Cat(<<>>, x), z) /\ Ahead(c)' = Cat(<<>>, z)
    BY <1>8, <1>9, FrontFirst
  <2> QED BY <2>1 DEF Cat
<1>11. InOrder'
  <2>1. Ahead(e.client) = (<<>> \o e.msgs) \o z /\ Behind(e.client)
    BY <1>1, <1>4, <1>10
  <2> HIDE DEF z, e, p
  <2> QED BY <1>1, <1>2, <1>a, <1>5, <1>10, <2>1, PutInOrder
<1>12. ASSUME NEW d \in Clients PROVE Behind(d)' /\ Places(d)'
  <2>1. CASE d = c
    <3> HIDE DEF z, e, p
    <3>1. c = e.client /\ Behind(c) /\ Places(c)
      BY <1>1, <1>4
    <3> QED BY <1>1, <1>2, <1>a, <1>5, <1>10, <2>1, <3>1, KeepPut DEF o, x
  <2>2. CASE d # c
    <3>1. Ahead(d)' = Ahead(d)
      BY <1>3, <1>6, <2>2 DEF Ahead
    <3> QED BY <1>1, <1>2, <1>a, <1>4, <1>5, <2>2, <3>1, KeepPutOther
  <2> QED BY <2>1, <2>2
<1> QED BY <1>7, <1>11, <1>12, QueueStep

\* The steps of Enqueue.
LEMMA EnqueuingKeeps ==
  ASSUME GatherInv, AccountInv, Enqueuing
  PROVE  AccountInv'
<1> DEFINE g == Gatherer
<1>1. UNCHANGED <<handler, limited, dropped, delivered>> /\ DOMAIN qpc = Enqueuers
  BY DEF Enqueuing, history, GatherInv, SearchOK
<1>2. CASE Increment(g) \/ Swap(g) \/ CheckFull(g)
  <2>1. UNCHANGED <<subQueues, item>>
    BY <1>2 DEF Increment, Swap, CheckFull
  <2>2. qpc[g] \in {"add", "swap", "check"}
    BY <1>2 DEF Increment, Swap, CheckFull
  <2>3. qpc'[g] \in {"add", "swap", "check", "put", "failed"}
    BY <1>1, <1>2, GathererIs DEF Increment, Swap, CheckFull
  <2> QED BY <1>1, <2>1, <2>2, <2>3, SearchKeeps
<1>3. CASE Put(g) /\ Refuses(part[g])
  <2>1. UNCHANGED <<subQueues, item>> /\ qpc[g] = "put" /\ qpc'[g] = "failed"
    BY <1>1, <1>3, GathererIs DEF Put
  <2> QED BY <1>1, <2>1, SearchKeeps
<1>4. CASE Put(g) /\ ~Refuses(part[g])
  BY <1>1, <1>4, PutKeeps
<1> QED BY <1>2, <1>3, <1>4 DEF Enqueuing, Enqueue

\* Enqueue returns; what was refused is dropped.
LEMMA EnqueuedKeeps ==
  ASSUME GatherInv, AccountInv, Enqueued
  PROVE  AccountInv'
<1> DEFINE g == Gatherer
           e == item[Gatherer]
           c == item[Gatherer].client
<1>1. IngestType /\ InOrder /\ \A d \in Clients : Behind(d) /\ Places(d)
  BY DEF AccountInv
<1>2. /\ qpc[g] \in {"accepted", "failed"} /\ qpc'[g] = "idle" /\ UNCHANGED subQueues
      /\ DOMAIN item' = Enqueuers
      /\ dropped' = IF qpc[g] = "failed" THEN dropped \cup Number(e.client, e.msgs) ELSE dropped
      /\ UNCHANGED <<handler, limited, delivered>>
  BY <1>1, GathererIs DEF Enqueued, Return, GatherInv, SearchOK, IngestType
<1>3. UNCHANGED <<got, batch, messages, hold>>
  BY <1>2 DEF handler, limited
<1>4. e \in AllEvents /\ c \in Clients /\ e.msgs \in Seq(Nat)
  BY <1>1, <1>2 DEF IngestType, AllEvents
<1>5. IngestType'
  BY <1>1, <1>2 DEF IngestType, handler, limited
<1>6. InOrder'
  BY <1>1, <1>2 DEF InOrder
<1>7. \A d : Gathered(d)' = <<>>
  BY <1>2 DEF Gathered
<1>8. ASSUME NEW d \in Clients PROVE Behind(d)' /\ Places(d)'
  <2>1. QueueKeeps(d) /\ got'[d] = got[d]
    BY <1>2, <1>3 DEF QueueKeeps
  <2>2. CASE qpc[g] = "accepted" \/ d # c
    <3>1. Gathered(d) = <<>>
      BY <2>2 DEF Gathered
    <3>2. Ahead(d)' = Ahead(d)
      BY <1>3, <1>7, <3>1 DEF Ahead
    <3>3. DropsOnly(d, {})
      BY <1>2, <2>2 DEF DropsOnly, Number
    <3> QED BY <1>1, <2>1, <3>2, <3>3, KeepSame
  <2>3. CASE qpc[g] = "failed" /\ d = c
    <3> DEFINE b == batch[d]
               m == messages[d]
               h == hold[d]
               x == e.msgs
               o == <<>>
               z == Cat(Cat(b, m), h)
    <3>1. /\ b \in Seq(Nat) /\ m \in Seq(Nat) /\ h \in Seq(Nat) /\ x \in Seq(Nat)
          /\ o \in Seq(Nat)
      BY <1>1, <1>4, EmptySet DEF IngestType
    <3>2. /\ Ahead(d) = Cat(Cat(Cat(x, b), m), h)
          /\ Ahead(d)' = Cat(Cat(Cat(o, b), m), h)
      BY <1>3, <1>7, <2>3 DEF Ahead, Gathered, Cat
    <3>3. DropsOnly(d, ToSet(x))
      BY <1>2, <2>3 DEF DropsOnly, Number
    <3> HIDE DEF b, m, h, x, o
    <3>a. z \in Seq(Nat) /\ Ahead(d) = Cat(Cat(<<>>, x), z) /\ Ahead(d)' = Cat(<<>>, z)
      BY <3>1, <3>2, FrontFirst DEF o
    <3>4. z \in Seq(Nat) /\ Ahead(d) = (o \o x) \o z /\ Ahead(d)' = o \o z
      <4> HIDE DEF z
      <4> QED BY <3>a DEF Cat, o
    <3> HIDE DEF z
    <3> QED BY <1>1, <2>1, <3>1, <3>3, <3>4, KeepDrop
  <2> QED BY <1>2, <2>2, <2>3
<1> QED BY <1>2, <1>5, <1>6, <1>8, QueueStep

\* A consumer takes an event.
LEMMA ConsumeKeeps ==
  ASSUME AccountInv, NEW p \in Partitions, ConsumeQueue(p)
  PROVE  AccountInv'
<1>1. IngestType /\ InOrder /\ \A d \in Clients : Behind(d) /\ Places(d)
  BY DEF AccountInv
<1>2. UNCHANGED <<handler, limited, dropped, got, batch, messages, hold, qpc, item>>
  BY DEF ConsumeQueue, Dequeue, choice, handler, limited
<1>3. Takes(p)
  BY <1>2 DEF ConsumeQueue, Dequeue, Takes, Bumped
<1>4. /\ Head(subQueues[p]) = subQueues[p][1] /\ subQueues[p][1] \in AllEvents
  BY <1>1, <1>3, TakesAt
<1>5. IngestType'
  <2>1. subQueues' \in [Partitions -> Seq(AllEvents)]
    <3>1. Tail(subQueues[p]) \in Seq(AllEvents)
      <4> DEFINE E == AllEvents
                 s == subQueues[p]
      <4>1. s \in Seq(E) /\ s # <<>>
        BY <1>1, <1>3 DEF IngestType, Takes
      <4> HIDE DEF E, s
      <4>2. Tail(s) \in Seq(E)
        BY <4>1
      <4> QED BY <4>2 DEF E, s
    <3> QED BY <1>1, <1>3, <3>1 DEF IngestType, Takes
  <2>2. delivered' \in [Clients -> [1 .. MaxMessages -> Nat]]
    <3> DEFINE c == subQueues[p][1].client
               m == ToSet(subQueues[p][1].msgs)
    <3>1. c \in Clients
      BY <1>4 DEF AllEvents
    <3>2. delivered' = [delivered EXCEPT ![c] = Bumped(@, m)]
      BY <1>3, <1>4 DEF Takes
    <3>3. Bumped(delivered[c], m) \in [1 .. MaxMessages -> Nat]
      <4>1. delivered[c] \in [1 .. MaxMessages -> Nat]
        BY <1>1, <3>1 DEF IngestType
      <4> DEFINE f == delivered[c]
                 N == 1 .. MaxMessages
      <4>2. f \in [N -> Nat]
        BY <4>1
      <4> HIDE DEF c, m, f, N
      <4>3. \A i \in N : f[i] + (IF i \in m THEN 1 ELSE 0) \in Nat
        BY <4>2
      <4>4. Bumped(f, m) \in [N -> Nat]
        BY <4>2, <4>3 DEF Bumped
      <4> QED BY <4>4 DEF f, N
    <3> HIDE DEF c, m
    <3> QED BY <1>1, <3>1, <3>2, <3>3 DEF IngestType
  <2> QED BY <1>1, <1>2, <2>1, <2>2 DEF IngestType, handler, limited
<1>6. InOrder'
  BY <1>1, <1>3, TakeInOrder
<1>7. ASSUME NEW d \in Clients PROVE Behind(d)' /\ Places(d)'
  <2>1. Ahead(d)' = Ahead(d)
    BY <1>2, GatheredSame DEF Ahead
  <2>2. Behind(d)'
    BY <1>1, <1>3, <2>1, TakeBehind
  <2>3. Places(d)'
    BY <1>1, <1>3, <2>1, TakePlaces, TakePlacesOther
  <2> QED BY <2>2, <2>3
<1> QED BY <1>2, <1>5, <1>6, <1>7, QueueStep

-----------------------------------------------------------------------------
\* At first no client has sent anything.
LEMMA AccountInit == Init => AccountInv
<1> SUFFICES ASSUME Init PROVE AccountInv
  OBVIOUS
<1>1. IngestType
  <2>1. ASSUME NEW c \in Clients
        PROVE  /\ svc[c].mode \in {"each", "collect", "limited", "unary", "list", "http"}
               /\ svc[c].identity = "first" => svc[c].mode = "limited"
    <3>1. PICK receiver \in Receivers : svc[c] \in receiver
      BY DEF Init
    <3> QED BY <3>1
        DEF Receivers, NativeTracingReceiver, NativeLogReceiver, NativeMeterReceiver,
            NativeEventReceiver, NativeProfileReceiver, NativeEBPFAccessLogReceiver,
            NativeEBPFProfilingReceiver, NativeJVMReceiver, NativeCLRReceiver,
            NativeManagementReceiver, NativeProcessReceiver, OTLPReceiver,
            EnvoyALSV3Receiver, EnvoyALSV2Receiver, EnvoyMetricsV3Receiver,
            EnvoyMetricsV2Receiver, HTTPLogReceiver,
            TraceSegments, TraceSegmentsInSync, SpanAttachedEvents, TraceSegmentsCompat,
            TraceSegmentsInSyncCompat, Logs, Meters, MeterBatches, MetersCompat,
            EventReports, Snapshots, SnapshotsCompat, EBPFAccessLogs, ProfilingData,
            JVMMetrics, JVMMetricsCompat, CLRMetrics, CLRMetricsCompat, Instances,
            InstancesCompat, Processes, OTLPExport, AccessLogsV3, AccessLogsV2,
            EnvoyMetricsV3, EnvoyMetricsV2, Service, Collecting, Limited
  <2>2. /\ hold \in [Clients -> Seq(Nat)] /\ messages \in [Clients -> Seq(Nat)]
        /\ batch \in [Clients -> Seq(Nat)]
    BY EmptySet DEF Init
  <2>3. subQueues \in [Partitions -> Seq(AllEvents)] /\ DOMAIN item = Enqueuers
        /\ qpc[Gatherer] = "idle"
    BY GathererIs DEF Init, QueueInit
  <2>4. /\ hpc \in [Clients -> {"recv", "send", "failsend", "buffer", "check", "signal",
                                "stop", "done"}]
        /\ lpc \in [Clients -> {"none", "select", "flush", "send", "last", "lastsend", "exit"}]
        /\ reply \in [Clients -> {"none", "ok", "error", "timeout"}]
        /\ identity \in [Clients -> BOOLEAN]
    BY DEF Init
  <2>5. got \in [Clients -> 0 .. MaxMessages]
        /\ delivered \in [Clients -> [1 .. MaxMessages -> Nat]]
    BY IngestAssumption DEF Init
  <2> QED BY <2>1, <2>2, <2>3, <2>4, <2>5 DEF IngestType
<1>2. InOrder
  BY DEF Init, QueueInit, InOrder
<1>3. ASSUME NEW c \in Clients PROVE Hands(c) /\ Buffered(c) /\ Behind(c) /\ Places(c)
  <2>1. Hands(c)
    BY DEF Init, Hands
  <2>2. Buffered(c)
    BY IngestAssumption DEF Init, Buffered
  <2>3. Gathered(c) = <<>>
    BY GathererIs DEF Init, QueueInit, Gathered
  <2>4. Ahead(c) = <<>>
    <3>1. Ahead(c) = ((<<>> \o <<>>) \o <<>>) \o <<>>
      BY <2>3 DEF Init, Ahead
    <3> QED BY <3>1, EmptySet, EmptyConcat
  <2>5. Behind(c)
    BY <2>4, EmptySet DEF Behind, Init, QueueInit
  <2>6. /\ \A p \in Partitions : InQueues(c)[p] = {}
        /\ Delivered(c) = {} /\ Dropped(c) = {}
    <3>1. \A p \in Partitions : \A i : ~InQueue(p, c, i)
      BY DEF Init, QueueInit, InQueue
    <3> QED BY <3>1 DEF InQueues, Init, Delivered, Dropped
  <2>7. got[c] = 0 /\ 1 .. 0 = {}
    BY DEF Init
  <2>8. Once(got[c], ToSet(Ahead(c)), InQueues(c), Delivered(c), Dropped(c))
    BY <2>4, <2>6, <2>7, EmptySet DEF Once
  <2>9. Places(c)
    BY <2>8 DEF Places, Init
  <2> QED BY <2>1, <2>2, <2>5, <2>9
<1> QED BY <1>1, <1>2, <1>3 DEF AccountInv

\* Every step keeps the invariant.
LEMMA AccountNext == GatherInv /\ AccountInv /\ [Next]_vars => AccountInv'
<1> SUFFICES ASSUME GatherInv, AccountInv, [Next]_vars PROVE AccountInv'
  OBVIOUS
<1>1. ASSUME NEW c \in Clients, Handling(c) PROVE AccountInv'
  <2>1. ASSUME NEW kind \in Kinds(svc[c]), Recv(c, kind) PROVE AccountInv'
    BY <2>1, RecvKeeps
  <2>2. ASSUME NEW n \in 0 .. MaxMessages, RecvList(c, n) PROVE AccountInv'
    BY <2>2, RecvListKeeps
  <2>3. CASE EndOfStream(c)
    BY <2>3, FinishKeeps DEF EndOfStream
  <2>4. CASE StreamFails(c)
    BY <2>4, FinishKeeps DEF StreamFails
  <2>5. CASE Timeout(c)
    BY <2>5, TimeoutKeeps
  <2>6. CASE Send(c)
    BY <2>6, SendKeeps
  <2>7. CASE Buffer(c)
    BY <2>7, BufferKeeps
  <2>8. CASE Check(c)
    BY <2>8, CheckKeeps
  <2>9. CASE Signal(c) \/ Tick(c) \/ Stop(c)
    BY <2>9, SelectKeeps
  <2>10. CASE Flush(c)
    BY <2>10, FlushKeeps
  <2>11. CASE FlushSend(c)
    BY <2>11, FlushSendKeeps
  <2> QED BY <1>1, <2>1, <2>2, <2>3, <2>4, <2>5, <2>6, <2>7, <2>8, <2>9, <2>10, <2>11
          DEF Handling
<1>2. CASE Enqueuing
  BY <1>2, EnqueuingKeeps
<1>3. CASE Enqueued
  BY <1>3, EnqueuedKeeps
<1>4. ASSUME NEW p \in Partitions, ConsumeQueue(p) PROVE AccountInv'
  BY <1>4, ConsumeKeeps
<1>5. CASE UNCHANGED vars
  <2>1. UNCHANGED <<handler, limited, dropped, delivered, subQueues, item, qpc>>
    BY <1>5 DEF vars, queueVars, choice, history
  <2>2. IngestType' /\ InOrder'
    BY <2>1 DEF AccountInv, IngestType, InOrder, handler, limited
  <2>3. ASSUME NEW d \in Clients PROVE Behind(d)' /\ Places(d)'
    <3>1. UNCHANGED Own(d)
      BY <2>1 DEF Own, handler, limited
    <3> QED BY <2>1, <3>1, OtherSame DEF DropsOnly
  <2> QED BY <2>1, <2>2, <2>3, QueueStep
<1> QED BY <1>1, <1>2, <1>3, <1>4, <1>5 DEF Next

\* A message is in one place when the invariant holds.
LEMMA PlacesOnce ==
  ASSUME AccountInv, NEW c \in Clients, NEW i \in 1 .. got[c]
  PROVE  Times(hold[c], i) + Times(messages[c], i) + Times(batch[c], i) + Times(Gathered(c), i)
           + Cardinality({p \in Partitions : InQueue(p, c, i)})
           + delivered[c][i] + (IF <<c, i>> \in dropped THEN 1 ELSE 0) = 1
<1> DEFINE g == Gathered(c)
           b == batch[c]
           m == messages[c]
           h == hold[c]
           Q == {p \in Partitions : InQueue(p, c, i)}
           q == InQueues(c)
           D == Delivered(c)
           X == Dropped(c)
           A == ToSet(Ahead(c))
<1>1. IngestType /\ Behind(c) /\ Places(c)
  BY DEF AccountInv
<1>2. /\ g \in Seq(Nat) /\ b \in Seq(Nat) /\ m \in Seq(Nat) /\ h \in Seq(Nat)
      /\ g \o b \in Seq(Nat) /\ (g \o b) \o m \in Seq(Nat)
  BY <1>1, AheadType
<1>3. Sorted(((g \o b) \o m) \o h) /\ A = ToSet(((g \o b) \o m) \o h)
  BY <1>1 DEF Behind, Ahead
<1>4. Once(got[c], A, q, D, X) /\ delivered[c][i] \in {0, 1} /\ i \in 1 .. MaxMessages
  BY <1>1, IngestAssumption DEF Places, IngestType
<1>5. /\ (i \in D <=> delivered[c][i] = 1) /\ (i \in X <=> <<c, i>> \in dropped)
      /\ Q = {p \in Partitions : i \in q[p]}
  BY <1>4 DEF Delivered, Dropped, InQueues
<1> HIDE DEF g, b, m, h, A, q, D, X
<1>6. /\ Sorted(g) /\ Sorted(b) /\ Sorted(m) /\ Sorted(h)
      /\ A = ToSet(g) \cup ToSet(b) \cup ToSet(m) \cup ToSet(h)
      /\ \A x \in ToSet(g) \cup ToSet(b) \cup ToSet(m), y \in ToSet(h) : x < y
      /\ \A x \in ToSet(g) \cup ToSet(b), y \in ToSet(m) : x < y
      /\ \A x \in ToSet(g), y \in ToSet(b) : x < y
  <2> DEFINE u == g \o b
             v == u \o m
  <2>1. u \in Seq(Nat) /\ v \in Seq(Nat) /\ Sorted(v \o h) /\ A = ToSet(v \o h)
    BY <1>2, <1>3
  <2>2. ToSet(u) = ToSet(g) \cup ToSet(b)
    BY <1>2, ConcatSet
  <2> HIDE DEF u
  <2>3. ToSet(v) = ToSet(u) \cup ToSet(m)
    BY <1>2, <2>1, ConcatSet
  <2> HIDE DEF v
  <2>4. ToSet(v \o h) = ToSet(v) \cup ToSet(h)
    BY <1>2, <2>1, ConcatSet
  <2>5. Sorted(v) /\ Sorted(h) /\ \A x \in ToSet(v), y \in ToSet(h) : x < y
    BY <1>2, <2>1, ConcatSorted
  <2>6. Sorted(u) /\ Sorted(m) /\ \A x \in ToSet(u), y \in ToSet(m) : x < y
    BY <1>2, <2>1, <2>5, ConcatSorted DEF v
  <2>7. Sorted(g) /\ Sorted(b) /\ \A x \in ToSet(g), y \in ToSet(b) : x < y
    BY <1>2, <2>6, ConcatSorted DEF u
  <2> QED BY <2>1, <2>2, <2>3, <2>4, <2>5, <2>6, <2>7
<1>7. /\ Times(g, i) = (IF i \in ToSet(g) THEN 1 ELSE 0)
      /\ Times(b, i) = (IF i \in ToSet(b) THEN 1 ELSE 0)
      /\ Times(m, i) = (IF i \in ToSet(m) THEN 1 ELSE 0)
      /\ Times(h, i) = (IF i \in ToSet(h) THEN 1 ELSE 0)
  BY <1>2, <1>6, SortedOnce
<1>8. i \in Nat /\ ~(i < i)
  BY <1>4, IngestAssumption
<1>9. Times(h, i) + Times(m, i) + Times(b, i) + Times(g, i) = IF i \in A THEN 1 ELSE 0
  BY <1>6, <1>7, <1>8
<1>10. Cardinality(Q) = IF \E p \in Partitions : i \in q[p] THEN 1 ELSE 0
  <2>1. CASE \E p \in Partitions : i \in q[p]
    <3>1. PICK p \in Partitions : i \in q[p]
      BY <2>1
    <3>2. Q = {p}
      BY <1>4, <1>5, <3>1 DEF Once
    <3> QED BY <2>1, <3>2, FS_Singleton
  <2>2. CASE ~\E p \in Partitions : i \in q[p]
    <3>1. Q = {}
      BY <1>5, <2>2
    <3> QED BY <2>2, <3>1, FS_EmptySet
  <2> QED BY <2>1, <2>2
<1>11. /\ i \in A \/ i \in D \/ i \in X \/ \E p \in Partitions : i \in q[p]
       /\ i \in A => i \notin D /\ i \notin X /\ ~\E p \in Partitions : i \in q[p]
       /\ i \in D => i \notin X /\ ~\E p \in Partitions : i \in q[p]
       /\ i \in X => ~\E p \in Partitions : i \in q[p]
  BY <1>4 DEF Once
<1> DEFINE k == Times(h, i) + Times(m, i) + Times(b, i) + Times(g, i)
           n == Cardinality(Q)
           y == delivered[c][i]
           x == IF <<c, i>> \in dropped THEN 1 ELSE 0
<1>12. k + n + y + x = 1
  <2>1. /\ k = (IF i \in A THEN 1 ELSE 0) /\ x = (IF i \in X THEN 1 ELSE 0)
        /\ y = (IF i \in D THEN 1 ELSE 0)
    BY <1>4, <1>5, <1>9
  <2> HIDE DEF k, n, y, x
  <2> QED BY <1>10, <1>11, <2>1 DEF n
<1> QED BY <1>12 DEF g, b, m, h

\* No message is lost, duplicated or reordered between the handler that
\* received it and the consumer of the queue, a message given up is counted,
\* and a stream's buffer exceeds its limit by one message at most: for any
\* number of clients, partitions and sizes, and all receivers.
THEOREM IngestAccounts == Spec => []Accounted
<1>1. AccountInv => Accounted
  <2> SUFFICES ASSUME AccountInv PROVE Accounted
    OBVIOUS
  <2>1. OnePlace
    BY PlacesOnce DEF OnePlace
  <2>2. ASSUME NEW c \in Clients
        PROVE  /\ reply[c] = "ok" => hold[c] = <<>>
               /\ Len(messages[c]) <= LimitCount + 1
    <3>1. IngestType /\ Hands(c) /\ Buffered(c)
      BY DEF AccountInv
    <3>2. Len(messages[c]) \in Nat /\ LimitCount \in Nat
      BY <3>1, IngestAssumption DEF IngestType
    <3>3. reply[c] = "ok" => hold[c] = <<>>
      BY <3>1 DEF Hands
    <3>4. Len(messages[c]) <= LimitCount + 1
      BY <3>1, <3>2 DEF Buffered
    <3> QED BY <3>3, <3>4
  <2> QED BY <2>1, <2>2 DEF Accounted, Answered, AccountInv
<1>2. Init => GatherInv /\ AccountInv
  BY GatherInit, AccountInit
<1>3. GatherInv /\ AccountInv /\ [Next]_vars => (GatherInv /\ AccountInv)'
  BY GatherNext, AccountNext
<1> QED BY <1>1, <1>2, <1>3, PTL DEF Spec
=============================================================================
