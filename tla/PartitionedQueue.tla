-------------------------- MODULE PartitionedQueue --------------------------
(***************************************************************************)
(* The partitioned queue over sub-queues kept in memory, or over the none  *)
(* queue that keeps nothing.  The choice of a partition, the checks for    *)
(* room and the call of the sub-queue are separate steps, with consumers   *)
(* and other callers between them.                                         *)
(***************************************************************************)
EXTENDS Integers, Sequences

CONSTANTS
  Partition,         \* the number of sub-queues
  EventBufferSize,   \* the size of a sub-queue
  Enqueuers,         \* goroutines that call Enqueue: one in a gatherer
  Items              \* what is enqueued

ASSUME PartitionAssumption ==
  Partition \in Nat \ {0} /\ EventBufferSize \in Nat /\ Items # {}

Partitions == 0 .. Partition - 1
NoItem == CHOOSE e \in Items : TRUE   \* of a caller that enqueues nothing

VARIABLES
  queueName,         \* "memory-queue" or "none-queue"
  subQueues,
  loadBalancerIndex,
  qpc, item,         \* the callers and what they enqueue
  part, addition     \* the partition a caller is at; how far it has looked

choice == <<qpc, item, part, addition>>
queueVars == <<queueName, subQueues, loadBalancerIndex, choice>>

\* The none queue says that it has room, and then takes nothing.
IsFull(p) == queueName = "memory-queue" /\ Len(subQueues[p]) >= EventBufferSize

\* Enqueue, and the short cut of findPartition.
CallEnqueue(g, e) ==
  /\ qpc[g] = "idle"
  /\ item' = [item EXCEPT ![g] = e]
  /\ qpc' = [qpc EXCEPT ![g] = IF Partition = 1 THEN "put" ELSE "add"]
  /\ part' = [part EXCEPT ![g] = 0]
  /\ UNCHANGED <<queueName, subQueues, loadBalancerIndex, addition>>

\* Mutant: the index is not compared with the number of partitions.
IncrementUnbounded(g) ==
  /\ qpc[g] = "add"
  /\ loadBalancerIndex' = loadBalancerIndex + 1
  /\ part' = [part EXCEPT ![g] = loadBalancerIndex + 1]
  /\ qpc' = [qpc EXCEPT ![g] = "check"]
  /\ addition' = [addition EXCEPT ![g] = 0]
  /\ UNCHANGED <<queueName, subQueues, item>>

\* atomic.AddInt32
Increment(g) ==
  /\ qpc[g] = "add"
  /\ loadBalancerIndex' = loadBalancerIndex + 1
  /\ part' = [part EXCEPT ![g] = loadBalancerIndex + 1]
  /\ qpc' = [qpc EXCEPT ![g] = IF loadBalancerIndex + 1 < Partition THEN "check"
                                ELSE "swap"]
  /\ addition' = [addition EXCEPT ![g] = 0]
  /\ UNCHANGED <<queueName, subQueues, item>>

\* atomic.CompareAndSwapInt32; another caller may have incremented meanwhile.
Swap(g) ==
  /\ qpc[g] = "swap"
  /\ IF loadBalancerIndex = part[g]
     THEN /\ loadBalancerIndex' = 0
          /\ part' = [part EXCEPT ![g] = 0]
          /\ qpc' = [qpc EXCEPT ![g] = "check"]
     ELSE /\ qpc' = [qpc EXCEPT ![g] = "add"]
          /\ UNCHANGED <<loadBalancerIndex, part>>
  /\ UNCHANGED <<queueName, subQueues, item, addition>>

\* The partition the search is at.
At(g) == IF part[g] + addition[g] >= Partition THEN part[g] + addition[g] - Partition
         ELSE part[g] + addition[g]

\* Mutant: one partition is never looked at.
CheckFullTooFew(g) ==
  /\ qpc[g] = "check"
  /\ IF ~IsFull(At(g))
     THEN /\ part' = [part EXCEPT ![g] = At(g)]
          /\ addition' = [addition EXCEPT ![g] = 0]
          /\ qpc' = [qpc EXCEPT ![g] = "put"]
     ELSE /\ IF addition[g] + 2 < Partition
             THEN addition' = [addition EXCEPT ![g] = @ + 1] /\ UNCHANGED qpc
             ELSE qpc' = [qpc EXCEPT ![g] = "failed"] /\ UNCHANGED addition
          /\ UNCHANGED part
  /\ UNCHANGED <<queueName, subQueues, loadBalancerIndex, item>>

\* The search for a partition with room, from the chosen one on.
CheckFull(g) ==
  /\ qpc[g] = "check"
  /\ IF ~IsFull(At(g))
     THEN /\ part' = [part EXCEPT ![g] = At(g)]
          /\ addition' = [addition EXCEPT ![g] = 0]
          /\ qpc' = [qpc EXCEPT ![g] = "put"]
     ELSE /\ IF addition[g] + 1 < Partition
             THEN addition' = [addition EXCEPT ![g] = @ + 1] /\ UNCHANGED qpc
             ELSE qpc' = [qpc EXCEPT ![g] = "failed"] /\ UNCHANGED addition
          /\ UNCHANGED part
  /\ UNCHANGED <<queueName, subQueues, loadBalancerIndex, item>>

\* Enqueue of the none queue always fails; that of the memory queue looks again.
Refuses(p) == queueName = "none-queue" \/ IsFull(p)

Put(g) ==
  /\ qpc[g] = "put"
  /\ IF Refuses(part[g])
     THEN /\ qpc' = [qpc EXCEPT ![g] = "failed"]
          /\ UNCHANGED subQueues
     ELSE /\ qpc' = [qpc EXCEPT ![g] = "accepted"]
          /\ subQueues' = [subQueues EXCEPT ![part[g]] = Append(@, item[g])]
  /\ UNCHANGED <<queueName, loadBalancerIndex, item, part, addition>>

Return(g) ==
  /\ qpc[g] \in {"accepted", "failed"}
  /\ qpc' = [qpc EXCEPT ![g] = "idle"] /\ item' = [item EXCEPT ![g] = NoItem]
  /\ part' = [part EXCEPT ![g] = 0] /\ addition' = [addition EXCEPT ![g] = 0]
  /\ UNCHANGED <<queueName, subQueues, loadBalancerIndex>>

\* An empty queue, and the none queue, answer ErrEmpty.
Dequeue(p) ==
  /\ subQueues[p] # <<>>
  /\ subQueues' = [subQueues EXCEPT ![p] = Tail(@)]
  /\ UNCHANGED <<queueName, loadBalancerIndex, choice>>

QueueInit ==
  /\ queueName \in {"memory-queue", "none-queue"}
  /\ subQueues = [p \in Partitions |-> <<>>]
  /\ loadBalancerIndex = 0
  /\ qpc = [g \in Enqueuers |-> "idle"]
  /\ item = [g \in Enqueuers |-> NoItem]
  /\ part = [g \in Enqueuers |-> 0] /\ addition = [g \in Enqueuers |-> 0]

Enqueue(g) == Increment(g) \/ Swap(g) \/ CheckFull(g) \/ Put(g)

QueueNext ==
  \/ \E g \in Enqueuers, e \in Items : CallEnqueue(g, e)
  \/ \E g \in Enqueuers : Enqueue(g) \/ Return(g)
  \/ \E p \in Partitions : Dequeue(p)

QueueSpec == QueueInit /\ [][QueueNext]_queueVars

(***************************************************************************)
(* findPartition never leaves the slice of sub-queues, although the index  *)
(* it starts from may be far beyond it when callers increment it at the    *)
(* same time; and no sub-queue holds more than its size.                   *)
(***************************************************************************)
QueueTypeOK ==
  /\ queueName \in {"memory-queue", "none-queue"}
  /\ subQueues \in [Partitions -> Seq(Items)]
  /\ \A p \in Partitions : Len(subQueues[p]) <= EventBufferSize
  /\ loadBalancerIndex \in Nat
  /\ qpc \in [Enqueuers -> {"idle", "add", "swap", "check", "put", "accepted", "failed"}]
  /\ item \in [Enqueuers -> Items]
  /\ part \in [Enqueuers -> Nat] /\ addition \in [Enqueuers -> Nat]
  /\ \A g \in Enqueuers :
       /\ qpc[g] \in {"check", "put"} => part[g] \in Partitions
       /\ qpc[g] = "check" => addition[g] \in Partitions
=============================================================================
