-------------------------------- MODULE Pipe --------------------------------
(***************************************************************************)
(* One pipe: gatherer, processor and sender, partition by partition.       *)
(*                                                                         *)
(*   queue -> consumeQueue -> processPerPartition -> store -> flush        *)
(*                                                                         *)
(* Every arrow is an unbuffered channel, so a hand-over is one step of     *)
(* both goroutines.  An event is its position in the queue of its          *)
(* partition, which is also the offset an acknowledgement carries.  The    *)
(* queue itself is the FIFO of EventQueue, seen through two counters.      *)
(***************************************************************************)
EXTENDS Integers, Sequences, SequencesExt

CONSTANTS
  PartitionCount,
  MaxBufferSize, MinFlushEvents,   \* sender configuration
  Forwarders,      \* the configured forwarders, by the type they forward
  TypeOf,          \* the type of each event
  MaxAttempts,     \* attempts of forwarding, FallBack included
  Fetching,        \* whether the gatherer is a FetcherGatherer
  Cancels,         \* whether a close signal may arrive
  Disconnects,     \* whether the client may lose its connection
  MaxEvents,       \* bound: events per partition
  MaxTotal         \* bound: events of all partitions

Partitions == 0 .. PartitionCount - 1
Events == 1 .. MaxEvents

ASSUME PipeAssumption ==
  /\ PartitionCount \in Nat \ {0}
  /\ MaxBufferSize \in Nat \ {0} /\ MinFlushEvents \in Nat \ {0}
  /\ MaxEvents \in Nat /\ MaxTotal \in Nat
  /\ DOMAIN TypeOf = Events
  /\ Forwarders \in Seq(STRING)
  /\ MaxAttempts \in Nat \ {0}
  /\ {Fetching, Cancels, Disconnects} \subseteq BOOLEAN

VARIABLES
  enqueued, taken, \* how many events each queue accepted and handed out
  acked,           \* the last offset acknowledged to each queue
  closed,          \* runningQueue.Close has been called
  epc,             \* the enqueue goroutine of the gatherer
  gpc, hand,       \* consumeQueue and the event it sends to outputChannel
  ppc, work,       \* processPerPartition and the event it sends to the sender
  spc, sev,        \* store and the event it has received
  batches,         \* every BatchBuffer of store; the last one is s.buffers[p]
  blocking, lpc,   \* the client is disconnected; the listen goroutine
  fpc, again,      \* flush, and how far its forced second pass has come
  dpc,             \* the goroutines shutdown0 starts, one per partition
  call,            \* the running consume of each goroutine that may have one
  once,            \* shutdownOnce
  cancelled, inputsClosed, panicked,
  sent, failed     \* history: events forwarded, and events given up

queue == <<enqueued, taken, acked, closed>>
gatherer == <<epc, gpc, hand>>
processor == <<ppc, work>>
storing == <<spc, sev, batches>>
listening == <<blocking, lpc>>
flushing == <<fpc, again, dpc, call, once>>
stopping == <<cancelled, inputsClosed, panicked>>
history == <<sent, failed>>
vars == <<queue, gatherer, processor, storing, listening, flushing, stopping,
          history>>

NoEvent == 0
NoCall == [part |-> 0, i |-> 0, got |-> {}, f |-> 0, n |-> 0]

\* The goroutines that run consume.
Flusher(p) == <<"flush", p>>
Drainer(p) == <<"drain", p>>
Consumers == {"flush", "drain"} \X Partitions

\* The pointer s.buffers[p], and the buffer it points to.
Current(p) == Len(batches[p])
Buffer(p) == batches[p][Current(p)]

Set(f, p, v) == [f EXCEPT ![p] = v]

(***************************************************************************)
(* Gatherer: the enqueue goroutine and one consumeQueue per partition.     *)
(***************************************************************************)
\* The events offered so far, for the bound on them.
Total == FoldFunction(+, 0, enqueued)

Receive(p) ==
  /\ epc = "run" /\ ~closed
  /\ enqueued[p] < MaxEvents /\ Total < MaxTotal
  /\ enqueued' = Set(enqueued, p, enqueued[p] + 1)
  /\ UNCHANGED <<taken, acked, closed, gatherer, processor, storing, listening,
                 flushing, stopping, history>>

EnqueueDone ==
  /\ epc = "run" /\ cancelled
  /\ epc' = "exit"
  /\ UNCHANGED <<queue, gpc, hand, processor, storing, listening, flushing,
                 stopping, history>>

\* Boot starts the consumers in turn.  The fetcher's consumeQueue waits for
\* the whole WaitGroup before it returns to the loop that starts the next.
StartConsumer(p) ==
  /\ gpc[p] = "new"
  /\ \A q \in 0 .. p - 1 : gpc[q] # "new"
  /\ Fetching /\ p > 0 => \A q \in Partitions : gpc[q] = "exit"
  /\ gpc' = Set(gpc, p, "poll")
  /\ UNCHANGED <<queue, epc, hand, processor, storing, listening, flushing,
                 stopping, history>>

Dequeue(p) ==
  /\ gpc[p] = "poll" /\ ~cancelled /\ ~closed
  /\ taken[p] < enqueued[p]
  /\ taken' = Set(taken, p, taken[p] + 1)
  /\ hand' = Set(hand, p, taken[p] + 1)
  /\ gpc' = Set(gpc, p, "send")
  /\ UNCHANGED <<enqueued, acked, closed, epc, processor, storing, listening,
                 flushing, stopping, history>>

\* Shutdown of the gatherer, after ShutdownHookTime.
CloseQueue(p) ==
  /\ gpc[p] = "poll" /\ cancelled
  /\ closed' = TRUE
  /\ gpc' = Set(gpc, p, "exit")
  /\ UNCHANGED <<enqueued, taken, acked, epc, hand, processor, storing,
                 listening, flushing, stopping, history>>

(***************************************************************************)
(* Processor: receive from outputChannel, filter, send to the sender.      *)
(***************************************************************************)
Output(p) ==
  /\ gpc[p] = "send" /\ ppc[p] = "select"
  /\ gpc' = Set(gpc, p, "poll") /\ hand' = Set(hand, p, NoEvent)
  /\ ppc' = Set(ppc, p, "send") /\ work' = Set(work, p, hand[p])
  /\ UNCHANGED <<queue, epc, storing, listening, flushing, stopping, history>>

ProcessDone(p) ==
  /\ ppc[p] = "select" /\ cancelled
  /\ ppc' = Set(ppc, p, "exit")
  /\ UNCHANGED <<queue, gatherer, work, storing, listening, flushing, stopping,
                 history>>

\* A send on a channel shutdown0 has closed panics, and ends the process.
SendPanics(p) ==
  LET dead == [q \in Partitions |-> "dead"]
  IN /\ ppc[p] = "send" /\ inputsClosed
     /\ panicked' = TRUE
     /\ epc' = "dead" /\ lpc' = "dead" /\ gpc' = dead /\ ppc' = dead
     /\ spc' = dead /\ fpc' = dead /\ dpc' = dead
     /\ call' = [c \in Consumers |-> NoCall]
     /\ UNCHANGED <<queue, hand, work, sev, batches, blocking, again, once,
                    cancelled, inputsClosed, history>>

(***************************************************************************)
(* Sender.store.  While the client is disconnected it neither receives     *)
(* nor looks at the context.                                               *)
(***************************************************************************)
CheckBlocking(p) ==
  /\ spc[p] = "top" /\ ~blocking
  /\ spc' = Set(spc, p, "select")
  /\ UNCHANGED <<queue, gatherer, processor, sev, batches, listening, flushing,
                 stopping, history>>

Input(p) ==
  /\ ppc[p] = "send" /\ spc[p] = "select" /\ ~inputsClosed
  /\ ppc' = Set(ppc, p, "select") /\ work' = Set(work, p, NoEvent)
  /\ spc' = Set(spc, p, "add") /\ sev' = Set(sev, p, work[p])
  /\ UNCHANGED <<queue, gatherer, batches, listening, flushing, stopping,
                 history>>

\* BatchBuffer.Add, which refuses when full, and the send when it becomes so.
Add(p) ==
  /\ spc[p] = "add"
  /\ LET b == IF Len(Buffer(p)) = MaxBufferSize THEN Buffer(p)
              ELSE Append(Buffer(p), sev[p])
     IN /\ batches' = [batches EXCEPT ![p][Current(p)] = b]
        /\ spc' = Set(spc, p, IF Len(b) = MaxBufferSize THEN "send" ELSE "top")
  /\ sev' = Set(sev, p, NoEvent)
  /\ UNCHANGED <<queue, gatherer, processor, listening, flushing, stopping,
                 history>>

\* Mutant: more than MinFlushEvents are needed.
TickLate(p) ==
  /\ spc[p] = "select"
  /\ spc' = Set(spc, p,
              IF Len(Buffer(p)) > MinFlushEvents THEN "send" ELSE "top")
  /\ UNCHANGED <<queue, gatherer, processor, sev, batches, listening, flushing,
                 stopping, history>>

Tick(p) ==
  /\ spc[p] = "select"
  /\ spc' = Set(spc, p,
              IF Len(Buffer(p)) >= MinFlushEvents THEN "send" ELSE "top")
  /\ UNCHANGED <<queue, gatherer, processor, sev, batches, listening, flushing,
                 stopping, history>>

\* Mutant: the nil of a closed input is not skipped.
InputClosedAdds(p) ==
  /\ spc[p] = "select" /\ inputsClosed
  /\ spc' = Set(spc, p, "add")
  /\ UNCHANGED <<queue, gatherer, processor, sev, batches, listening, flushing,
                 stopping, history>>

\* A closed input yields nil, which is skipped.
InputClosed(p) ==
  /\ spc[p] = "select" /\ inputsClosed
  /\ spc' = Set(spc, p, "top")
  /\ UNCHANGED <<queue, gatherer, processor, sev, batches, listening, flushing,
                 stopping, history>>

StoreDone(p) ==
  /\ spc[p] = "select" /\ cancelled
  /\ spc' = Set(spc, p, "exit")
  /\ UNCHANGED <<queue, gatherer, processor, sev, batches, listening, flushing,
                 stopping, history>>

\* Mutant: the buffer just sent stays in use.
RenewForgotten(p) ==
  /\ spc[p] = "renew"
  /\ spc' = Set(spc, p, "top")
  /\ UNCHANGED <<queue, gatherer, processor, sev, batches, listening, flushing,
                 stopping, history>>

\* Mutant: an old buffer is used again and not cleared.
RenewRecycled(p) ==
  /\ spc[p] = "renew"
  /\ batches' = [batches EXCEPT ![p] = Append(@, Head(@))]
  /\ spc' = Set(spc, p, "top")
  /\ UNCHANGED <<queue, gatherer, processor, sev, listening, flushing, stopping,
                 history>>

Renew(p) ==
  /\ spc[p] = "renew"
  /\ batches' = [batches EXCEPT ![p] = Append(@, <<>>)]
  /\ spc' = Set(spc, p, "top")
  /\ UNCHANGED <<queue, gatherer, processor, sev, listening, flushing, stopping,
                 history>>

(***************************************************************************)
(* Sender.listen: the client reports Connected or Disconnect.              *)
(***************************************************************************)
Listen ==
  /\ lpc = "run" /\ Disconnects
  /\ blocking' = ~blocking
  /\ UNCHANGED <<queue, gatherer, processor, storing, lpc, flushing, stopping,
                 history>>

ListenDone ==
  /\ lpc = "run" /\ cancelled
  /\ lpc' = "exit"
  /\ UNCHANGED <<queue, gatherer, processor, storing, blocking, flushing,
                 stopping, history>>

(***************************************************************************)
(* Sender.consume: forward by type, retry in FallBack, then acknowledge    *)
(* the last offset of the batch whatever the outcome.                      *)
(***************************************************************************)
\* Mutant: the loop over the forwarders misses the first.
NewCallFromSecond(p, i) ==
  [part |-> p, i |-> i, got |-> ToSet(batches[p][i]), f |-> 2, n |-> 1]

\* The events of buffer i of partition p, as consume finds them at the start.
NewCall(p, i) ==
  [part |-> p, i |-> i, got |-> ToSet(batches[p][i]), f |-> 1, n |-> 1]

\* The events for the forwarder whose turn it is.
BatchEvents(c) == {e \in call[c].got : TypeOf[e] = Forwarders[call[c].f]}
NextForwarder(c) == [call EXCEPT ![c].f = @ + 1, ![c].n = 1]

\* An attempt succeeds, or there is nothing of this type to forward.
Forward(c) ==
  /\ call[c].f \in DOMAIN Forwarders
  /\ sent' = [sent EXCEPT ![call[c].part] = @ \cup BatchEvents(c)]
  /\ call' = NextForwarder(c)
  /\ UNCHANGED <<queue, gatherer, processor, storing, listening, fpc, again,
                 dpc, once, stopping, failed>>

\* An attempt fails; FallBack tries again until MaxAttempts were made.
FallBack(c) ==
  /\ call[c].f \in DOMAIN Forwarders /\ BatchEvents(c) # {}
  /\ call[c].n < MaxAttempts
  /\ call' = [call EXCEPT ![c].n = @ + 1]
  /\ UNCHANGED <<queue, gatherer, processor, storing, listening, fpc, again,
                 dpc, once, stopping, history>>

\* The last attempt fails: the failure is counted and the loop goes on.
GiveUp(c) ==
  /\ call[c].f \in DOMAIN Forwarders /\ BatchEvents(c) # {}
  /\ call[c].n = MaxAttempts
  /\ failed' = [failed EXCEPT ![call[c].part] = @ \cup BatchEvents(c)]
  /\ call' = NextForwarder(c)
  /\ UNCHANGED <<queue, gatherer, processor, storing, listening, fpc, again,
                 dpc, once, stopping, sent>>

\* The end of consume: acknowledge offset, and back to the caller.
Return(c, offset) ==
  LET p == call[c].part
  IN /\ call[c].f = Len(Forwarders) + 1
     /\ acked' = IF closed THEN acked ELSE Set(acked, p, offset)
     /\ call' = Set(call, c, NoCall)
     /\ \/ /\ c[1] = "flush" /\ UNCHANGED dpc
           /\ IF fpc[c[2]] = "consume"
              THEN fpc' = Set(fpc, c[2], "select") /\ UNCHANGED again
              ELSE again' = Set(again, c[2], again[c[2]] + 1) /\ UNCHANGED fpc
        \/ /\ c[1] = "drain" /\ UNCHANGED <<fpc, again>>
           /\ dpc' = Set(dpc, c[2], "done")
     /\ UNCHANGED <<enqueued, taken, closed, gatherer, processor, storing,
                    listening, once, stopping, history>>

\* Mutants: everything read is acknowledged; nothing is.
AckTaken(c) == Return(c, taken[call[c].part])
AckForgotten(c) == Return(c, acked[call[c].part])

\* gatherer.Ack(batch.Last()): the buffer is read again, not the snapshot, and
\* a closed queue ignores the call.
Ack(c) == Return(c, Last(batches[call[c].part][call[c].i]))

(***************************************************************************)
(* Sender.flush, and the shutdown of the sender by the first flush that    *)
(* sees the cancelled context.                                             *)
(***************************************************************************)
\* The rendezvous on flushChannel.
Flush(p) ==
  /\ spc[p] = "send" /\ fpc[p] = "select"
  /\ spc' = Set(spc, p, "renew")
  /\ fpc' = Set(fpc, p, "consume")
  /\ call' = Set(call, Flusher(p), NewCall(p, Current(p)))
  /\ UNCHANGED <<queue, gatherer, processor, sev, batches, listening, again,
                 dpc, once, stopping, history>>

\* Mutant: a flush goroutine that finds the shutdown begun returns at once.
FlushDoneAtOnce(p) ==
  /\ fpc[p] = "select" /\ cancelled
  /\ IF once = "new"
     THEN /\ once' = "running" /\ fpc' = Set(fpc, p, "wait")
          /\ inputsClosed' = TRUE
          /\ dpc' = [q \in Partitions |-> "start"]
     ELSE /\ fpc' = Set(fpc, p, "exit")
          /\ UNCHANGED <<once, inputsClosed, dpc>>
  /\ UNCHANGED <<queue, gatherer, processor, storing, listening, again, call,
                 cancelled, panicked, history>>

FlushDone(p) ==
  /\ fpc[p] = "select" /\ cancelled
  /\ IF once = "new"
     THEN /\ once' = "running" /\ fpc' = Set(fpc, p, "wait")
          /\ inputsClosed' = TRUE
          /\ dpc' = [q \in Partitions |-> "start"]
     ELSE /\ fpc' = Set(fpc, p, "once")
          /\ UNCHANGED <<once, inputsClosed, dpc>>
  /\ UNCHANGED <<queue, gatherer, processor, storing, listening, again, call,
                 cancelled, panicked, history>>

Drain(p) ==
  /\ dpc[p] = "start"
  /\ IF Buffer(p) = <<>>
     THEN dpc' = Set(dpc, p, "done") /\ UNCHANGED call
     ELSE /\ dpc' = Set(dpc, p, "consume")
          /\ call' = Set(call, Drainer(p), NewCall(p, Current(p)))
  /\ UNCHANGED <<queue, gatherer, processor, storing, listening, fpc, again,
                 once, stopping, history>>

\* ShutdownHookTime has passed: every buffer is consumed by this goroutine.
DrainTimeout(p) ==
  /\ fpc[p] = "wait"
  /\ \E q \in Partitions : dpc[q] # "done"
  /\ fpc' = Set(fpc, p, "again") /\ again' = Set(again, p, 0)
  /\ UNCHANGED <<queue, gatherer, processor, storing, listening, dpc, call,
                 once, stopping, history>>

DrainAgain(p) ==
  /\ fpc[p] = "again" /\ again[p] \in Partitions
  /\ call[Flusher(p)] = NoCall
  /\ IF Buffer(again[p]) = <<>>
     THEN again' = Set(again, p, again[p] + 1) /\ UNCHANGED call
     ELSE /\ call' = Set(call, Flusher(p), NewCall(again[p], Current(again[p])))
          /\ UNCHANGED again
  /\ UNCHANGED <<queue, gatherer, processor, storing, listening, fpc, dpc, once,
                 stopping, history>>

ShutdownDone(p) ==
  /\ \/ fpc[p] = "wait" /\ \A q \in Partitions : dpc[q] = "done"
     \/ fpc[p] = "again" /\ again[p] = PartitionCount
  /\ once' = "done" /\ fpc' = Set(fpc, p, "exit")
  /\ UNCHANGED <<queue, gatherer, processor, storing, listening, again, dpc,
                 call, stopping, history>>

\* The other flush goroutines, held back by shutdownOnce.
OnceReturns(p) ==
  /\ fpc[p] = "once" /\ once = "done"
  /\ fpc' = Set(fpc, p, "exit")
  /\ UNCHANGED <<queue, gatherer, processor, storing, listening, again, dpc,
                 call, once, stopping, history>>

\* The close signal (boot.addShutdownListener).
Cancel ==
  /\ Cancels /\ ~cancelled
  /\ cancelled' = TRUE
  /\ UNCHANGED <<queue, gatherer, processor, storing, listening, flushing,
                 inputsClosed, panicked, history>>

Init ==
  LET every(v) == [p \in Partitions |-> v]
  IN /\ enqueued = every(0) /\ taken = every(0) /\ acked = every(0)
     /\ closed = FALSE /\ epc = "run"
     /\ gpc = every("new") /\ hand = every(NoEvent)
     /\ ppc = every("select") /\ work = every(NoEvent)
     /\ spc = every("top") /\ sev = every(NoEvent)
     /\ batches = every(<< <<>> >>)
     /\ blocking = FALSE /\ lpc = "run"
     /\ fpc = every("select") /\ again = every(0) /\ dpc = every("none")
     /\ call = [c \in Consumers |-> NoCall] /\ once = "new"
     /\ cancelled = FALSE /\ inputsClosed = FALSE /\ panicked = FALSE
     /\ sent = every({}) /\ failed = every({})

Gather(p) == StartConsumer(p) \/ Dequeue(p) \/ CloseQueue(p)
Process(p) == Output(p) \/ ProcessDone(p) \/ SendPanics(p)
Store(p) ==
  \/ CheckBlocking(p) \/ Input(p) \/ Add(p) \/ Tick(p) \/ InputClosed(p)
  \/ StoreDone(p) \/ Renew(p)
Consume(c) == Forward(c) \/ FallBack(c) \/ GiveUp(c) \/ Ack(c)
Flushing(p) ==
  \/ Flush(p) \/ FlushDone(p) \/ Drain(p) \/ DrainTimeout(p) \/ DrainAgain(p)
  \/ ShutdownDone(p) \/ OnceReturns(p)

Next ==
  \/ EnqueueDone \/ Listen \/ ListenDone \/ Cancel
  \/ \E p \in Partitions :
       Receive(p) \/ Gather(p) \/ Process(p) \/ Store(p) \/ Flushing(p)
  \/ \E c \in Consumers : Consume(c)

Spec == Init /\ [][Next]_vars

\* Every goroutine keeps running.  store comes back to its select again and
\* again, which chooses at random among the cases that are ready, so each of
\* them is chosen; the server is reached again after a disconnect, for long
\* enough that store sees it; ShutdownHookTime passes.
Fairness ==
  /\ WF_vars(EnqueueDone) /\ WF_vars(ListenDone)
  /\ WF_vars(Listen /\ blocking)
  /\ \A p \in Partitions :
       /\ WF_vars(StartConsumer(p)) /\ WF_vars(Dequeue(p))
       /\ WF_vars(CloseQueue(p))
       /\ WF_vars(Output(p)) /\ WF_vars(ProcessDone(p)) /\ WF_vars(SendPanics(p))
       /\ SF_vars(CheckBlocking(p)) /\ SF_vars(Input(p)) /\ WF_vars(Add(p))
       /\ SF_vars(Tick(p)) /\ SF_vars(StoreDone(p)) /\ WF_vars(Renew(p))
       /\ WF_vars(Flush(p)) /\ WF_vars(FlushDone(p)) /\ WF_vars(Drain(p))
       /\ WF_vars(DrainTimeout(p)) /\ WF_vars(DrainAgain(p))
       /\ WF_vars(ShutdownDone(p)) /\ WF_vars(OnceReturns(p))
  /\ \A c \in Consumers : WF_vars(Consume(c))

FairSpec == Spec /\ Fairness

-----------------------------------------------------------------------------
CallType ==
  [part : Partitions, i : Nat, got : SUBSET Events, f : Nat, n : Nat]

(***************************************************************************)
(* The types of the queues' offsets, the goroutines' states, the buffers   *)
(* and the running calls of consume; store always has a buffer.            *)
(***************************************************************************)
TypeOK ==
  LET perPartition(S) == [Partitions -> S]
      held == Events \cup {NoEvent}
  IN /\ enqueued \in perPartition(0 .. MaxEvents)
     /\ taken \in perPartition(0 .. MaxEvents)
     /\ acked \in perPartition(0 .. MaxEvents)
     /\ closed \in BOOLEAN /\ epc \in {"run", "exit", "dead"}
     /\ gpc \in perPartition({"new", "poll", "send", "exit", "dead"})
     /\ ppc \in perPartition({"select", "send", "exit", "dead"})
     /\ spc \in perPartition({"top", "select", "add", "send", "renew", "exit",
                              "dead"})
     /\ hand \in perPartition(held) /\ work \in perPartition(held)
     /\ sev \in perPartition(held)
     /\ batches \in perPartition(Seq(Seq(Events)))
     /\ \A p \in Partitions : batches[p] # <<>>
     /\ blocking \in BOOLEAN /\ lpc \in {"run", "exit", "dead"}
     /\ fpc \in perPartition({"select", "consume", "wait", "again", "once",
                              "exit", "dead"})
     /\ again \in perPartition(0 .. PartitionCount)
     /\ dpc \in perPartition({"none", "start", "consume", "done", "dead"})
     /\ call \in [Consumers -> CallType]
     /\ once \in {"new", "running", "done"}
     /\ cancelled \in BOOLEAN /\ inputsClosed \in BOOLEAN /\ panicked \in BOOLEAN
     /\ sent \in perPartition(SUBSET Events)
     /\ failed \in perPartition(SUBSET Events)

Upto(n) == [i \in 1 .. n |-> i]
Held(e) == IF e = NoEvent THEN <<>> ELSE <<e>>

(***************************************************************************)
(* Nothing taken from a queue is lost, duplicated or reordered on its way: *)
(* what the buffers received, then what store, processor and gatherer hold *)
(* are the events the queue handed out, in its order, during shutdown too. *)
(***************************************************************************)
Conserved ==
  \A p \in Partitions :
    FlattenSeq(batches[p]) \o Held(sev[p]) \o Held(work[p]) \o Held(hand[p])
      = Upto(taken[p])

(***************************************************************************)
(* An event still in the hands of the gatherer, the processor or store is  *)
(* not acknowledged: a shutdown that drops it there lets the next life     *)
(* read it again from the queue.                                           *)
(***************************************************************************)
HeldNotAcked ==
  \A p \in Partitions :
    \A e \in {sev[p], work[p], hand[p]} \ {NoEvent} : acked[p] < e

\* Forwarding event e of partition p has ended, or no forwarder is for it.
Settled(p, e) == e \in sent[p] \cup failed[p] \/ TypeOf[e] \notin ToSet(Forwarders)
AllSettled == \A p \in Partitions : \A e \in 1 .. acked[p] : Settled(p, e)

(***************************************************************************)
(* Until the close signal, an acknowledged offset covers only events whose *)
(* forwarding has ended: batches are consumed in order, one at a time.     *)
(***************************************************************************)
AckedAfterForward == ~cancelled => AllSettled

\* The same for the whole life of the pipe.
AckedAlwaysAfterForward == AllSettled

(***************************************************************************)
(* Until the close signal, an acknowledgement never takes a queue's        *)
(* committed offset back.                                                  *)
(***************************************************************************)
AckMovesForward ==
  [][~cancelled => \A p \in Partitions : acked[p] <= acked'[p]]_vars

(***************************************************************************)
(* However slow the server, at most two buffers and one event per channel  *)
(* are out of the queue and not acknowledged: the pipe pushes back.        *)
(***************************************************************************)
InFlightBound ==
  ~cancelled =>
    \A p \in Partitions : taken[p] - acked[p] <= 2 * MaxBufferSize + 2

(***************************************************************************)
(* Whichever flush goroutine starts the shutdown, none of them returns     *)
(* before every buffer was forwarded, or forced once more after the        *)
(* timeout.                                                                *)
(***************************************************************************)
DrainedBeforeExit ==
  (\E p \in Partitions : fpc[p] = "exit") =>
    \/ \A q \in Partitions : dpc[q] = "done"
    \/ \E p \in Partitions : again[p] = PartitionCount

(***************************************************************************)
(* A batch is acknowledged when every forwarder or its fallback succeeded. *)
(***************************************************************************)
AckMeansForwarded ==
  \A p \in Partitions : \A e \in failed[p] : acked[p] < e

(***************************************************************************)
(* Without a close signal every event a queue accepted is acknowledged,    *)
(* through outages and failures: since a behaviour offers finitely many    *)
(* events, the two counts end up equal.                                    *)
(***************************************************************************)
EventuallyAcked ==
  []~cancelled => \A p \in Partitions : <>[](acked[p] = enqueued[p])

\* Shutting down does not panic.
NoPanic == ~panicked

\* The goroutines of partition p have ended.
Ended(p) == {gpc[p], ppc[p], spc[p], fpc[p]} = {"exit"}

(***************************************************************************)
(* After a close signal the Boot of every module returns.                  *)
(***************************************************************************)
BootReturns ==
  cancelled ~> \/ panicked
               \/ {epc, lpc} = {"exit"} /\ \A p \in Partitions : Ended(p)
=============================================================================
