------------------------------- MODULE Ingest -------------------------------
(***************************************************************************)
(* How data enters a pipe: the receivers' handlers, the limiter that packs *)
(* the messages of a stream, the goroutine of the gatherer that takes      *)
(* events from the channel of the receiver, and the partitioned queue it   *)
(* puts them in.                                                           *)
(*                                                                         *)
(* A service is a record that says how its handler works; the actions      *)
(* below run it.  Every client makes one call to the same receiver, and    *)
(* its messages are numbered in the order the handler receives them.       *)
(***************************************************************************)
EXTENDS PartitionedQueue, SequencesExt, FiniteSets

CONSTANTS
  Clients,
  LimitCount,        \* the limit of a stream's buffer
  MaxMessages        \* bound: messages of all clients

\* A limit of 0 would make the buffer a channel nothing is ever taken from.
ASSUME IngestAssumption ==
  /\ LimitCount \in Nat \ {0} /\ MaxMessages \in Nat
  /\ Enqueuers # {} /\ IsFiniteSet(Clients)

(***************************************************************************)
(* The services.  "each" makes an event of every message of a stream,      *)
(* "collect" one of all messages, "limited" packs messages by number and   *)
(* time, "unary" is one message, "list" a request of several, and "http"   *)
(* a request of the HTTP server.  onError says whether a failed stream's   *)
(* messages are sent on, empty whether an empty stream makes an event.     *)
(***************************************************************************)
Service(mode) == [mode |-> mode, onError |-> "none", empty |-> FALSE, identity |-> "none"]
Collecting(onError, empty) ==
  [mode |-> "collect", onError |-> onError, empty |-> empty, identity |-> "none"]
\* Access logs need an identifier in the first message.
Limited(identity) ==
  [mode |-> "limited", onError |-> "flush", empty |-> FALSE, identity |-> identity]

TraceSegments == Service("each")
TraceSegmentsInSync == Service("list")
SpanAttachedEvents == Service("each")
Logs == Collecting("flush", FALSE)
Meters == Collecting("flush", FALSE)
MeterBatches == Service("each")
EventReports == Service("each")
Snapshots == Service("each")
EBPFAccessLogs == Collecting("flush", TRUE)
ProfilingData == Collecting("drop", TRUE)
JVMMetrics == Service("unary")
CLRMetrics == Service("unary")
Instances == Service("unary")
Processes == Service("unary")
OTLPExport == Service("unary")
AccessLogsV3 == Limited("first")
AccessLogsV2 == Limited("first")
EnvoyMetricsV3 == Limited("latest")
EnvoyMetricsV2 == Limited("latest")

\* Services of older protocols call those above.
TraceSegmentsCompat == TraceSegments
TraceSegmentsInSyncCompat == TraceSegmentsInSync
MetersCompat == Meters
SnapshotsCompat == Snapshots
JVMMetricsCompat == JVMMetrics
CLRMetricsCompat == CLRMetrics
InstancesCompat == Instances

\* What each receiver registers with its server.
NativeTracingReceiver ==
  {TraceSegments, TraceSegmentsInSync, SpanAttachedEvents, TraceSegmentsCompat,
   TraceSegmentsInSyncCompat}
NativeLogReceiver == {Logs}
NativeMeterReceiver == {Meters, MeterBatches, MetersCompat}
NativeEventReceiver == {EventReports}
NativeProfileReceiver == {Snapshots, SnapshotsCompat}
NativeEBPFAccessLogReceiver == {EBPFAccessLogs}
NativeEBPFProfilingReceiver == {ProfilingData}
NativeJVMReceiver == {JVMMetrics, JVMMetricsCompat}
NativeCLRReceiver == {CLRMetrics, CLRMetricsCompat}
NativeManagementReceiver == {Instances, InstancesCompat}
NativeProcessReceiver == {Processes}
OTLPReceiver == {OTLPExport}
EnvoyALSV3Receiver == {AccessLogsV3}
EnvoyALSV2Receiver == {AccessLogsV2}
EnvoyMetricsV3Receiver == {EnvoyMetricsV3}
EnvoyMetricsV2Receiver == {EnvoyMetricsV2}
HTTPLogReceiver == {Service("http")}

Receivers ==
  {NativeTracingReceiver, NativeLogReceiver, NativeMeterReceiver, NativeEventReceiver,
   NativeProfileReceiver, NativeEBPFAccessLogReceiver, NativeEBPFProfilingReceiver,
   NativeJVMReceiver, NativeCLRReceiver, NativeManagementReceiver,
   NativeProcessReceiver, OTLPReceiver, EnvoyALSV3Receiver, EnvoyALSV2Receiver,
   EnvoyMetricsV3Receiver, EnvoyMetricsV2Receiver, HTTPLogReceiver}

\* A message has an identifier, has none, or cannot be unmarshalled.
Kinds(s) ==
  CASE s.identity = "first" -> {"named", "plain", "bad"}
    [] s.identity = "latest" -> {"named", "plain"}
    [] s.mode = "http" -> {"plain", "bad"}
    [] OTHER -> {"plain"}

Packed(c, msgs) == [client |-> c, msgs |-> msgs]
Events == {Packed(c, s) : c \in Clients, s \in BoundedSeq(1 .. MaxMessages, MaxMessages)}
Gatherer == CHOOSE g \in Enqueuers : TRUE

VARIABLES
  svc, hpc,          \* the handler of every client
  got, bad,          \* the number of messages it received, and the bad ones
  hold,              \* the messages in its hands
  reply,             \* what the client was answered
  messages,          \* the channel of a limited stream
  identity,          \* whether its identity is known
  lpc, batch,        \* the goroutine of its limiter, and what that packs
  dropped,           \* history: messages given up
  delivered,         \* history: how often a message left the queue
  full               \* history: no partition had room when Enqueue was called

handler == <<svc, hpc, got, bad, hold, reply, identity>>
limited == <<messages, lpc, batch>>
history == <<dropped, delivered, full>>
vars == <<queueVars, handler, limited, history>>

Of(f, c, v) == [f EXCEPT ![c] = v]
Total == Cardinality({m \in Clients \X (1 .. MaxMessages) : m[2] <= got[m[1]]})
Number(c, msgs) == {<<c, i>> : i \in ToSet(msgs)}

(***************************************************************************)
(* The handlers.                                                           *)
(***************************************************************************)
\* The first message of a stream of access logs must have an identifier; a
\* request that cannot be unmarshalled is answered with a failure.
Rejected(c, kind) ==
  \/ svc[c].identity = "first" /\ ~identity[c] /\ kind # "named"
  \/ svc[c].mode = "http" /\ kind = "bad"

Reject(c) ==
  /\ reply' = IF svc[c].mode = "http" /\ reply[c] # "none" THEN reply ELSE Of(reply, c, "error")
  /\ hpc' = Of(hpc, c, IF svc[c].mode = "limited" THEN "stop" ELSE "done")
  /\ dropped' = dropped \cup {<<c, got'[c]>>}
  /\ UNCHANGED <<hold, identity>>

Recv(c, kind) ==
  /\ hpc[c] = "recv" /\ svc[c].mode # "list" /\ Total < MaxMessages
  /\ svc[c].mode \in {"unary", "http"} => got[c] = 0
  /\ got' = Of(got, c, got[c] + 1)
  /\ bad' = IF kind = "bad" THEN [bad EXCEPT ![c] = @ \cup {got'[c]}] ELSE bad
  /\ IF Rejected(c, kind)
     THEN Reject(c)
     ELSE /\ hold' = Of(hold, c, Append(hold[c], got'[c]))
          /\ identity' = Of(identity, c, identity[c] \/ kind = "named")
          /\ hpc' = Of(hpc, c, CASE svc[c].mode = "limited" -> "buffer"
                                 [] svc[c].mode = "collect" -> "recv"
                                 [] OTHER -> "send")
          /\ UNCHANGED <<reply, dropped>>
  /\ UNCHANGED <<queueVars, svc, limited, delivered, full>>

\* A request that holds n messages.
RecvList(c, n) ==
  /\ hpc[c] = "recv" /\ svc[c].mode = "list" /\ Total + n <= MaxMessages
  /\ got' = Of(got, c, n) /\ hold' = Of(hold, c, [i \in 1 .. n |-> i])
  /\ hpc' = Of(hpc, c, IF n = 0 THEN "done" ELSE "send")
  /\ reply' = IF n = 0 THEN Of(reply, c, "ok") ELSE reply
  /\ UNCHANGED <<queueVars, svc, bad, identity, limited, history>>

\* How the handler goes on when the stream has ended with the given answer.
Finish(c, answer) ==
  /\ CASE svc[c].mode = "limited" ->
            hpc' = Of(hpc, c, "stop") /\ reply' = Of(reply, c, answer) /\ UNCHANGED dropped
       [] svc[c].mode = "collect" /\ answer = "error" /\ svc[c].onError = "drop" ->
            /\ hpc' = Of(hpc, c, "done") /\ reply' = Of(reply, c, answer)
            /\ dropped' = dropped \cup Number(c, hold[c])
       [] svc[c].mode = "collect" /\ (hold[c] # <<>> \/ svc[c].empty) ->
            /\ hpc' = Of(hpc, c, IF answer = "ok" THEN "send" ELSE "failsend")
            /\ UNCHANGED <<reply, dropped>>
       [] OTHER ->
            hpc' = Of(hpc, c, "done") /\ reply' = Of(reply, c, answer) /\ UNCHANGED dropped
  /\ hold' = IF hpc'[c] = "done" THEN Of(hold, c, <<>>) ELSE hold
  /\ UNCHANGED <<queueVars, svc, got, bad, identity, limited, delivered,
                 full>>

\* The client has closed its half of the stream.
EndOfStream(c) ==
  /\ hpc[c] = "recv" /\ svc[c].mode \in {"each", "collect", "limited"}
  /\ Finish(c, "ok")

\* The client cancels, the connection is lost, or the body cannot be read.
StreamFails(c) ==
  /\ hpc[c] = "recv" /\ svc[c].mode \in {"each", "collect", "limited", "http"}
  /\ Finish(c, "error")

\* The TimeoutHandler answers; the handler goes on.
Timeout(c) ==
  /\ svc[c].mode = "http" /\ hpc[c] \in {"recv", "send"} /\ reply[c] = "none"
  /\ reply' = Of(reply, c, "timeout")
  /\ UNCHANGED <<queueVars, svc, hpc, got, bad, hold, identity, limited,
                 history>>

\* The gatherer receives from the channel of the receiver, which has no
\* buffer, and calls Enqueue.
Gather(e) ==
  /\ CallEnqueue(Gatherer, e)
  /\ full' = \A p \in Partitions : IsFull(p)

Send(c) ==
  LET list == svc[c].mode = "list"
      out == IF list THEN <<Head(hold[c])>> ELSE hold[c]
      rest == IF list THEN Tail(hold[c]) ELSE <<>>
  IN /\ hpc[c] \in {"send", "failsend"}
     /\ Gather(Packed(c, out))
     /\ hold' = Of(hold, c, rest)
     /\ hpc' = Of(hpc, c, CASE svc[c].mode = "each" -> "recv"
                            [] rest # <<>> -> "send"
                            [] OTHER -> "done")
     /\ reply' = IF hpc'[c] = "done" /\ reply[c] = "none"
                 THEN Of(reply, c, IF hpc[c] = "send" THEN "ok" ELSE "error") ELSE reply
     /\ UNCHANGED <<svc, got, bad, identity, limited, dropped, delivered>>

(***************************************************************************)
(* The handler and the limiter of a limited stream.                        *)
(***************************************************************************)
Buffer(c) ==
  /\ hpc[c] = "buffer" /\ Len(messages[c]) < 2 * LimitCount
  /\ messages' = Of(messages, c, messages[c] \o hold[c])
  /\ hold' = Of(hold, c, <<>>) /\ hpc' = Of(hpc, c, "check")
  /\ UNCHANGED <<queueVars, svc, got, bad, reply, identity, lpc, batch,
                 history>>

Check(c) ==
  /\ hpc[c] = "check"
  /\ hpc' = Of(hpc, c, IF Len(messages[c]) >= LimitCount THEN "signal" ELSE "recv")
  /\ UNCHANGED <<queueVars, svc, got, bad, hold, reply, identity, limited,
                 history>>

\* The limiter receives from one of its channels; the timer is only looked at
\* when there is something to flush.
Select(c, from, to) ==
  /\ lpc[c] = "select"
  /\ lpc' = Of(lpc, c, to)
  /\ hpc' = Of(hpc, c, from)
  /\ UNCHANGED <<queueVars, svc, got, bad, hold, reply, identity, messages,
                 batch, history>>

Signal(c) == hpc[c] = "signal" /\ Select(c, "recv", "flush")
Tick(c) == messages[c] # <<>> /\ Select(c, hpc[c], "flush")
Stop(c) == hpc[c] = "stop" /\ Select(c, "done", "last")

\* Mutants: the messages stay in the channel; the last flush does not return.
FlushKeeping(c) ==
  /\ lpc[c] \in {"flush", "last"}
  /\ batch' = Of(batch, c, messages[c])
  /\ lpc' = Of(lpc, c, IF messages[c] # <<>> THEN "send" ELSE
                       IF lpc[c] = "flush" THEN "select" ELSE "exit")
  /\ UNCHANGED <<queueVars, handler, messages, history>>

FlushWithoutReturn(c) ==
  /\ lpc[c] \in {"flush", "last"}
  /\ batch' = Of(batch, c, messages[c]) /\ messages' = Of(messages, c, <<>>)
  /\ lpc' = Of(lpc, c, IF messages[c] # <<>> THEN "send" ELSE "select")
  /\ UNCHANGED <<queueVars, handler, history>>

\* flush: without identity nothing is taken; if the first message does not
\* unmarshal all that was taken is dropped.
Flush(c) ==
  LET back == IF lpc[c] = "flush" THEN "select" ELSE "exit"
      skip == messages[c] = <<>> \/ (svc[c].identity = "first" /\ ~identity[c])
      drop == svc[c].identity = "first" /\ messages[c][1] \in bad[c]
  IN /\ lpc[c] \in {"flush", "last"}
     /\ CASE skip -> lpc' = Of(lpc, c, back) /\ UNCHANGED <<messages, batch, dropped>>
          [] ~skip /\ drop ->
               /\ lpc' = Of(lpc, c, back) /\ messages' = Of(messages, c, <<>>)
               /\ dropped' = dropped \cup Number(c, messages[c])
               /\ UNCHANGED batch
          [] OTHER ->
               /\ lpc' = Of(lpc, c, IF lpc[c] = "flush" THEN "send" ELSE "lastsend")
               /\ batch' = Of(batch, c, messages[c]) /\ messages' = Of(messages, c, <<>>)
               /\ UNCHANGED dropped
     /\ UNCHANGED <<queueVars, handler, delivered, full>>

FlushSend(c) ==
  /\ lpc[c] \in {"send", "lastsend"}
  /\ Gather(Packed(c, batch[c]))
  /\ batch' = Of(batch, c, <<>>)
  /\ lpc' = Of(lpc, c, IF lpc[c] = "send" THEN "select" ELSE "exit")
  /\ UNCHANGED <<handler, messages, dropped, delivered>>

(***************************************************************************)
(* The gatherer and the consumers of the queue.                            *)
(***************************************************************************)
Enqueuing ==
  /\ Enqueue(Gatherer)
  /\ UNCHANGED <<handler, limited, history>>

\* An event the queue refused is counted as abandoned.
Enqueued ==
  LET e == item[Gatherer]
  IN /\ Return(Gatherer)
     /\ dropped' = IF qpc[Gatherer] = "failed" THEN dropped \cup Number(e.client, e.msgs)
                   ELSE dropped
     /\ full' = FALSE
     /\ UNCHANGED <<handler, limited, delivered>>

ConsumeQueue(p) ==
  /\ Dequeue(p)
  /\ LET e == Head(subQueues[p])
     IN delivered' = [delivered EXCEPT ![e.client] =
                        [i \in DOMAIN @ |-> @[i] + (IF i \in ToSet(e.msgs) THEN 1 ELSE 0)]]
  /\ UNCHANGED <<handler, limited, dropped, full>>

-----------------------------------------------------------------------------
Init ==
  /\ QueueInit
  /\ \E receiver \in Receivers : svc \in [Clients -> receiver]
  /\ hpc = [c \in Clients |-> "recv"]
  /\ got = [c \in Clients |-> 0] /\ bad = [c \in Clients |-> {}]
  /\ hold = [c \in Clients |-> <<>>] /\ reply = [c \in Clients |-> "none"]
  /\ messages = [c \in Clients |-> <<>>] /\ identity = [c \in Clients |-> FALSE]
  /\ lpc = [c \in Clients |-> IF svc[c].mode = "limited" THEN "select" ELSE "none"]
  /\ batch = [c \in Clients |-> <<>>]
  /\ dropped = {} /\ delivered = [c \in Clients |-> [i \in 1 .. MaxMessages |-> 0]]
  /\ full = FALSE

Handling(c) ==
  \/ \E kind \in Kinds(svc[c]) : Recv(c, kind)
  \/ \E n \in 0 .. MaxMessages : RecvList(c, n)
  \/ EndOfStream(c) \/ StreamFails(c) \/ Timeout(c) \/ Send(c)
  \/ Buffer(c) \/ Check(c) \/ Signal(c) \/ Tick(c) \/ Stop(c) \/ Flush(c) \/ FlushSend(c)

Next ==
  \/ \E c \in Clients : Handling(c)
  \/ Enqueuing \/ Enqueued \/ \E p \in Partitions : ConsumeQueue(p)

Spec == Init /\ [][Next]_vars

\* Goroutines run: one of them takes a step when one can.  That is less than
\* the scheduler promises, and enough since no goroutine steps for ever once
\* clients send nothing more.  Clients need not send, and nothing is consumed
\* for certain.
Progress ==
  \/ Enqueuing \/ Enqueued
  \/ \E c \in Clients : \/ Send(c) \/ FlushSend(c) \/ Signal(c) \/ Stop(c)
                         \/ Buffer(c) \/ Check(c) \/ Flush(c)

Fairness == WF_vars(Progress)

FairSpec == Spec /\ Fairness

-----------------------------------------------------------------------------
Times(s, i) == Cardinality({k \in DOMAIN s : s[k] = i})

\* The messages of client c in the event the gatherer is enqueuing.
Gathered(c) ==
  IF qpc[Gatherer] \notin {"idle", "accepted"} /\ item[Gatherer].client = c
  THEN item[Gatherer].msgs ELSE <<>>

\* Sub-queue p holds message i of client c.
InQueue(p, c, i) ==
  \E k \in DOMAIN subQueues[p] :
    subQueues[p][k].client = c /\ i \in ToSet(subQueues[p][k].msgs)

\* Every received message is in one place, once.
OnePlace ==
  \A c \in Clients : \A i \in 1 .. got[c] :
    Times(hold[c], i) + Times(messages[c], i) + Times(batch[c], i) + Times(Gathered(c), i)
      + Cardinality({p \in Partitions : InQueue(p, c, i)})
      + delivered[c][i] + (IF <<c, i>> \in dropped THEN 1 ELSE 0) = 1

\* A sub-queue holds the messages of a client in the order it sent them, and
\* none of them twice.
InOrder ==
  \A p \in Partitions : \A j, k \in DOMAIN subQueues[p] :
    LET first == subQueues[p][j]
        second == subQueues[p][k]
    IN first.client = second.client =>
         \A a \in DOMAIN first.msgs, b \in DOMAIN second.msgs :
           (j < k \/ (j = k /\ a < b)) => first.msgs[a] < second.msgs[b]

\* A handler that has answered has handed over what it received, unless the
\* limiter of its stream still has it; and that never has too much.
Answered ==
  \A c \in Clients :
    /\ reply[c] = "ok" => hold[c] = <<>>
    /\ Len(messages[c]) <= LimitCount + 1

(***************************************************************************)
(* However the handlers, limiters, the gatherer and the consumers          *)
(* interleave, and whatever is refused: a message a handler has received   *)
(* is in one place, delivered once, or given up and counted so; sub-queues *)
(* keep the order of a client; and a stream's buffer exceeds its limit by  *)
(* one message at most, so that a handler never waits for room in it.      *)
(***************************************************************************)
Accounted == OnePlace /\ InOrder /\ Answered

(***************************************************************************)
(* An event is only refused by memory queues if no partition had room when *)
(* the gatherer called Enqueue, although the partitions are looked at one  *)
(* after the other while consumers make room in them.                      *)
(***************************************************************************)
RefusedOnlyWhenFull ==
  (queueName = "memory-queue" /\ qpc[Gatherer] = "failed") => full

(***************************************************************************)
(* A handler that sends, signals or stops gets on, however many compete    *)
(* for the gatherer, and the limiter of a stream that has ended packs what *)
(* is left and ends.                                                       *)
(***************************************************************************)
StreamEnds ==
  \A c \in Clients :
    (hpc[c] # "recv") ~>
      \/ hpc[c] = "recv"
      \/ hpc[c] = "done" /\ lpc[c] \in {"none", "exit"} /\ messages[c] = <<>>
=============================================================================
