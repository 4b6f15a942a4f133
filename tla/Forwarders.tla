----------------------------- MODULE Forwarders -----------------------------
(***************************************************************************)
(* The forwarders: how each of them turns a batch into calls of the        *)
(* backend, what it does when one of these calls fails, and what the       *)
(* result it returns to the sender means.                                  *)
(*                                                                         *)
(* A forwarder is a record that says how it is put together; the actions   *)
(* below run it.  An event is a record: its type is "own" when it holds    *)
(* the data the forwarder is for, "ping" for the second kind of data of    *)
(* the management protocol, "unroutable" for data of its own that it finds *)
(* no routing key in and "other" for anything else; size is the number of  *)
(* messages it holds and key what a forwarder that keeps several streams   *)
(* chooses the stream by.                                                  *)
(***************************************************************************)
EXTENDS Integers, Sequences, FiniteSets

CONSTANTS
  Keys,            \* service instances, or the two kinds of tracing data
  Clients,         \* kinds of client a pipe may be configured with
  MaxBatch,        \* bound: events of a batch
  MaxSize,         \* bound: messages of an event
  MaxAttempts      \* attempts of forwarding, FallBack included

ASSUME ForwardersAssumption ==
  MaxBatch \in Nat /\ MaxSize \in Nat \ {0} /\ MaxAttempts \in Nat \ {0}

(***************************************************************************)
(* The forwarders.  Open says when streams are opened: one per batch, one  *)
(* per event, one per key when the first event of the key is met, or none  *)
(* because the calls are unary or go to a producer.  onSend and onClose    *)
(* say what becomes of a failed SendMsg and a failed CloseAndRecv.         *)
(***************************************************************************)
Forwarder(open, onSend, onClose, many) ==
  [client |-> "grpc", open |-> open, onSend |-> onSend, onClose |-> onClose,
   many |-> many,        \* an event holds a list of messages
   checked |-> TRUE,     \* events of another type are skipped
   skipsEmpty |-> FALSE, pings |-> FALSE,
   routes |-> FALSE,     \* data without a routing key is dropped
   sync |-> {}]          \* the requests SyncForward answers

EnvoyALSv3 == [Forwarder("batch", "return", "log", TRUE) EXCEPT !.checked = FALSE]
EnvoyALSv2 == [Forwarder("batch", "return", "log", TRUE) EXCEPT !.checked = FALSE]
EnvoyMetricsv3 == Forwarder("event", "return", "log", TRUE)
EnvoyMetricsv2 == Forwarder("event", "return", "log", TRUE)
NativeLog == Forwarder("event", "next", "log", TRUE)
NativeEBPFAccessLog == Forwarder("event", "next", "log", TRUE)
NativeEvent == Forwarder("batch", "close", "return", FALSE)
NativeProfile == [Forwarder("batch", "close", "return", FALSE)
                    EXCEPT !.sync = {"ProfileTaskQuery", "ProfileTaskFinish"}]
NativeEBPFProfiling ==
  [Forwarder("batch", "close", "return", TRUE)
     EXCEPT !.sync = {"EBPFProfilingTaskQuery", "PolicyQuery", "ProfilingReport"}]
NativeTracing == Forwarder("key", "return", "return", FALSE)
NativeMeter == [Forwarder("key", "return", "log", FALSE) EXCEPT !.skipsEmpty = TRUE]
OTLPMetrics == [Forwarder("unary", "return", "return", FALSE) EXCEPT !.routes = TRUE]
NativeManagement == [Forwarder("unary", "return", "return", FALSE) EXCEPT !.pings = TRUE]
NativeProcess == [Forwarder("unary", "return", "return", FALSE)
                    EXCEPT !.sync = {"EBPFProcessReport"}]
NativeJVM == [Forwarder("unary", "return", "return", FALSE) EXCEPT !.checked = FALSE]
NativeCLR == [Forwarder("unary", "return", "return", FALSE) EXCEPT !.checked = FALSE]
NativeCDS == [Forwarder("none", "return", "return", FALSE)
                EXCEPT !.sync = {"ConfigurationSync"}]
NativeAsyncProfiler == [Forwarder("none", "return", "return", FALSE)
                          EXCEPT !.sync = {"AsyncTaskQuery", "AsyncData"}]
KafkaLog == [Forwarder("produce", "return", "return", TRUE) EXCEPT !.client = "kafka"]

Forwarders ==
  {EnvoyALSv3, EnvoyALSv2, EnvoyMetricsv3, EnvoyMetricsv2, NativeLog,
   NativeEBPFAccessLog, NativeEvent, NativeProfile, NativeEBPFProfiling,
   NativeTracing, NativeMeter, OTLPMetrics, NativeManagement, NativeProcess,
   NativeJVM, NativeCLR, NativeCDS, NativeAsyncProfiler, KafkaLog}

\* What the handlers of the receivers ask SyncInvoke for.
FetchConfigurations == "ConfigurationSync"
ReportProcesses == "EBPFProcessReport"
GetProfileTaskCommands == "ProfileTaskQuery"
ReportTaskFinish == "ProfileTaskFinish"
QueryTasks == "EBPFProfilingTaskQuery"
QueryPolicies == "PolicyQuery"
ReportProfilingTask == "ProfilingReport"
GetAsyncProfilerTaskCommands == "AsyncTaskQuery"
Collect == "AsyncData"

Requests ==
  {FetchConfigurations, ReportProcesses, GetProfileTaskCommands, ReportTaskFinish, QueryTasks,
   QueryPolicies, ReportProfilingTask, GetAsyncProfilerTaskCommands, Collect}
NoRequest == "none"

Events(f) ==
  [type : {"own"} \cup (IF f.pings THEN {"ping"} ELSE {})
                  \cup (IF f.routes THEN {"unroutable"} ELSE {})
                  \cup (IF f.checked THEN {"other"} ELSE {}),
   key : Keys,
   size : IF f.many THEN 0 .. MaxSize ELSE IF f.skipsEmpty THEN {0, 1} ELSE {1}]

VARIABLES
  running, fwd,    \* the forwarders of the sender, and the one that forwards
  batch,           \* the events of its type
  pc, ev, msg,     \* Forward and the event and message it is at
  pinged,          \* pingOnce of the management forwarder
  streams,         \* the open streams, by key
  err, stop,       \* the error it holds, and whether it is on its way out
  attempt,
  handed,          \* history: messages SendMsg took in this attempt
  confirmed,       \* history: messages the backend has answered for
  early,           \* history: it answered before a stream was closed
  request, rpc,    \* a SyncInvoke of a receiver
  up               \* the backend's side of the stream it returned

call == <<pc, ev, msg, pinged, streams, err, stop, attempt>>
history == <<handed, confirmed, early>>
sync == <<request, rpc, up>>
setting == <<running, fwd, batch>>
vars == <<setting, call, history, sync>>

Whole == "whole"
NoStream == [st |-> "none", sent |-> {}]
StreamKey(e) == IF fwd.open = "key" THEN batch[e].key ELSE Whole
Opened == {k \in DOMAIN streams : streams[k].st # "none"}
Set(f, k, v) == [f EXCEPT ![k] = v]

(***************************************************************************)
(* Sender.Prepare: a forwarder refuses the connection of a client of       *)
(* another kind.  One that routes by labels refuses when none is set, and  *)
(* the one that produces when no producer can be made of the client.       *)
(***************************************************************************)
Prepare(client) ==
  /\ pc = "new"
  /\ \/ pc' = "idle" /\ \A f \in running : f.client = client
     \/ /\ pc' = "refused"
        /\ \E f \in running : f.client # client \/ f.routes \/ f.open = "produce"
  /\ UNCHANGED <<setting, ev, msg, pinged, streams, err, stop, attempt, history,
                 sync>>

(***************************************************************************)
(* Forward.                                                                *)
(***************************************************************************)
Forward ==
  /\ pc = "idle" /\ batch # <<>>
  /\ pc' = CASE fwd.open = "none" -> "returned"
             [] fwd.open = "batch" -> "open"
             [] fwd.open = "produce" -> "produce"
             [] OTHER -> "next"
  /\ err' = (fwd.open = "none") /\ stop' = FALSE
  /\ ev' = 1 /\ msg' = 1 /\ pinged' = {} /\ handed' = {} /\ confirmed' = {}
  /\ attempt' = attempt + 1 /\ early' = FALSE
  /\ UNCHANGED <<setting, streams, sync>>

Skipped(e) ==
  \/ batch[e].type \in {"other", "unroutable"}
  \/ batch[e].type = "ping" /\ batch[e].key \in pinged
  \/ fwd.skipsEmpty /\ batch[e].size = 0

\* The loop over the batch.
NextEvent ==
  /\ pc = "next"
  /\ IF ev > Len(batch)
     THEN pc' = (IF Opened = {} THEN "returned" ELSE "close") /\ stop' = TRUE
          /\ UNCHANGED ev
     ELSE IF Skipped(ev)
     THEN ev' = ev + 1 /\ UNCHANGED <<pc, stop>>
     ELSE /\ pc' = CASE fwd.open = "unary" -> "call"
                     [] StreamKey(ev) \in Opened -> "send"
                     [] OTHER -> "open"
          /\ UNCHANGED <<ev, stop>>
  /\ msg' = 1
  /\ UNCHANGED <<setting, pinged, streams, err, attempt, history, sync>>

\* Opening a stream; the batch style opens before it looks at the events.
Open ==
  /\ pc = "open"
  /\ streams' = Set(streams, IF fwd.open = "batch" THEN Whole ELSE StreamKey(ev),
                    [st |-> "open", sent |-> {}])
  /\ pc' = IF fwd.open = "batch" THEN "next" ELSE "send"
  /\ UNCHANGED <<setting, ev, msg, pinged, err, stop, attempt, history, sync>>

OpenFails ==
  /\ pc = "open"
  /\ err' = TRUE /\ stop' = TRUE
  /\ pc' = IF Opened = {} THEN "returned" ELSE "close"
  /\ UNCHANGED <<setting, ev, msg, pinged, streams, attempt, history, sync>>

\* The messages of an event are all sent: an "event" stream is closed.
EndEvent ==
  /\ pc = "send" /\ msg > batch[ev].size
  /\ pc' = IF fwd.open = "event" THEN "close" ELSE "next"
  /\ ev' = ev + 1
  /\ UNCHANGED <<setting, msg, pinged, streams, err, stop, attempt, history, sync>>

\* The meters of one event make up one message.
Sending == pc = "send" /\ msg <= batch[ev].size

\* SendMsg hands the message to the transport; it may still get lost.
Send ==
  LET k == StreamKey(ev)
  IN /\ Sending /\ streams[k].st = "open"
     /\ streams' = [streams EXCEPT ![k].sent = @ \cup {<<ev, msg>>}]
     /\ handed' = handed \cup {<<ev, msg>>}
     /\ msg' = msg + 1
     /\ UNCHANGED <<setting, pc, ev, pinged, err, stop, attempt, confirmed, early, sync>>

\* Mutants: the failed stream is not closed; the error is forgotten.
SendFailsLeaving ==
  /\ Sending /\ streams[StreamKey(ev)].st \in {"broken", "ended"}
  /\ err' = TRUE /\ stop' = TRUE
  /\ pc' = "returned"
  /\ UNCHANGED <<setting, ev, msg, pinged, streams, attempt, history, sync>>

SendFailsForgotten ==
  /\ Sending /\ streams[StreamKey(ev)].st \in {"broken", "ended"}
  /\ err' = FALSE /\ stop' = (fwd.onSend # "next")
  /\ pc' = "close" /\ ev' = ev + 1
  /\ UNCHANGED <<setting, msg, pinged, streams, attempt, history, sync>>

\* SendMsg fails on a stream that has ended.  Every forwarder closes what it
\* has opened; "close" replaces the error by the result of closing, and
\* "next" goes on with the next event.
SendFails ==
  /\ Sending /\ streams[StreamKey(ev)].st \in {"broken", "ended"}
  /\ err' = (fwd.onSend = "return") /\ stop' = (fwd.onSend # "next")
  /\ pc' = "close" /\ ev' = ev + 1
  /\ UNCHANGED <<setting, msg, pinged, streams, attempt, history, sync>>

\* After one CloseAndRecv: the other streams, the next event, or the return.
AfterClose(k) ==
  /\ streams' = Set(streams, k, NoStream)
  /\ pc' = CASE Opened # {k} -> "close"
             [] Opened = {k} /\ stop -> "returned"
             [] OTHER -> "next"
  /\ UNCHANGED <<setting, ev, msg, pinged, stop, attempt, handed, early, sync>>

\* The backend answers once it has read the whole stream.
Close(k) ==
  /\ pc = "close" /\ streams[k].st = "open"
  /\ AfterClose(k)
  /\ confirmed' = confirmed \cup streams[k].sent
  /\ UNCHANGED err

\* The answer is there already.
CloseEnded(k) ==
  /\ pc = "close" /\ streams[k].st = "ended"
  /\ AfterClose(k)
  /\ UNCHANGED <<err, confirmed>>

CloseFails(k) ==
  /\ pc = "close" /\ streams[k].st = "broken"
  /\ AfterClose(k)
  /\ err' = (err \/ fwd.onClose = "return")
  /\ UNCHANGED confirmed

\* A unary call per event, answered or failed.  Nothing bounds its time.
UnaryReturns ==
  /\ pc = "call"
  /\ confirmed' = confirmed \cup {<<ev, 1>>} /\ handed' = handed \cup {<<ev, 1>>}
  /\ pinged' = IF batch[ev].type = "ping" THEN pinged \cup {batch[ev].key} ELSE pinged
  /\ ev' = ev + 1 /\ pc' = "next"
  /\ UNCHANGED <<setting, msg, streams, err, stop, attempt, early, sync>>

UnaryFails ==
  /\ pc = "call"
  /\ err' = TRUE /\ stop' = TRUE /\ pc' = "returned"
  /\ UNCHANGED <<setting, ev, msg, pinged, streams, attempt, history, sync>>

\* The messages of the batch, and those that can be sent.
Messages ==
  {p \in (1 .. Len(batch)) \X (1 .. MaxSize) :
     batch[p[1]].type # "other" /\ p[2] <= batch[p[1]].size}
Routable == {p \in Messages : batch[p[1]].type # "unroutable"}

\* SendMessages of the producer fails when any message failed.
Produce ==
  /\ pc = "produce"
  /\ \E some \in SUBSET Routable :
       confirmed' = some /\ handed' = some /\ err' = (some # Routable)
  /\ pc' = "returned" /\ stop' = TRUE
  /\ UNCHANGED <<setting, ev, msg, pinged, streams, attempt, early, sync>>

\* Mutant: one attempt too many.
FallBackOnceMore ==
  /\ pc = "returned" /\ err /\ attempt <= MaxAttempts
  /\ pc' = "idle"
  /\ UNCHANGED <<setting, ev, msg, pinged, streams, err, stop, attempt, history,
                 sync>>

\* FallBack: Forward is called again with the whole batch.
FallBack ==
  /\ pc = "returned" /\ err /\ attempt < MaxAttempts
  /\ pc' = "idle"
  /\ UNCHANGED <<setting, ev, msg, pinged, streams, err, stop, attempt, history,
                 sync>>

(***************************************************************************)
(* The streams.  Every stream has the timeout of the interceptor; unary    *)
(* calls have none, since the interceptor made for them is not installed.  *)
(***************************************************************************)
Broken(k) ==
  /\ streams[k].st = "open"
  /\ streams' = [streams EXCEPT ![k].st = "broken"]
  /\ UNCHANGED <<setting, pc, ev, msg, pinged, err, stop, attempt, history, sync>>

\* The backend fails, or the connection is lost.
Break(k) == Broken(k)

\* Mutant: the timeout ends when the stream has been opened.
ExpireOpening(k) == pc = "open" /\ Broken(k)

\* The timeout, until RecvMsg has returned.
Expire(k) == Broken(k)

\* The backend answers before the stream is closed, for what it has read.
EndEarly(k) ==
  /\ streams[k].st = "open"
  /\ streams' = [streams EXCEPT ![k].st = "ended", ![k].sent = {}]
  /\ \E read \in SUBSET streams[k].sent : confirmed' = confirmed \cup read
  /\ early' = TRUE
  /\ UNCHANGED <<setting, pc, ev, msg, pinged, err, stop, attempt, handed, sync>>

(***************************************************************************)
(* SyncInvoke, in the goroutine of a receiver.                             *)
(***************************************************************************)
Syncing == {f \in running : f.sync # {}}

\* Exactly one forwarder of the sender may support it.
SyncInvoke ==
  /\ pc = "idle" /\ request # NoRequest /\ rpc = "idle"
  /\ rpc' = IF \/ Cardinality(Syncing) # 1
               \/ \E f \in Syncing : request \notin f.sync
            THEN "failed"
            ELSE IF request = Collect THEN "relay" ELSE "unary"
  /\ up' = IF rpc' = "relay" THEN "open" ELSE up
  /\ UNCHANGED <<setting, call, history, request>>

SyncReturns ==
  /\ rpc = "unary"
  /\ rpc' \in {"answered", "failed"}
  /\ UNCHANGED <<setting, call, history, request, up>>

\* SyncForward sends the first message and waits for the answer.
RelayFails ==
  /\ rpc = "relay" /\ up = "broken"
  /\ rpc' = "failed"
  /\ UNCHANGED <<setting, call, history, request, up>>

\* The agent's stream ends (the backend's half is closed) or fails (it is not).
AgentEnds ==
  /\ rpc = "relay" /\ up = "open"
  /\ rpc' \in {"answered", "failed"}
  /\ up' = IF rpc' = "answered" THEN "closing" ELSE up
  /\ UNCHANGED <<setting, call, history, request>>

\* The timeout of a bidirectional stream is not cancelled by RecvMsg.
RelayExpires ==
  /\ up \in {"open", "closing"}
  /\ up' = "broken"
  /\ UNCHANGED <<setting, call, history, request, rpc>>

-----------------------------------------------------------------------------
\* A sender with one or two forwarders has a batch for one of them or a request.
Init ==
  /\ fwd \in Forwarders
  /\ \E f \in Forwarders : running = {fwd, f}
  /\ \/ /\ request = NoRequest /\ running = {fwd}
        /\ \E n \in 1 .. MaxBatch : batch \in [1 .. n -> Events(fwd)]
     \/ /\ request \in Requests /\ batch = <<>>
  /\ pc = "new" /\ ev = 1 /\ msg = 1 /\ pinged = {}
  /\ streams = [k \in Keys \cup {Whole} |-> NoStream]
  /\ err = FALSE /\ stop = FALSE /\ attempt = 0
  /\ handed = {} /\ confirmed = {} /\ early = FALSE
  /\ rpc = "idle" /\ up = "none"

Step ==
  \/ Forward \/ NextEvent \/ Open \/ OpenFails \/ EndEvent \/ SendFails \/ FallBack
  \/ \E k \in DOMAIN streams : CloseFails(k) \/ CloseEnded(k)

Relay == SyncInvoke \/ SyncReturns \/ RelayFails \/ AgentEnds \/ RelayExpires

Next ==
  \/ \E c \in Clients : Prepare(c)
  \/ Step \/ Send \/ UnaryReturns \/ UnaryFails \/ Produce \/ Relay
  \/ \E k \in DOMAIN streams : Close(k) \/ Break(k) \/ Expire(k) \/ EndEarly(k)

Spec == Init /\ [][Next]_vars

\* The goroutine runs and timers fire; the backend may never answer.
Fairness ==
  /\ WF_vars(Step)
  /\ \A k \in Keys \cup {Whole} : WF_vars(Expire(k))

FairSpec == Spec /\ Fairness

-----------------------------------------------------------------------------
(***************************************************************************)
(* The types; Forward stays inside its batch and its attempts, and a       *)
(* request is only relayed by the forwarder that has streams for it.       *)
(***************************************************************************)
TypeOK ==
  /\ pc \in {"new", "refused", "idle", "next", "open", "send", "call", "produce",
             "close", "returned"}
  /\ ev \in 1 .. Len(batch) + 1 /\ msg \in 1 .. MaxSize + 1
  /\ pinged \subseteq Keys
  /\ \A k \in DOMAIN streams :
       /\ streams[k].st \in {"none", "open", "broken", "ended"}
       /\ streams[k].sent \subseteq Routable
  /\ err \in BOOLEAN /\ stop \in BOOLEAN /\ attempt \in 0 .. MaxAttempts
  /\ handed \subseteq Routable /\ confirmed \subseteq handed /\ early \in BOOLEAN
  /\ rpc \in {"idle", "unary", "relay", "answered", "failed"}
  /\ up \in {"none", "open", "closing", "broken"}

\* The messages a ping reported once stands for.
Covered(s) ==
  s \cup {<<e, 1>> : e \in {d \in 1 .. Len(batch) :
            batch[d].type = "ping" /\ \E p \in s : batch[p[1]] = batch[d]}}

(***************************************************************************)
(* What the sender may conclude from a Forward without error.  A forwarder *)
(* that returns the error of closing its streams, or makes unary calls,    *)
(* has an answer of the backend for every message of the batch that can be *)
(* routed, unless the backend answered a stream early: what it had not     *)
(* read then is lost.  One that only returns the errors of sending has     *)
(* handed all of them to the transport.  For a forwarder that goes on      *)
(* after a failed send it means neither, and nothing is ever sent of the   *)
(* data without a routing key.                                             *)
(***************************************************************************)
SuccessMeans ==
  (pc = "returned" /\ ~err) =>
    /\ fwd.onClose = "return" /\ ~early => Covered(confirmed) = Routable
    /\ fwd.onSend = "return" => Covered(handed) = Routable

\* That nothing was dropped.
SuccessMeansAll ==
  (pc = "returned" /\ ~err /\ fwd.onSend = "return") => Covered(handed) = Messages

(***************************************************************************)
(* Whatever failed and in whichever order: a Forward that has returned has *)
(* closed every stream it opened.                                          *)
(***************************************************************************)
StreamsClosed == pc \in {"idle", "returned"} => Opened = {}

(***************************************************************************)
(* A backend that stops answering does not hold up a sender for good: the  *)
(* stream timeout makes Forward return.  It is not so for unary calls and  *)
(* the producer.                                                           *)
(***************************************************************************)
ForwardReturns ==
  fwd.open \notin {"unary", "produce"} =>
    (pc \in {"next", "open", "send", "close"} ~> pc = "returned")
=============================================================================
