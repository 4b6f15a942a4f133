# A TLA+ model of SkyWalking Satellite

Satellite is a side-car collector: it receives or fetches APM data, keeps it in
a local queue and sends it to a backend in batches.  This directory holds TLA+
modules that model it from the receivers to the forwarders, with its queues,
its client, its boot sequence and its own metrics, the TLC configurations that
check them on small instances, and TLAPS proofs.  `PROJECT.json` lists
components, runs, the lines of code behind every definition, hazards and
theorems.

## 1. The system

A *pipe* (a namespace in the configuration) is a chain

    receiver/fetcher -> gatherer -> queue -> gatherer -> processor -> sender -> forwarders -> client

with one channel and one goroutine per partition and stage.  Clients, servers
and the telemetry are *sharing plugins*: one object used by all pipes.

| Component | State it keeps | Operations | Interacts by |
|---|---|---|---|
| mmap queue (`plugins/queue/mmap`) | ring of segment files, four offsets in a metadata file, table of mapped segments, one spin lock per segment | `Initialize`, `Enqueue`, `Dequeue`, `Ack`, `Close`, `flush`, `segmentSwapper` | files; `flushChannel`, `markReadChannel`, `insufficientMemChannel`, `sufficientMemChannel` |
| memory and none queue | a library FIFO; nothing | the same interface | - |
| partitioned queue | the sub-queues, an index | `findPartition`, `Enqueue`, `Close` | calls; the index is shared by callers |
| gatherer | output channels, running queue | `Boot`, enqueue loop, `consumeQueue`, `Ack`, `Shutdown` | channels, queue calls |
| processor | none of its own | `processPerPartition` | channels of gatherer and sender |
| sender | batch buffers, `blocking`, `shutdownOnce`, input and flush channels | `store`, `listen`, `flush`, `consume`, `Shutdown`, `SyncInvoke` | channels; `Ack` to the gatherer; client listener |
| fallbacker | - | retries | call from `consume` |
| client (gRPC, Kafka) | connection, `status`, listeners | `snifferChannelStatus`, `reportError`, `updateStatus` | unbuffered channels to every sender |
| gRPC server | connection count, limits | accept, close | listener wrapper |
| receivers, stream limiter | one handler per stream, a channel of messages | stream loops, `Check`, `Start`, `Stop` | channel to the gatherer |
| forwarders | open streams, cache of peers | `Forward`, `SyncForward` | client connection |
| resolvers, load balancer | target groups, addresses, picker | watch, `ResolveNow`, `UpdateAddresses`, `Pick` | gRPC library |
| telemetry | metrics, reporting stream | `Inc`, `Dec`, `AddTime`, `sendMetrics` | maps, compare and swap, ticker |
| boot, sharing | modules, plugins, context | load, prepare, start, boot, close | context cancellation |
| configuration, plugin registry | - | load YAML, build by reflection | - |

### What is hard

* A record is written and read in pieces, over several segments, in a ring
  whose files are reused while the other side runs; only one store of an
  offset publishes it.
* Four offsets with different ages survive a restart.  `Ack` is stored at once,
  the watermark at the next flush.
* Segments are unmapped by a third goroutine, partly without their locks, and
  callers that hold a lock wait for that goroutine.
* Every hand-over in the pipe is a rendezvous; most sends do not look at the
  context, so the order in which goroutines see the close signal matters.
* At shutdown the buffer of a partition is used by `store` and by the
  goroutines of `shutdown0` at the same time.
* The client's status is written by several goroutines without a lock and
  announced to every sender in turn.
* Handler and limiter of a stream share a channel; the timer, a signal and the
  end of the stream compete in one `select`.
* Room in the partitions is looked for one after the other, from an index that
  callers increment without a lock.
* A forwarder sends a batch in many calls, any of which may fail; some return
  the error, some log it, some replace it by that of closing the stream.
* Addresses are replaced by two goroutines, in two steps each; a call uses a
  cached peer and a picker that may both be old.
* Every step of boot may fail, the maps of plugins and pipes are walked in any
  order, and agents connect before the modules are booted.
* Metrics are created and added to by any goroutine while they are reported.

### What makes each component correct

* **Queue**: an accepted event is delivered once, whole and in order; unread
  bytes are never overwritten; a restart finds what was acknowledged to be
  behind it and what was accepted before an orderly `Close` ahead of it.  That
  its calls return is not so: section 3.
* **Segments in memory**: a file stays mapped while it is used; the number of
  mapped files is bounded; a lock is given back; nobody waits for somebody who
  waits for him.
* **Pipe**: nothing is lost, duplicated or reordered between queue and buffer;
  an offset is acknowledged only after forwarding has ended for everything
  before it; what is in flight is bounded; without a close signal everything is
  eventually acknowledged; after one, everybody stops.
* **Client status**: the senders act on the status the client has, and go on
  once the connection is back; notifying never hangs.
* **Receivers, limiter, partitioned queue**: a message a handler has received is
  in one place, once, and in order, or known to be given up; an event is refused
  only when every partition is full; streams end.
* **Forwarders**: success means that the messages were handed over or confirmed; no stream is
  left open; a dead backend does not hold up the sender.
* **Balancer**: an instance stays with its backend; addresses follow the cluster.
* **Boot**: agents find everything prepared; plugins outlive the modules that
  use them; whatever fails, what the code can close is closed.
* **gRPC server**: the limit holds and no place is lost.
* **Telemetry**: no update is lost; the backend catches up after an outage.

## 2. Modules

| Module | Models |
|---|---|
| `MmapGeometry` | the arithmetic of offsets, segments and the ring: `GetIndex`, `IsFull`, the header's move to the next segment, the piece one copy moves |
| `MmapQueue` | `queue.go`, `queue_operation.go`, `meta.go`, `segment.go`: the bytes of the files and the four offsets, `Enqueue`, `Dequeue`, `Ack`, `flush`, `Close`, crash, `Initialize` |
| `EventQueue` | the queue its clients rely on: an unbounded FIFO (abstract specification) |
| `MmapQueueFifo` | the refinement mapping from `MmapQueue` to `EventQueue` |
| `MmapQueue_proof` | the theorems about `MmapQueue`, the refinement included |
| `MmapSegments` | `segment_operation.go`, `queue_lock.go`: mapped segments, spin locks, swapper, `doSwap`, last flush, first half of `Close` |
| `MmapSegments_proof` | the theorems about it |
| `Pipe`, `MCPipe` | gatherer, processor, sender, batch buffers and fallback, with outages and the close signal; instances |
| `Pipe_proof` | the theorems about `Pipe` |
| `ClientStatus` | `updateStatus` of the clients and the senders' `listen` |
| `ClientStatus_proof` | the theorems about it |
| `PartitionedQueue` | `partitioned_queue.go` over the memory and the none queue |
| `Ingest` | every receiver's handlers, `limitor.go` and the enqueue loop of the gatherer, composed with `PartitionedQueue` |
| `Ingest_proof` | the theorems about both |
| `Forwarders` | every forwarder: `Prepare`, `Forward`, `closeStream`, `SyncForward`; `SyncInvoke` of the sender and the handlers that call it |
| `Forwarders_proof` | the theorems about it |
| `Balancer` | the resolvers, the picker, and the cache of peers of the meter forwarders |
| `Balancer_proof` | the theorems about it |
| `AcceptLimiter` | the connection limit of the gRPC server |
| `Lifecycle` | configuration, sharing plugins, modules, signals and agents, composed with `AcceptLimiter` |
| `Telemetry` | counters, gauges and timers over several exporters, and the report of the metrics service |
| `Lifecycle_proof` | the theorems about boot and its parts: `AcceptLimiter`, `Lifecycle` and `Telemetry` |

Operators marked *Mutant* in the modules are wrong variants of the definition
that follows them.  No specification uses them; putting one in the place of its
definition must violate the property `PROJECT.json` pairs it with.

### MmapQueue

`cells` are the contents of the segment files; a byte is tagged with the
segment, event, payload length and position it was written for, so that any
misplaced, stale or torn byte is visible.  `writing`, `watermark`, `committed`,
`reading` are the metadata.  A call of `Enqueue` is `EnqueueBegin` (`IsFull`),
`WriteLength`, one `WriteBytes` per segment, `PutWritingOffset`, and, every
`FlushCeilingNum` events, the rendezvous `FlushOnSignal`; `Dequeue` likewise.
A header whose bytes are not those of one header reads as an arbitrary length.
`doFlush` is `FlushGetWriting` and `FlushPutWatermark`, because each takes the
metadata lock on its own; the `msync` before them does not change what a
process crash leaves, since the files are shared mappings.  A power loss is not
modelled.  `Ack(i)` acknowledges the last event of a batch and, as in the code,
everything before it.  The metadata stores an offset in two halves, the segment
first (`meta.go:136`).  The metadata lock hides that from the other goroutines
but not from a crash, so `Crash` may leave a watermark that `FlushPutWatermark`
was about to store, or a committed offset that `Ack` was about to store, with
the new segment and the old offset (`Torn`); the halves of the reading and the
writing offset do not matter, since `Initialize` replaces both.  `accepted`,
`born`, `out` and `sound` are history: `sound` says whether this life resumed at
the start of a record, or at the end of the last one, with every record from
there up to the writing offset whole on the files and next to another
(`Resumable`).  A crash between an `Ack` and the next flush, or between the
halves of a store, can make the next life unsound, and every later one.

The pieces of a call are steps it may take, not steps it must: the wait for the
lock of the segment, for the swapper and for `markReadChannel`, and a file that
cannot be mapped, are in `MmapSegments`, where they can end a call for good.
`MmapQueue` therefore has no fairness and promises no progress.

### MmapSegments

Offsets are segment numbers; a record is the interval of segments it lies in.
A caller takes the spin lock of a segment (`Lock`), asks the swapper if
`mmapCount` has reached the limit (`ReceiveInsufficient`, `DoSwap`,
`SendSufficient`), maps (`MapSegment`), reads the table again (`FetchSegment`)
and copies (`UseSegment`).  A copy from an unmapped file has no next step.
`DoSwap` is one turn of the inner loop and takes no lock.  A `doFlush` changes
nothing this module keeps, so only the last one, which `Close` waits for, is a
sequence of steps.

Files fail too.  One that cannot be mapped ends the call and leaves its lock
taken (`MapFails`; `stuck` are these locks).  One that cannot be flushed or
unmapped stays in the table: the swapper logs it and goes on
(`UnmapMarkedFails`), or `doSwap` ends and the swapper grants the room it did
not make (`SwapFails`; `overdraft` counts these).  `MaxFailures` bounds the
failures of a behaviour.

### Pipe

An event is its position in the queue of its partition, which is also the
offset an acknowledgement carries; the queue is `EventQueue` seen through the
counters `enqueued`, `taken` and `acked`.  `batches[p]` are all buffers `store`
has used, the last one being `s.buffers[p]`, because `flush` and `shutdown0`
hold pointers to them.  A `consume` (`call`) takes its snapshot of the events
at the start and reads `batch.Last()` at the end.  Forwarding is external: a
call of `Forward` or of `FallBack` succeeds or fails.  A send on a closed
channel (`SendPanics`) ends the process and every goroutine in it.

### ClientStatus

`updateStatus` is `CheckStatus`, `SetStatus` and, per listener, `LoadStatus`
and `Notify`, because nothing protects `c.status` between them.  Callers are
the sniffer and the goroutines in which a stream cannot be opened.  The Kafka
client is the instance with no reporters, where no two calls overlap.  `raced`
is history: opposite statuses were announced at the same time, and none has been
announced alone since.

### PartitionedQueue and Ingest

`findPartition` is `Increment` (the atomic addition), `Swap` (the compare and
swap that resets the index) and one `CheckFull` per partition; the sub-queue
looks again in `Put`.  The module allows any number of callers; a gatherer is
one.  `Ingest` runs it behind the receivers.  A *service* is a record that says
how a handler works (an event per message, one per stream, packed by the
limiter, a unary call, a list, an HTTP request; what it does with a failed or an
empty stream), so that one set of actions stands for all of them, and every
initial state gives each client a service of one receiver.  Messages are
numbered per client; `dropped` and `delivered` are history.  The limiter's timer
is looked at only when there is something to flush, since a flush of nothing
changes nothing.  That identity and peer of an Envoy metrics stream are those of
the latest message that had one is abstracted to whether an identity is known.

### Forwarders

A forwarder is a record too: when it opens streams (per batch, per event, per
key), and what it does with a failed send and a failed close.  Streams break,
expire and are answered early at any moment.  `handed` are the messages given to
the transport and `confirmed` those the backend has answered for; an answer that
comes early confirms any part of what was sent, since the transport may still
hold the rest.  The OTLP forwarder skips an event for which it cannot build a
routing key (`Routable` are the messages of the others), and refuses to be
prepared without keys; the Kafka one may fail to make its producer.  A
synchronous request is answered only if exactly one forwarder of the sender
supports it; the relay of the async profiler keeps a stream of its own in both directions.  Unary calls
need not return: the interceptor that would give them a timeout is made but not
installed (`client_config.go:89`).

### Balancer

The watch goroutine and `ResolveNow` read the target groups and replace the
addresses in two steps; removing a target group replaces nothing.  A call reads
the cached peer, is given a connection by the picker of that moment and saves
its peer: the native meter forwarder from its stream, the OTLP forwarder from
its context, which a picker with one connection does not fill in.  The peer of a
stream is an IP and port (`PeerAddress`), and the picker compares it with the
configured address: for a backend configured by host name (`Named`) they are
never the same.  `expects` remembers which backend was saved when a call read
the cache.  The picker is rebuilt in any order.  The cache of target groups is a
map without a lock, so a write during the iteration of `ResolveNow` may end the
process (`crashed`), or be missed.

### AcceptLimiter and Lifecycle

The accepting goroutine reads the limits, adds and takes back in separate steps;
`Close` of a connection may be called more than once.  `Lifecycle` adds the
process around it: `cfg` is what the file says (unreadable, incomplete, unknown
plugins or names, kind of client and exporter), `todo` what is left of the loop
boot is in.  A failing module, plugin or setting is a step of its own.  Panics
end the process: an unknown plugin, `sharing.Close` on a plugin that was not
prepared, a synchronous call before `Boot` has registered the invoker
(`SyncCall`), a Kafka client for the metrics service.  A pipe without gatherer,
sender or processor panics in the loader, before the check in `initModules`.
`sock` are the sockets of the servers: gRPC listens from `Prepare` on, before
the limits are checked, and `Stop` closes only what `Serve` was given; HTTP
listens from `Start` on, if it can, and its `Close` only logs.  `Close` of a
queue always returns nil (`mmap/queue.go:196` logs its errors, the memory and
the none queue do nothing), so the loop of the partitioned queue closes every
sub-queue.  The goroutines of `shutdown0` are left out: after the hook timeout
(`sender.go:201`) they may outlive `Boot` and use a plugin that was closed.

### Telemetry

Series with one hash share a bucket, so that `Find` has to compare labels.  An
update goes to the exporters in turn; in the metrics service it looks the series
up under the read lock, again under the write lock, and adds with compare and
swap.  The report iterates without the lock: a series created meanwhile may end
the process (`crashed`).

## 3. Runs

"Passes" means TLC visited every reachable state of the instance and found no
error.

| Run | Result | What it shows |
|---|---|---|
| `mmap_fifo` | passes | `ImplementsFifo`: the ring, wrapped around, with headers moved to the next segment and payloads split, implements the FIFO of `EventQueue` (119,136 states) |
| `mmap_crash` | passes | with records of up to three segments, `Close` or crash at any step, also in the middle of a store, and two restarts: `OffsetOrder`, `UnreadIntact`, `UnreadNeverOverwritten`, `CloseKeepsAccepted` |
| `segments_safe` | passes | `MemoryBound` (one file above the limit, and one more if a `doSwap` failed) and `PublisherUndisturbed`, with a failure at any moment and `Close` once the ring has wrapped, for events shorter than a segment and the minimum limit of four files in a ring that satisfies `LimitIsSmall` |
| `pipe_stop` | passes | `Conserved` and `HeldNotAcked` through outages, failing forwards and a close signal at any moment |
| `pipe_once` | passes | `DrainedBeforeExit`: two flush goroutines share one shutdown |
| `pipe_flow` | passes | without a close signal `AckedAfterForward`, `AckMovesForward`, `InFlightBound`, `EventuallyAcked` |
| `forward` | passes | every forwarder, every batch of two events and every synchronous request, with every call failing: `SuccessMeans`, `StreamsClosed`; `ForwardReturns` where no unary call and no producer is waited for |
| `balancer` | passes | three changes of a cluster of two backends, one of them with a host name, and three calls of two callers: `Sticky`, `AddressesFollow` |
| `ingest` | passes | two clients of every receiver with three messages, and two partitions with one place each: `Accounted`, `RefusedOnlyWhenFull`, `QueueTypeOK`, `StreamEnds` |
| `lifecycle` | passes | two pipes, every configuration, every failure, a signal at any moment, two agents: `Ready`, `StopOrder`, `Released`, `WithinLimit` |
| `telemetry` | passes | two writers, two updates, an outage and expiring streams: `CountExact`, `CatchUp` |
| `client_status` | passes | `UpdateReturns` until the close signal; `SendersAgree`: the senders have the status of the client, with any calls that announce the same at once, and after opposite ones from the next lone announcement on; `SendersRecover` |

### Properties the code does not have

Further properties are stated in the modules because a reader, a comment or a
document of the repository expects them.  TLC refutes each on the instance given
here.  They bound what the passing runs mean.

| Property | Instance | What happens |
|---|---|---|
| `MmapQueue!UnreadNeverOverwritten` | `Q` | `MaxEventSize % SegmentSize + 8 > SegmentSize`: `IsFull` reserves one segment too few, a record whose header moved to the next segment ends in the file of the oldest unread one.  `queue.go:280`: "ensure enough spaces to promise data stability."  The default sizes satisfy `EventFits` (section 4); `Initialize` does not check it |
| `MmapQueue!ReadingNotAhead` | `Q` with `MaxEventSize = 2`, `Lengths = {1, 2}`, `MaxEvents = 2`, `MaxRestarts = 1`, `Crashes = TRUE` | a crash between an `Ack`, stored at once, and the next flush: the restarted queue reads ahead of where it writes, and returns old bytes.  `queue_operation.go:42`: "More complex OFFSET design is needed to ensure the final stability of data." |
| `MmapQueue!UnackedNeverOverwritten` | `Q` with `MaxEventSize = 2`, `Lengths = {1, 2}`, `MaxUnacked = 5`, `MaxSegmentID = 5` | `IsFull` looks at the reading offset and a restart at the committed one: records delivered and not acknowledged are overwritten |
| `MmapQueue!AlwaysSound` | `Q` with `MaxEventSize = 2`, `Lengths = {1, 2}`, `MaxEvents = 2`, `MaxUnacked = 0`, `MaxRestarts = 1`, `Crashes = TRUE` | a crash between the two stores of `PutWatermarkOffset`: the watermark has the new segment and the old offset, and the restarted queue writes behind the last whole record, or reads bytes nobody wrote |
| `MmapSegments!LocksReleased` | run `segments_safe` | a file that cannot be mapped: `writeLength` and the other three return without unlocking it, and every later user of that file, the last flush of `Close` included, spins forever |
| `MmapSegments!ConsumerUndisturbed` | `S` | `doSwap` spares the segment of the reading offset only, and takes no lock: a file is unmapped while `readBytes` copies from it.  `segment_operation.go:127`: "the writing segment and the reading segment should still in memory." |
| `MmapSegments!PublisherUndisturbed` | run `segments_safe` with `Span = 1` | for events longer than a segment in a ring of at most `MaxInMemSegments + Span + 1` files, `doSwap` unmaps a file under the publisher; `LimitIsSmall` excludes such a ring |
| `MmapSegments!PublisherUndisturbed` | `S` with `MaxInMemSegments = 6`, 8 files, `MaxSegmentID = 9`, `MaxBacklog = 4` | above the minimum limit one `doSwap` unmaps several files by one snapshot of the offsets, while the publisher moves on into one of them.  Neither `LimitIsSmall` nor `RingIsRoomy` (section 4) holds; `Initialize` checks neither |
| `MmapSegments!NoWaitCycle` | `S` with `MaxSegmentID = 6` | the swapper spins on the lock of a caller that waits for the swapper |
| `MmapSegments!SwapEnds` | `S`, `FairSpec`, 8 files, `MaxSegmentID = 7` | the mapped files are not among the segments `doSwap` tries: it loops forever |
| `MmapSegments!CloseReturns` | `S`, `FairSpec`, 4 files, `MaxSegmentID = 3`, `MaxBacklog = 1`, `CloseFrom = 0` | the swapper has returned while a caller, holding a lock the last flush needs, waits for it |
| `Pipe!AckMeansForwarded` | `P` with buffers, events and total of 2, two forwarders with `MixedTypes`, two attempts, `Cancels = FALSE` | `consume` acknowledges a batch although forwarding and every retry failed.  `docs/en/concepts-and-designs/module_design.md:132`: "When all forwarders send success or process success in Fallbacker, the dispatcher would also ack the batch is a success." |
| `Pipe!BootReturns` | `P`, `FairSpec` | a close signal during an outage: `listen` has ended, nobody clears `blocking`, and `store` never looks at the context again.  `module_design.md:40`: "Boot phase is to start the current module until receives a close signal." |
| `Pipe!AckedAlwaysAfterForward` | `P` with `MaxBufferSize`, `MaxEvents`, `MaxTotal = 2` | during shutdown `store` adds an event to a buffer that is being forwarded, and `batch.Last()` acknowledges it |
| `Pipe!NoPanic` | `P` | the processor sends on a channel the sender has closed |
| `Pipe!EventuallyAcked` | `P`, `FairSpec`, `Fetching = TRUE`, `Cancels = FALSE`, `MaxTotal = 2`, two partitions, one event each, buffers of one | the fetcher's `consumeQueue` waits for all consumers before the next is started |
| `ClientStatus!SendersAlwaysRecover` | two senders, one reporter, one report, no flap, `Cancels = FALSE` | a `Disconnect` announced late, after `Connected`, blocks a sender for good |
| `Forwarders!SuccessMeansAll` | run `forward` | an OTLP request whose routing key cannot be built is skipped (`otlpmetricsv1/forwarder.go:104`), `Forward` returns nil and the sender acknowledges |
| `Balancer!StickyByName` | run `balancer` | the cached peer of a backend configured by name is an IP and port no connection has: `Pick` falls back to the hash, which another connection changes |
| `Lifecycle!AllReleased` | run `lifecycle` | the HTTP server's `Close` does nothing, and `Stop` of a gRPC server that was never started leaves the listener of `Prepare` open; both end with the process |

The instances are variations of

* `Q`: `SegmentSize = 4`, `QueueCapacitySegments = 3`, `MaxEventSize = 3`,
  `uInt64Size = 2`, `Lengths = {0, 1, 3}`, `FlushCeilingNum = 4`,
  `MaxEvents = 5`, `MaxUnacked = 2`, `MaxRestarts = 0`, `MaxSegmentID = 4`,
  `Crashes = FALSE`;
* `S`: `QueueCapacitySegments = 5`, `MaxInMemSegments = 4`, `Span = 0`,
  `MaxSegmentID = 5`, `MaxBacklog = 2`, `MaxFailures = 0`, `CloseFrom = 100`
  (no `Close`);
* `P` (module `MCPipe`): one partition, `MaxBufferSize`, `MinFlushEvents`,
  `MaxAttempts`, `MaxEvents` and `MaxTotal` of 1, one forwarder and one type,
  `Fetching = FALSE`, `Cancels = TRUE`, `Disconnects = TRUE`.

What the newer modules do not promise is in the statement of their properties:
`SuccessMeans` says nothing of forwarders that go on after a failed send
(`nativelog`, `nativeebpfaccesslog`), of data that cannot be routed, or of the
backend's side of a stream it answered early; `ForwardReturns` nothing of unary
calls and of the Kafka producer; `Sticky` nothing of two calls that have read
different peers; `AddressesFollow` nothing of a backend that is missing because
an old address list was applied last, and nothing after a crash over the cache;
`Released` nothing of the HTTP server, of a gRPC listener that was never served
and of the sub-queues of a failed `Initialize`; `CatchUp` nothing after a crash
of the report.  `Ready` does not cover the invoker of synchronous calls.

### Bounds, and why they are enough

* **Queue**: segments of 4 bytes and headers of 2 make every alignment of a
  header and of a payload's end occur.  Rings of 3 and 4 files wrap around with four
  events; `MaxEventSize = 6` in `mmap_crash` gives records that
  touch three segments.  Two restarts: a life that was not sound can commit a
  position inside a record, and only the life after it resumes there.
  `MaxUnacked` bounds the batch a sender holds, `MaxSegmentID` how far the
  consumer reads.
* **Segments**: `MaxInMemSegments = 4` is the code's minimum; rings of 5 and 6
  files let the segments doSwap looks at overlap the ones in use or not.
  One failure (`MaxFailures`) can be any file at any step; `CloseFrom = 6`, where
  the ring of six has been gone around, keeps the states of a closing queue apart
  from most others, since `Close` changes nothing for the publisher.
  The wholesale unmapping in `doSwap` needs a longer backlog than this run has:
  it occurs with `MaxBacklog = 3` and `MaxSegmentID = 7`, an instance that passes
  as well (`MaxFailures = 0`, no `Close`), as does the same with a ring of 3
  files.  Larger limits in a roomy
  ring have too many states and are left to the proof.
* **Pipe**: two events fill a buffer and three leave one over; seven fill both
  buffers of `InFlightBound` and all hand-over points.  Two forwarders and an
  event type without one cover `consume`'s loop.  Two partitions are what
  `shutdownOnce` and the fetcher's loop need.
* **Client**: two senders, two reporters, two changes of the connection and two
  reported errors: enough for a recovery, an overlap of three calls, and a
  notification that is half done when the next call begins.

* **Ingest**: two clients compete for the gatherer; three messages exceed the
  stream limit of two, so that a batch is packed by number, by time and by the
  end of the stream; two events fill both partitions and the third is refused.
  One caller of `Enqueue` is what a gatherer is: the race for the index is left
  to the proof, which has any number.
* **Forwarders**: batches of two events with up to two messages and two keys:
  the first, the last and a later message fail, streams of two keys are open at
  once, an event is skipped.  Two attempts are a `Forward` and a `FallBack`.
* **Balancer**: two backends are what a picker with one and with several
  connections needs, one configured by IP and one by name; three changes let a
  backend come, go and come back.
* **Lifecycle**: two pipes make the order of preparing matter; two partitions,
  one opened when the second fails.  A limit of one connection with two agents
  reaches the limit.
* **Telemetry**: two writers, two updates of two series in one bucket: a lost
  update needs two additions, a duplicate series two first uses.  One bucket
  makes the hashes of the two series collide.  `TelemetryAssumption` also asks
  for finitely many writers and two different series.

`CHECK_DEADLOCK FALSE` is set where the system stops by design (after a close
signal or at a bound) or where the run is about a property the stuck state
itself violates.

### Fairness

No progress is claimed of the mmap queue (`MmapQueue` has no fairness): its calls
wait for locks and for the swapper, and `NoWaitCycle`, `SwapEnds`, `CloseReturns`
and `LocksReleased` show that the waits need not end.  The fairness of
`MmapSegments` serves to show that they do not end although everybody runs.

Weak fairness for the steps of a running goroutine.  Strong fairness for the
cases of a `select` a goroutine comes back to again and again, since Go chooses
at random among the ready ones, and in `MmapSegments` for a spin lock that is
free again and again.  The sender's timers fire, a lost connection comes back
(`WF(Listen /\ blocking)`) and `store` sees that it has (`SF(CheckBlocking)`),
and `ShutdownHookTime` passes.  Nothing is assumed of producers, of the close
signal, of losing the connection or of crashes.

In `Ingest` some goroutine that can step does (`WF(Progress)`); that is weaker
than what the scheduler promises, and clients need not send, nor anybody consume.
In `Forwarders` the goroutine runs and the stream timeout fires; no answer is
assumed.  In `Balancer` gRPC notices lost connections and asks again for as long
as an address cannot be connected, hence `SF(ResolveNow)`.  In `Telemetry` the
ticker ticks and the report runs.

## 4. Proofs

Every theorem holds for all values of the constants, the bounds that keep TLC's
instances finite included; the assumptions on constants are the `ASSUME`s of the
modules, which TLC evaluates in every run.  An invariant that is not inductive
as it stands is strengthened by what is listed here.

### MmapQueue

* **TypeCorrect** (`[]TypeOK`).  Not immediate: every cursor stays inside its
  segment because a piece never exceeds the room left in it.
* **RingIsSafe** (`UnreadNeverOverwritten`), **OffsetsAreOrdered**
  (`[]OffsetOrder`), **UnreadIsIntact** (`[]UnreadIntact`), **CloseLosesNothing**
  (`CloseKeepsAccepted`), all under `EventFits`, with any number of restarts and
  of crashes, in the middle of a store included.
* **RingIsFifo** (`ImplementsFifo`): under `EventFits` and `MaxRestarts = 0`,
  every step of the ring is a step of `EventQueue` or leaves it alone.

`EventFits` (`MaxEventSize % SegmentSize + uInt64Size <= SegmentSize`) is the
condition under which `IsFull` reserves enough; the default configuration
satisfies it and instance `Q` of section 3 shows it is needed.  The refinement is
about one life of the process, because the abstract queue has no restart: a
restart delivers again what was not acknowledged.

`RingIsSafe` is about steps, and only `WriteLength` and `WriteBytes` change
bytes.  `IndInv` adds to `TypeOK`

* `Tagged`: a byte written for segment `i` lies in file `i % capacity`, so two
  different segments in one file are at least a whole ring apart;
* `WriterBounded`: while a record is written, `IsFull` would still say no (the
  reading offset only moves forward: `ReaderForward`), and what is left to
  write ends before segment `writing.id + MaxEventSize/SegmentSize + 2`;
* `ClosedIsIdle`: no call is under way when a restart moves the offsets back.

A write therefore touches segments less than a ring ahead of the reading
offset, and no byte between reading and writing offset lies in the same file at
the same place.

`RecordsInv` adds what is known of records.  In every life, sound or not, the
accepted records lie one after the other, in the order of their events, behind
the writing offset (`Chained`), the watermark of an open queue is not ahead of
the publisher (`Marked`), the last flush covers what was accepted before `Close`
(`LastFlush`), and a closed queue has no flush and no batch under way
(`ClosedIsEmpty`).  Nothing is said of where a watermark or a committed offset
lies that a crash has torn: a restart after it is sound only if `Resumable` finds
it to be.  In a sound life (`Consistent`) the reading offset is the start of a
record or of the space to write, every unread record is followed by another or
by that space (`Joined`), the acknowledged offsets are not ahead of the reading
offset (`AcksBehind`), every record between
reading and writing is whole (`UnreadIntact`), the bytes of the record being
written are those written so far (`Written`), and a `Dequeue` under way has read
a prefix of the record at the reading offset (`Delivering`).  A write keeps
`UnreadIntact` by `RingIsSafe`'s argument.  The proof attempt showed that
soundness had to be a property of the whole interval between the offsets, and
that only a second restart can break a weaker one; `mmap_crash` has two for this
reason.

`FifoInv` adds that the records not yet read can be listed in the order of their
events, which is the abstract queue.  Arithmetic of `Advance`, `HeaderAt`,
`Chunk`, division and remainder, and what is on the tape after a write, are
lemmas of their own.

### MmapSegments

**SegmentsTypeCorrect** (`[]TypeOK`) and **SegmentsStayInMemory**
(`[]MemoryBound`), for every ring, every limit of at least four (`Initialize`
enforces that), records of any length and any number of failing files.  The
bound is one above the limit because a caller looks at `mmapCount` first and maps
later, and one more for every `doSwap` that failed and was granted.  `SegmentsInv` adds

* `RecordThere`: a consumer inside a call has a record to read;
* `OneServed`: the swapper looks for room exactly as long as one caller waits,
  and the two never wait both;
* `RoomPromised`: mapped files, together with the callers past the check and the
  grant under way, are at most the limit plus one and `overdraft`.

The attempt to prove the type of `doSwap`'s loop variable corrected the model:
its inner loop also ends below segment 0, which happens in a ring smaller than
the limit.

**PublisherIsUndisturbed** (`[]PublisherUndisturbed`), in a ring with
`RingIsRoomy` or `LimitIsSmall`.  `doSwap` takes no locks: it remembers both
offsets and unmaps some of the `MaxInMemSegments` files before the remembered
writing offset, seen around the ring, until about half the limit is free, or all
of them when the backlog is long (`ClearAll`).  When it works for the consumer
the publisher goes on meanwhile, so the question is whether it can come around
to one of these files.  With a long backlog `IsFull` keeps it away; otherwise it
is the number of mapped files that does.  `PublisherInv` adds to `SegmentsInv`

* `Locked`: who holds which lock, and that the publisher holds no other but those
  of files that could not be mapped;
* `Ordered` and `Enqueuing`: records follow one another between the offsets, and
  the one being written ends less than a ring ahead of the reading offset, which
  is what `IsFull` reserves;
* `Snapshot`: the remembered offsets are behind the current ones, and `doSwap` is
  at one of the files they lead to;
* `InMemory` and `NotFar`: the publisher's file is mapped, and before those files;
* for a small limit, `FullWhileSwapping`: `doSwap` ends with the first file that
  makes room, and until then the publisher can map nothing and does not get
  there;
* for a roomy ring, `Trail`: of any two segments next to each other that the
  publisher has passed since the snapshot one is still mapped.  A way of more
  than twice the limit is therefore a way over more files than may be mapped,
  which `SegmentsStayInMemory` excludes (`Pairs`, a counting argument).

`RingIsRoomy` (`QueueCapacitySegments >= 3 * MaxInMemSegments + Span + 2`) is
true of the default configuration, 10 mapped files out of 2000 and events shorter
than a segment.  `LimitIsSmall` covers limits of four and five in rings of more
than `MaxInMemSegments + Span + 1` files.  Between the two lie the instances of
section 3 on which the property fails; where exactly it begins to hold is open.

### Pipe

**PipeTypeCorrect** (`[]TypeOK`), **PipeConserves** (`[]Conserved`),
**PipeHoldsUnacked** (`[]HeldNotAcked`), **PipeAcksAfterForward**
(`[]AckedAfterForward`), **PipeAcksForward** (`AckMovesForward`),
**PipeBoundsInFlight** (`[]InFlightBound`) and **PipeDrains**
(`[]DrainedBeforeExit`), for any number of partitions and events, any list of
forwarders and attempts and any buffer size.  `PipeInv` has four parts:

* per partition, `Flow`: the buffers hold the events `1 .. n` in order, only the
  last may be empty, and the events in the hands of `store`, the processor and
  the gatherer are the next three; `Sizes`: `Add` never finds a full buffer;
  `Flushed`: `flush` consumes the buffer before the current one, or the current
  one until it is renewed;
* per `consume`, `Running` or `Idle`: a running one is on a buffer that is not
  empty, and the events it has passed are forwarded or given up;
* before the close signal, `Undisturbed` (no shutdown step has happened) and
  `InTurn`: the acknowledged offset is the end of the last consumed buffer;
* `Shutdown`: who runs `shutdownOnce` and what is done when it ends.

`Conserved` speaks of `FlattenSeq`, a recursive function of the library; that
the flattened buffers are `1 .. n` is proved with the least buffer for which it
would fail.

### ClientStatus

**ClientTypeCorrect** (`[]TypeOK`) and **ClientSendersAgree** (`[]SendersAgree`),
for any number of senders and reporting goroutines.  `ClientInv`: unless `raced`,
those past their check announce one status (`OneStatus`), each of them has told
the senders before the one it is at, and it is the status of the client
(`Announced`), and when there is none the senders agree (`Quiet`).

### Forwarders

**ForwardersTypeCorrect** (`[]TypeOK`), **ForwardersCloseStreams**
(`[]StreamsClosed`) and **ForwardersSuccess** (`[]SuccessMeans`), for every
forwarder of the repository, every batch of any length and any set of keys.
`ForwardInv` says where `Forward` can be for each kind of forwarder (`Styled`,
`AtEvent`, `Attempts`), what a stream holds (`Table`, `Unopened`), that it goes
on only without an error (`Unfailed`), what a ping left out stands for
(`PingedOnce`), that everything up to the current message was handed to the
transport unless an error was forgotten (`HandedSoFar`, `HandedAll`), and that,
if no answer came early, what was handed is answered for or in a stream still to
be closed (`Unlost`).  All but the skipped messages, that is.

### Balancer

**BalancerTypeCorrect** (`[]TypeOK`: the picker holds each ready connection once)
and **BalancerSticky** (`Sticky`), for any finite set of backends and any
callers.  `BalancerInv` adds the types of the watched changes (`Noticed`) and of
the picker's connections (`Connections`), that nothing is resolved before
`Prepare` (`NotPrepared`), and that every call that waits for its connection asks
for what the backend it expects is known as, its address or the peer address of a
stream (`AsksForOwner`).

### PartitionedQueue and Ingest

* **QueueIsSafe** (`[]QueueTypeOK`), for any number of partitions and of
  concurrent callers.  `SearchBounded` adds that the position of a search is a
  partition at every step, so that it is not left over when the compare and swap
  puts a caller into the search directly.
* **GathererRefusesOnlyWhenFull** (`[]RefusedOnlyWhenFull`).  `RoomAhead`: a
  partition that had room when `Enqueue` was called is still ahead of the search,
  and has room, because only the gatherer fills partitions.
* **IngestAccounts** (`[]Accounted`), for every receiver and any number of
  clients, messages and partitions.  `AccountInv` says per client what handler
  and limiter have in their hands at each point of their code (`Hands`), how full
  the stream's buffer can be there (`Buffered`), that what is on its way to the
  queue is sorted and behind what is in the queue (`Behind`), and that every
  message received is in exactly one place (`Places`).

Assumptions: there is a gatherer, the clients are a finite set, the stream limit
is not zero.

### AcceptLimiter and Lifecycle

**LimitHolds** (`LimiterSpec => []WithinLimit`), for every limit and every finite
set of clients.  `LimiterInv` adds that the connection being checked is new
(`AcceptingNew`), so that adding it takes a place nobody had, that a connection
is closed exactly as long as a call of `Close` has not ended and that an open one
has its `closeOnce` unused (`ClosingOnce`), so that a place is given back once,
and that the count is bounded by the limit (`PlacesCounted`).

For every set of pipes, number of partitions, limit and set of agents:
**BootIsReady** (`[]Ready`), **BootReleases** (`[]Released`),
**BootStopsInOrder** (`StopOrder`) and **BootedWithinLimit** (`[]WithinLimit` in
the whole process).  All rest on `LifeInv`: the invariant of the limiter; that
nothing is started, closed or connected early (`NotYet`); how far the loops over
pipes and plugins have come (`PreparedSoFar`, `PluginsSoFar`); that whatever is
let in finds everything prepared (`LetIn`); that modules run in the boot
phase only and leave their queue closed (`ModulesSoFar`); and that the gRPC
socket is served exactly as long as its plugin is started (`SocketsSoFar`).  A connection appears
only when the server is started or when one is there already
(`OnlyAcceptLetsIn`), which is what ties the two parts together.

### Telemetry

**TelemetryCountsExactly** (`TelemetrySpec => []CountExact`), for any finite set
of writers, any number of updates, any hashes and both configurations of the
exporters, with the report running at any moment.  `TelemetryInv` adds

* `AtSubMetric`: what is left of an update is a rest of the list it began with,
  and from the lookup to the compare and swap a writer is at the sub-metric of
  its series;
* `Registered`: a series is in its bucket once at most, two series have different
  sub-metrics, and a value is what the finished additions amount to.  The second
  lookup, under the write lock, is what the first part needs, and the comparison
  in compare and swap is what the last one needs;
* `Agreeing`: Prometheus and the metrics service differ by the writers that have
  told one and not yet the other, those that add minus those that subtract.  When
  no writer is under way there is none, and the two agree.

### Only model-checked

Every invariant and action property of the runs is the subject of a theorem.
The rest is liveness, which TLAPS does not reason about (fairness, `ENABLED`):
`EventuallyAcked`, `ForwardReturns`, `AddressesFollow`, `StreamEnds`, `CatchUp`,
`UpdateReturns`, `SendersRecover`.

## 5. Not modelled, and what is left

* The documentation generator, the plugin registry, the environment variables in
  the configuration, log formatting and generated protobuf code keep no state
  and run nothing concurrently.
* TLS, dialling, Prometheus, pprof, the HTTP server and the Kafka producer are
  libraries or I/O; the models see what they answer.
* A power loss with pages that were not synced (`doFlush` syncs before it reads
  the writing offset), and `Close` unmapping files under running calls.
* Sub-queues of the mmap kind under a partitioned queue: `partitioned_queue.go:55`
  sets `pipe_name`, which the mmap queue does not read, so all of them would use
  one directory.  The models take a sub-queue to be on its own.
* `Close` of the partitioned queue is one step; it always succeeds.

Worth doing next: a module for power loss; `Pipe` composed with `ClientStatus`;
the smallest ring for each limit in which `PublisherUndisturbed` holds.
