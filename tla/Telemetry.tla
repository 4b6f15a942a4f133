----------------------------- MODULE Telemetry -----------------------------
(***************************************************************************)
(* The satellite's own metrics: counters, gauges and timers that any       *)
(* goroutine may update, kept once for every configured exporter, and the  *)
(* goroutine of the metrics service that reports them to the backend.      *)
(*                                                                         *)
(* A series is a metric with its label values.  Values are updated with    *)
(* compare and swap; the map of the series is guarded by a lock that the   *)
(* report does not take.                                                   *)
(***************************************************************************)
EXTENDS Integers, Sequences, SequencesExt, FiniteSets

CONSTANTS
  Writers,
  Sum, Count,        \* the two series of a timer; also those of counters
  Buckets,           \* hash values
  MaxUpdates,        \* bound: updates
  MaxOutages,        \* bound: failures of the backend
  StreamTicks        \* reports a stream survives before it times out

\* With a timeout shorter than the interval of the reports all of them fail.
ASSUME TelemetryAssumption ==
  /\ MaxUpdates \in Nat /\ MaxOutages \in Nat /\ Buckets # {}
  /\ StreamTicks \in Nat \ {0}
  /\ IsFiniteSet(Writers) /\ Sum # Count

Series == {Sum, Count}
MS == "metrics_service"
Exporters == {<<"prometheus", MS>>, <<MS, "none">>}

VARIABLES
  exporters,         \* the exporters, in the order of the configuration
  hash,              \* the hash of the label values of a series
  wpc, work,         \* the writers, and the values they are still to update
  sub, old,          \* the sub-metric an update is at, and what it has read
  metrics, vals,     \* the metric of the metrics service, and its values
  prom,              \* the values of the Prometheus client
  called,            \* history: what the finished updates amount to
  updates,
  tpc, unread, snap, \* the report, the series it has not looked at, its values
  stream, age,       \* its stream and the reports that were sent on it
  backend, outages,
  reported,          \* history: what the backend was last told
  crashed            \* the map was written while it was iterated over

writing == <<wpc, work, sub, old, metrics, vals, prom, called, updates>>
reporting == <<tpc, unread, snap, stream, age, reported>>
setting == <<exporters, hash>>
world == <<backend, outages>>
telemetry == <<setting, writing, reporting, world, crashed>>

NoMetric == [b \in {} |-> <<>>]
Of(f, x, v) == [f EXCEPT ![x] = v]

(***************************************************************************)
(* Every user of a metric makes it when it is prepared; who comes second   *)
(* is given the one that is there.                                         *)
(***************************************************************************)
NewMetric(w) ==
  /\ wpc[w] = "new"
  /\ metrics' = IF metrics = NoMetric THEN [b \in Buckets |-> <<>>] ELSE metrics
  /\ wpc' = Of(wpc, w, "idle")
  /\ UNCHANGED <<setting, work, sub, old, vals, prom, called, updates, reporting, world,
                 crashed>>

\* An update goes to one exporter after the other.
Call(w, list) ==
  /\ wpc[w] = "idle" /\ updates < MaxUpdates
  /\ updates' = updates + 1
  /\ work' = Of(work, w, list) /\ wpc' = Of(wpc, w, "next")
  /\ UNCHANGED <<setting, sub, old, metrics, vals, prom, called, reporting, world,
                 crashed>>

Entry(e, s, d) == [exporter |-> e, series |-> s, delta |-> d]

\* Inc of counters and gauges, and Dec of gauges.
Inc(w, s) == Call(w, [i \in DOMAIN exporters |-> Entry(exporters[i], s, 1)])
Dec(w, s) == Call(w, [i \in DOMAIN exporters |-> Entry(exporters[i], s, -1)])

\* A timer adds to its sum and then to its count.
AddTime(w) ==
  Call(w, [i \in 1 .. 2 * Len(exporters) |->
             Entry(exporters[(i + 1) \div 2], IF i % 2 = 1 THEN Sum ELSE Count, 1)])

\* The next exporter: none and pprof ignore it, Prometheus adds atomically.
NextExporter(w) ==
  /\ wpc[w] = "next"
  /\ LET t == Head(work[w])
     IN IF work[w] = <<>>
        THEN wpc' = Of(wpc, w, "idle") /\ UNCHANGED <<work, prom>>
        ELSE IF t.exporter = MS
        THEN wpc' = Of(wpc, w, "find") /\ UNCHANGED <<work, prom>>
        ELSE /\ work' = Of(work, w, Tail(work[w]))
             /\ prom' = IF t.exporter = "prometheus"
                        THEN Of(prom, t.series, prom[t.series] + t.delta) ELSE prom
             /\ UNCHANGED wpc
  /\ UNCHANGED <<setting, sub, old, metrics, vals, called, updates, reporting, world,
                 crashed>>

(***************************************************************************)
(* The metrics service.                                                    *)
(***************************************************************************)
\* Where findMetricWithLabelValues finds the label values of a series: series
\* with the same hash share a bucket.  The first place counts.
Find(s) ==
  IF metrics = NoMetric THEN {}
  ELSE {k \in DOMAIN metrics[hash[s]] : metrics[hash[s]][k].values = s}

SubMetric(s) ==
  metrics[hash[s]][CHOOSE k \in Find(s) : \A j \in Find(s) : k <= j].metric

\* Under the read lock.
GetMetric(w) ==
  LET s == Head(work[w]).series
  IN /\ wpc[w] = "find"
     /\ IF Find(s) # {}
        THEN sub' = Of(sub, w, SubMetric(s)) /\ wpc' = Of(wpc, w, "load")
        ELSE wpc' = Of(wpc, w, "create") /\ UNCHANGED sub
     /\ UNCHANGED <<setting, work, old, metrics, vals, prom, called, updates,
                    reporting, world, crashed>>

\* Under the write lock, where it looks again.  A report that iterates over the
\* map at this moment may crash the process.
GetOrCreateMetric(w) ==
  LET s == Head(work[w]).series
  IN /\ wpc[w] = "create"
     /\ IF Find(s) # {}
        THEN sub' = Of(sub, w, SubMetric(s)) /\ UNCHANGED <<metrics, vals, crashed>>
        ELSE /\ vals' = Append(vals, 0) /\ sub' = Of(sub, w, Len(vals) + 1)
             /\ metrics' = [metrics EXCEPT ![hash[s]] =
                              Append(@, [values |-> s, metric |-> Len(vals) + 1])]
             /\ crashed' \in (IF tpc = "write" THEN BOOLEAN ELSE {FALSE})
     /\ wpc' = Of(wpc, w, "load")
     /\ UNCHANGED <<setting, work, old, prom, called, updates, reporting, world>>

\* The loop of addFloat64.
LoadValue(w) ==
  /\ wpc[w] = "load"
  /\ old' = Of(old, w, vals[sub[w]]) /\ wpc' = Of(wpc, w, "swap")
  /\ UNCHANGED <<setting, work, sub, metrics, vals, prom, called, updates, reporting,
                 world, crashed>>

\* Mutant: the value is stored without comparing.
StoreValue(w) ==
  LET t == Head(work[w])
  IN /\ wpc[w] = "swap"
     /\ vals' = Of(vals, sub[w], old[w] + t.delta)
     /\ called' = Of(called, t.series, called[t.series] + t.delta)
     /\ work' = Of(work, w, Tail(work[w])) /\ wpc' = Of(wpc, w, "next")
     /\ UNCHANGED <<setting, sub, old, metrics, prom, updates, reporting, world,
                    crashed>>

CompareAndSwap(w) ==
  LET t == Head(work[w])
  IN /\ wpc[w] = "swap"
     /\ IF vals[sub[w]] = old[w]
        THEN /\ vals' = Of(vals, sub[w], old[w] + t.delta)
             /\ called' = Of(called, t.series, called[t.series] + t.delta)
             /\ work' = Of(work, w, Tail(work[w])) /\ wpc' = Of(wpc, w, "next")
             /\ sub' = Of(sub, w, 0)
        ELSE wpc' = Of(wpc, w, "load") /\ UNCHANGED <<vals, called, work, sub>>
     /\ old' = Of(old, w, 0)
     /\ UNCHANGED <<setting, metrics, prom, updates, reporting, world,
                    crashed>>

(***************************************************************************)
(* sendMetrics, on every tick.                                             *)
(***************************************************************************)
Tick ==
  /\ tpc = "idle"
  /\ IF stream = "none" /\ ~backend THEN UNCHANGED <<tpc, stream, age, unread>>
     ELSE /\ tpc' = "write" /\ unread' = Series
          /\ IF stream = "none" THEN stream' = "open" /\ age' = 0
             ELSE UNCHANGED <<stream, age>>
  /\ UNCHANGED <<setting, writing, snap, reported, world, crashed>>

\* WriteMetric of a series, without the lock.
WriteMetric(s) ==
  /\ tpc = "write" /\ s \in unread
  /\ snap' = IF Find(s) = {} THEN snap
             ELSE [r \in DOMAIN snap \cup {s} |->
                     IF r = s THEN vals[SubMetric(s)] ELSE snap[r]]
  /\ unread' = unread \ {s}
  /\ tpc' = IF unread' = {} THEN "send" ELSE tpc
  /\ UNCHANGED <<setting, writing, stream, age, reported, world, crashed>>

\* Mutant: a failed stream is kept.
SendKeeping ==
  /\ tpc = "send" /\ tpc' = "idle"
  /\ snap' = [s \in {} |-> 0]
  /\ IF DOMAIN snap # {} /\ stream = "open"
     THEN /\ age' = IF age < StreamTicks THEN age + 1 ELSE age
          /\ reported' = [s \in Series |-> IF s \in DOMAIN snap THEN snap[s] ELSE reported[s]]
     ELSE UNCHANGED <<age, reported>>
  /\ UNCHANGED <<setting, writing, unread, stream, world, crashed>>

\* A report on a failed stream is lost; the stream is opened again.
Send ==
  /\ tpc = "send"
  /\ snap' = [s \in {} |-> 0]
  /\ IF DOMAIN snap = {} THEN tpc' = "idle" /\ UNCHANGED <<age, reported>>
     ELSE IF stream = "open"
     THEN /\ tpc' = "idle" /\ age' = IF age < StreamTicks THEN age + 1 ELSE age
          /\ reported' = [s \in Series |-> IF s \in DOMAIN snap THEN snap[s] ELSE reported[s]]
     ELSE tpc' = "reopen" /\ UNCHANGED <<age, reported>>
  /\ UNCHANGED <<setting, writing, unread, stream, world, crashed>>

\* openBatchStream: when it fails the old stream stays, to fail again.
Reopen ==
  /\ tpc = "reopen"
  /\ stream' = IF backend THEN "open" ELSE "failed"
  /\ age' = 0 /\ tpc' = "idle"
  /\ UNCHANGED <<setting, writing, unread, snap, reported, world, crashed>>

\* The timeout of the client's streams.
Expire ==
  /\ stream = "open" /\ age >= StreamTicks
  /\ stream' = "failed"
  /\ UNCHANGED <<setting, writing, tpc, unread, snap, age, reported, world, crashed>>

Outage ==
  /\ backend /\ outages < MaxOutages
  /\ backend' = FALSE /\ outages' = outages + 1
  /\ stream' = IF stream = "open" THEN "failed" ELSE stream
  /\ UNCHANGED <<setting, writing, tpc, unread, snap, age, reported, crashed>>

Recover ==
  /\ ~backend /\ backend' = TRUE
  /\ UNCHANGED <<setting, writing, reporting, outages, crashed>>

-----------------------------------------------------------------------------
TelemetryInit ==
  /\ exporters \in Exporters /\ hash \in [Series -> Buckets]
  /\ wpc = [w \in Writers |-> "new"]
  /\ work = [w \in Writers |-> <<>>]
  /\ sub = [w \in Writers |-> 0] /\ old = [w \in Writers |-> 0]
  /\ metrics = NoMetric /\ vals = <<>>
  /\ prom = [s \in Series |-> 0] /\ called = [s \in Series |-> 0] /\ updates = 0
  /\ tpc = "idle" /\ unread = {} /\ snap = [s \in {} |-> 0]
  /\ stream = "none" /\ age = 0 /\ reported = [s \in Series |-> 0]
  /\ backend = TRUE /\ outages = 0 /\ crashed = FALSE

Writing(w) ==
  \/ NewMetric(w) \/ AddTime(w) \/ NextExporter(w) \/ GetMetric(w) \/ GetOrCreateMetric(w)
  \/ LoadValue(w) \/ CompareAndSwap(w)
  \/ \E s \in Series : Inc(w, s) \/ Dec(w, s)

Reporting == Tick \/ (\E s \in Series : WriteMetric(s)) \/ Send \/ Reopen

TelemetryNext ==
  /\ ~crashed
  /\ \/ \E w \in Writers : Writing(w)
     \/ Reporting
     \/ Expire \/ Outage \/ Recover

TelemetrySpec == TelemetryInit /\ [][TelemetryNext]_telemetry

\* The ticker ticks, and the report runs.
FairTelemetrySpec == TelemetrySpec /\ WF_telemetry(~crashed /\ Reporting)

-----------------------------------------------------------------------------
Value(s) == IF Find(s) = {} THEN 0 ELSE vals[SubMetric(s)]

(***************************************************************************)
(* No update is lost however goroutines interleave, with the first use of  *)
(* a series and hashes that collide included: a series has one sub-metric, *)
(* which holds what the updates amount to; and when no update is under way *)
(* all exporters agree.                                                    *)
(***************************************************************************)
CountExact ==
  \A s \in Series :
    /\ (\A j, k \in Find(s) : j = k) /\ Value(s) = called[s]
    /\ ("prometheus" \in ToSet(exporters) /\ \A w \in Writers : wpc[w] \in {"new", "idle"})
         => prom[s] = Value(s)

(***************************************************************************)
(* Outages and timeouts of the stream cost reports but not values: if the  *)
(* backend stays up it is eventually told every value, unless the process  *)
(* has crashed.                                                            *)
(***************************************************************************)
CatchUp ==
  (<>[]backend) =>
    <>[](crashed \/ \A s \in Series : reported[s] = Value(s))
=============================================================================
