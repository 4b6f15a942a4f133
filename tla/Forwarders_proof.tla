-------------------------- MODULE Forwarders_proof --------------------------
(***************************************************************************)
(* What the result of Forward means, for every forwarder, every batch of   *)
(* any length and sizes, any set of stream keys and every order in which   *)
(* streams break, expire or are answered early.                            *)
(***************************************************************************)
EXTENDS Forwarders, TLAPS

\* How the forwarders are put together, as far as the argument needs it.
WellFormed(f) ==
  /\ f.onSend = "close" => f.open = "batch" /\ f.onClose = "return"
  /\ f.open = "event" => f.onClose # "return"
  /\ f.onClose = "return" => f.onSend \in {"return", "close"}
  /\ f.open = "unary" => ~f.many /\ ~f.skipsEmpty
  /\ f.pings => ~f.many /\ ~f.skipsEmpty

\* What the sender has given to Forward.
GoodBatch ==
  /\ WellFormed(fwd) /\ batch \in Seq(Events(fwd))

\* Where Forward can be for the way its forwarder opens streams.
Styled ==
  /\ pc = "open" => fwd.open \notin {"unary", "none", "produce"}
  /\ pc = "send" => fwd.open \notin {"unary", "none", "produce"}
  /\ pc = "call" => fwd.open = "unary"
  /\ pc = "next" => fwd.open \notin {"none", "produce"}
  /\ pc = "close" => fwd.open \notin {"unary", "none", "produce"}
  /\ pc = "produce" => fwd.open = "produce"

\* The event Forward is at was not skipped.
AtEvent ==
  (pc \in {"send", "call"} \/ (pc = "open" /\ fwd.open # "batch")) =>
    ev \in 1 .. Len(batch) /\ ~Skipped(ev)

\* A stream holds what was handed to it and is not yet answered for.
Table ==
  /\ streams \in [Keys \cup {Whole} -> [st : {"none", "open", "broken", "ended"},
                                        sent : SUBSET handed]]
  /\ \A k \in Keys \cup {Whole} : streams[k].st \in {"none", "ended"} => streams[k].sent = {}
  /\ \A k \in Keys \cup {Whole} : streams[k].st = "ended" => early
  /\ (pc = "new" \/ fwd.open \in {"unary", "none", "produce"}) => Opened = {}

\* A stream is opened where there is none, before any message of the event.
Unopened == pc = "open" => streams[StreamKey(ev)].st = "none" /\ msg = 1

\* Forward goes on only as long as it holds no error.
Unfailed ==
  /\ pc \in {"next", "open", "send", "call"} => ~err /\ ~stop
  /\ pc = "close" /\ ~stop => ~err /\ fwd.onClose # "return"

\* There is an attempt left when Forward is called.
Attempts ==
  /\ pc = "new" => attempt = 0
  /\ pc = "idle" => attempt < MaxAttempts

\* A ping is only left out when one with the same content was answered for.
PingedOnce ==
  pc \in {"next", "open", "send", "call", "close"} =>
    \A k \in pinged : \E p \in confirmed : batch[p[1]].type = "ping" /\ batch[p[1]].key = k

\* A failed send that waits for the result of closing: the stream is broken,
\* so that the close will fail.
Failing == pc = "close" /\ fwd.onSend = "close" /\ streams[Whole].st = "broken"

\* The errors that Forward has not forgotten.
Clean == ~err /\ (fwd.onSend = "return" \/ (fwd.onSend = "close" /\ ~early))

\* A message is in s, or it is a ping that one in s stands for.
Told(p, s) ==
  p \in s \/ (batch[p[1]].type = "ping" /\ \E q \in s : batch[q[1]] = batch[p[1]])

\* As long as nothing failed, the events before the current one were handed to
\* the transport, and so were the messages before the current one.
HandedSoFar ==
  (pc \in {"next", "open", "send", "call", "close"} /\ Clean /\ ~Failing) =>
    /\ \A p \in Routable : p[1] < ev => Told(p, handed)
    /\ pc = "send" => \A m \in 1 .. msg - 1 : <<ev, m>> \in handed
    /\ pc = "close" /\ stop => ev = Len(batch) + 1

\* When Forward has returned that was the whole batch.
HandedAll == (pc = "returned" /\ Clean) => \A p \in Routable : Told(p, handed)

\* What was handed is answered for, or in a stream that is still to be closed.
Unlost ==
  (fwd.onClose = "return" /\ ~err /\ ~early) =>
    \A p \in handed : p \in confirmed \/ \E k \in Keys \cup {Whole} : p \in streams[k].sent

\* The inductive invariant.
ForwardInv ==
  /\ TypeOK /\ StreamsClosed /\ GoodBatch /\ Styled /\ AtEvent /\ Table /\ Attempts
  /\ Unopened /\ Unfailed /\ PingedOnce /\ HandedSoFar /\ HandedAll /\ Unlost

-----------------------------------------------------------------------------
\* Every forwarder is put together that way.
LEMMA AllWellFormed ==
  ASSUME NEW f \in Forwarders
  PROVE  WellFormed(f)
<1> USE DEF WellFormed, Forwarder
<1>1. WellFormed(EnvoyALSv3) /\ WellFormed(EnvoyALSv2)
  BY DEF EnvoyALSv3, EnvoyALSv2
<1>2. WellFormed(EnvoyMetricsv3) /\ WellFormed(EnvoyMetricsv2)
  BY DEF EnvoyMetricsv3, EnvoyMetricsv2
<1>3. WellFormed(NativeLog) /\ WellFormed(NativeEBPFAccessLog)
  BY DEF NativeLog, NativeEBPFAccessLog
<1>4. WellFormed(NativeEvent) /\ WellFormed(NativeProfile) /\ WellFormed(NativeEBPFProfiling)
  BY DEF NativeEvent, NativeProfile, NativeEBPFProfiling
<1>5. WellFormed(NativeTracing) /\ WellFormed(NativeMeter)
  BY DEF NativeTracing, NativeMeter
<1>6. WellFormed(OTLPMetrics) /\ WellFormed(NativeManagement) /\ WellFormed(NativeProcess)
  BY DEF OTLPMetrics, NativeManagement, NativeProcess
<1>7. WellFormed(NativeJVM) /\ WellFormed(NativeCLR)
  BY DEF NativeJVM, NativeCLR
<1>8. WellFormed(NativeCDS) /\ WellFormed(NativeAsyncProfiler)
  BY DEF NativeCDS, NativeAsyncProfiler
<1>9. WellFormed(KafkaLog)
  BY DEF KafkaLog
<1> HIDE DEF WellFormed, Forwarder
<1> QED
  BY <1>1, <1>2, <1>3, <1>4, <1>5, <1>6, <1>7, <1>8, <1>9 DEF Forwarders

\* The events of a batch.
LEMMA EventTypes ==
  ASSUME GoodBatch, NEW e \in 1 .. Len(batch)
  PROVE  /\ batch[e] \in [type : {"own", "ping", "unroutable", "other"}, key : Keys, size : 0 .. MaxSize]
         /\ (fwd.open = "unary" \/ batch[e].type = "ping") => batch[e].size = 1
<1>1. batch[e] \in Events(fwd)
  BY DEF GoodBatch
<1>2. /\ batch[e] \in [type : {"own", "ping", "unroutable", "other"}, key : Keys, size : 0 .. MaxSize]
      /\ batch[e].type = "ping" => fwd.pings
      /\ ~fwd.many /\ ~fwd.skipsEmpty => batch[e].size = 1
  BY <1>1, ForwardersAssumption DEF Events
<1> QED
  BY <1>2 DEF GoodBatch, WellFormed

\* A message is known by its event and its place in it.
LEMMA MessageOf ==
  ASSUME GoodBatch, NEW e \in 1 .. Len(batch), NEW m \in Nat \ {0},
         batch[e].type \notin {"other", "unroutable"}, m <= batch[e].size
  PROVE  <<e, m>> \in Routable
<1>1. batch[e].size \in 0 .. MaxSize
  BY EventTypes
<1>2. <<e, m>> \in (1 .. Len(batch)) \X (1 .. MaxSize)
  BY <1>1, ForwardersAssumption
<1> QED
  BY <1>2 DEF Messages, Routable

\* The other way round.
LEMMA OfMessage ==
  ASSUME GoodBatch, NEW p \in Routable
  PROVE  /\ p = <<p[1], p[2]>> /\ p[1] \in 1 .. Len(batch) /\ p[2] \in Nat \ {0}
         /\ batch[p[1]].type \notin {"other", "unroutable"} /\ p[2] <= batch[p[1]].size
BY DEF Messages, Routable

\* Told says the same as Covered.
LEMMA ToldIsCovered ==
  ASSUME GoodBatch, NEW s \in SUBSET Routable, \A p \in Routable : Told(p, s)
  PROVE  Covered(s) = Routable
<1>1. ASSUME NEW p \in Routable PROVE p \in Covered(s)
  <2>1. /\ p = <<p[1], p[2]>> /\ p[1] \in 1 .. Len(batch) /\ p[2] \in Nat \ {0}
        /\ p[2] <= batch[p[1]].size
    BY OfMessage
  <2>2. CASE p \in s
    BY <2>2 DEF Covered
  <2>3. CASE batch[p[1]].type = "ping" /\ \E q \in s : batch[q[1]] = batch[p[1]]
    <3>1. p = <<p[1], 1>>
      BY <2>1, <2>3, EventTypes
    <3> QED
      BY <2>1, <2>3, <3>1 DEF Covered
  <2> QED
    BY <2>2, <2>3 DEF Told
<1>2. ASSUME NEW d \in 1 .. Len(batch), batch[d].type = "ping" PROVE <<d, 1>> \in Routable
  BY <1>2, EventTypes, MessageOf
<1> QED
  BY <1>1, <1>2 DEF Covered

\* The batch stays, and so do its messages.
LEMMA SameMessages ==
  ASSUME UNCHANGED setting, GoodBatch
  PROVE  Routable' = Routable /\ GoodBatch'
<1>1. fwd' = fwd /\ batch' = batch
  BY DEF setting
<1> QED
  BY <1>1 DEF Messages, Routable, GoodBatch, WellFormed, Events

\* Nothing is forwarded at first.
LEMMA ForwardInit == Init => ForwardInv
<1> SUFFICES ASSUME Init PROVE ForwardInv
  OBVIOUS
<1>1. GoodBatch
  <2>1. batch = <<>> \/ \E n \in 1 .. MaxBatch : batch \in [1 .. n -> Events(fwd)]
    BY DEF Init
  <2>2. ASSUME NEW n \in 1 .. MaxBatch, NEW S, batch \in [1 .. n -> S] PROVE batch \in Seq(S)
    BY <2>2, ForwardersAssumption
  <2>3. batch \in Seq(Events(fwd))
    <3>1. CASE batch = <<>>
      BY <3>1
    <3>2. CASE \E n \in 1 .. MaxBatch : batch \in [1 .. n -> Events(fwd)]
      BY <2>2, <3>2, Zenon
    <3> QED
      BY <2>1, <3>1, <3>2
  <2> QED
    BY <2>3, AllWellFormed DEF Init, GoodBatch
<1>2. Len(batch) \in Nat
  BY <1>1 DEF GoodBatch
<1>3. TypeOK
  <2>1. \A k \in DOMAIN streams : streams[k] = [st |-> "none", sent |-> {}]
    BY DEF Init, NoStream
  <2>2. /\ ev \in 1 .. Len(batch) + 1 /\ msg \in 1 .. MaxSize + 1
        /\ attempt \in 0 .. MaxAttempts
    BY <1>2, ForwardersAssumption DEF Init
  <2>3. err \in BOOLEAN /\ stop \in BOOLEAN /\ early \in BOOLEAN
    BY DEF Init
  <2>4. /\ pc = "new" /\ pinged = {} /\ handed = {} /\ confirmed = {}
        /\ rpc = "idle" /\ up = "none"
    BY DEF Init
  <2> QED
    BY <2>1, <2>2, <2>3, <2>4 DEF TypeOK
<1>4. Table
  BY DEF Init, Table, NoStream, Opened
<1> QED
  BY <1>1, <1>3, <1>4, ForwardersAssumption
     DEF Init, ForwardInv, StreamsClosed, Styled, AtEvent, Attempts, PingedOnce,
         Unopened, Unfailed,
         HandedSoFar, HandedAll, Unlost

\* Nothing has been forwarded when the forwarder is prepared.
LEMMA PrepareStep ==
  ASSUME ForwardInv, NEW c \in Clients, Prepare(c)
  PROVE  ForwardInv'
<1> USE DEF ForwardInv, Prepare, history, sync, Set
<1>1. Routable' = Routable /\ GoodBatch' /\ batch' = batch /\ fwd' = fwd
  BY SameMessages DEF setting
<1>2. Len(batch) \in Nat /\ ev \in Nat /\ msg \in Nat /\ ev >= 1 /\ msg >= 1
  BY DEF GoodBatch, TypeOK
<1>3. TypeOK'
  BY <1>1, <1>2, ForwardersAssumption DEF TypeOK, Table, Attempts, AtEvent, NoStream
<1>4. Table' /\ StreamsClosed'
  BY <1>1 DEF Table, StreamsClosed, Styled, Opened, NoStream, TypeOK, StreamKey
<1>5. Styled' /\ Attempts'
  BY <1>1, ForwardersAssumption DEF Styled, Attempts, TypeOK
<1>6. AtEvent'
  BY <1>1, <1>2 DEF AtEvent, Skipped
<1>7. PingedOnce'
  BY <1>1 DEF PingedOnce
<1>8. HandedSoFar'
  BY <1>1, <1>2 DEF HandedSoFar, Clean, Failing, Told
<1>9. HandedAll'
  BY <1>1, <1>2 DEF HandedAll, HandedSoFar, Clean, Failing, Told
<1>10. Unlost'
  BY <1>1 DEF Unlost, Table, NoStream
<1>11. Unopened'
  BY <1>1 DEF Unopened, StreamKey, Table
<1>12. Unfailed'
  BY <1>1 DEF Unfailed, GoodBatch, WellFormed
<1> QED
  BY <1>1, <1>3, <1>4, <1>5, <1>6, <1>7, <1>8, <1>9, <1>10, <1>11, <1>12

\* A new attempt starts from nothing, with all streams of the last one closed.
LEMMA ForwardStep ==
  ASSUME ForwardInv, Forward
  PROVE  ForwardInv'
<1> USE DEF ForwardInv, Forward, history, sync, Set
<1>1. Routable' = Routable /\ GoodBatch' /\ batch' = batch /\ fwd' = fwd
  BY SameMessages DEF setting
<1>2. Len(batch) \in Nat /\ ev \in Nat /\ msg \in Nat /\ ev >= 1 /\ msg >= 1
  BY DEF GoodBatch, TypeOK
<1>3. TypeOK'
  <2>1. attempt + 1 \in 0 .. MaxAttempts
    BY ForwardersAssumption DEF TypeOK, Attempts
  <2>2. pc' \in {"returned", "open", "produce", "next"}
    BY DEF TypeOK
  <2>3. err' \in BOOLEAN /\ stop' \in BOOLEAN /\ early' \in BOOLEAN
    BY Zenon
  <2> QED
    BY <1>1, <1>2, <2>1, <2>2, <2>3, ForwardersAssumption DEF TypeOK
<1>4. Table' /\ StreamsClosed'
  BY <1>1 DEF Table, StreamsClosed, Styled, Opened, NoStream, TypeOK, StreamKey
<1>5. Styled' /\ Attempts'
  BY <1>1, ForwardersAssumption DEF Styled, Attempts, TypeOK
<1>6. AtEvent'
  BY <1>1, <1>2 DEF AtEvent, Skipped
<1>7. PingedOnce'
  BY <1>1 DEF PingedOnce
<1>8. HandedSoFar'
  <2>1. \A p \in Routable : ~(p[1] < 1)
    BY OfMessage
  <2>2. ev' = 1 /\ pc' \notin {"send", "close"} 
    OBVIOUS
  <2> QED
    BY <1>1, <2>1, <2>2 DEF HandedSoFar
<1>9. HandedAll'
  BY <1>1, <1>2 DEF HandedAll, HandedSoFar, Clean, Failing, Told
<1>10. Unlost'
  BY <1>1 DEF Unlost, Table, NoStream
<1>11. Unopened'
  <2>1. StreamKey(ev)' \in Keys \cup {Whole} \/ pc' # "open"
    BY <1>1 DEF StreamKey
  <2> QED
    BY <1>1, <2>1 DEF Unopened, StreamsClosed, Opened, Table
<1>12. Unfailed'
  BY <1>1 DEF Unfailed, GoodBatch, WellFormed
<1> QED
  BY <1>1, <1>3, <1>4, <1>5, <1>6, <1>7, <1>8, <1>9, <1>10, <1>11, <1>12

\* The loop over the batch: a skipped event holds no message, or a ping that was
\* answered for.
LEMMA NextEventStep ==
  ASSUME ForwardInv, NextEvent
  PROVE  ForwardInv'
<1> USE DEF ForwardInv, NextEvent, history, sync, Set
<1>1. Routable' = Routable /\ GoodBatch' /\ batch' = batch /\ fwd' = fwd
  BY SameMessages DEF setting
<1>2. Len(batch) \in Nat /\ ev \in Nat /\ msg \in Nat /\ ev >= 1 /\ msg >= 1
  BY DEF GoodBatch, TypeOK
<1>u. UNCHANGED <<setting, pinged, streams, err, attempt, history, sync>> /\ msg' = 1
      /\ pc = "next"
  OBVIOUS
<1>a. ev > Len(batch) => /\ pc' = (IF Opened = {} THEN "returned" ELSE "close")
                         /\ stop' = TRUE /\ ev' = ev
  OBVIOUS
<1>b. ~(ev > Len(batch)) /\ Skipped(ev) => ev' = ev + 1 /\ pc' = pc /\ stop' = stop
  OBVIOUS
<1>c. ~(ev > Len(batch)) /\ ~Skipped(ev) =>
        /\ ev' = ev /\ stop' = stop
        /\ \/ pc' = "call" /\ fwd.open = "unary"
           \/ pc' = "send" /\ StreamKey(ev) \in Opened
           \/ pc' = "open" /\ fwd.open # "unary"
  OBVIOUS
<1>d. Opened' = Opened
  BY DEF Opened
<1> HIDE DEF NextEvent
<1>3. TypeOK'
  <2>1. pc' \in {"next", "returned", "close", "call", "send", "open"}
    BY <1>u, <1>a, <1>b, <1>c
  <2>2. ev' \in 1 .. Len(batch) + 1
    BY <1>2, <1>a, <1>b, <1>c DEF TypeOK
  <2>3. stop' \in BOOLEAN
    BY <1>a, <1>b, <1>c, Zenon DEF TypeOK
  <2>4. msg' \in 1 .. MaxSize + 1
    BY <1>u, ForwardersAssumption
  <2> QED
    BY <1>1, <1>u, <2>1, <2>2, <2>3, <2>4 DEF TypeOK
<1>4. Table' /\ StreamsClosed'
  <2>1. Table'
    BY <1>1, <1>u, <1>d, <1>a, <1>b, <1>c DEF Table, NoStream
  <2> QED
    BY <1>u, <1>d, <1>a, <1>b, <1>c, <2>1 DEF StreamsClosed
<1>5. Styled' /\ Attempts'
  <2>1. fwd.open \in {"unary", "none", "produce"} => Opened = {}
    BY DEF Table
  <2> QED
    BY <1>1, <1>u, <1>a, <1>b, <1>c, <2>1 DEF Styled, Attempts
<1>6. AtEvent'
  <2>1. CASE ev > Len(batch)
    BY <1>u, <1>a, <2>1 DEF AtEvent
  <2>2. CASE ~(ev > Len(batch)) /\ Skipped(ev)
    BY <1>u, <1>b, <2>2 DEF AtEvent
  <2>3. CASE ~(ev > Len(batch)) /\ ~Skipped(ev)
    <3>1. ev' \in 1 .. Len(batch')
      BY <1>1, <1>2, <1>c, <2>3
    <3>2. ~Skipped(ev)'
      BY <1>1, <1>u, <1>c, <2>3 DEF Skipped
    <3> QED
      BY <3>1, <3>2 DEF AtEvent
  <2> QED
    BY <2>1, <2>2, <2>3
<1>7. PingedOnce'
  BY <1>1, <1>u DEF PingedOnce
<1>8. HandedSoFar'
  <2> SUFFICES ASSUME pc' \in {"next", "open", "send", "call", "close"}, Clean', ~Failing'
               PROVE  /\ \A p \in Routable : p[1] < ev' => Told(p, handed)
                      /\ pc' = "send" => msg' = 1
                      /\ pc' = "close" => ev' = Len(batch) + 1
    BY <1>1, <1>u DEF HandedSoFar, Told
  <2>1. \A p \in Routable : p[1] < ev => Told(p, handed)
    BY <1>1, <1>u DEF HandedSoFar, Clean, Failing
  <2>2. CASE ev > Len(batch)
    <3>1. ev = Len(batch) + 1
      BY <1>2, <2>2 DEF TypeOK
    <3> QED
      BY <1>a, <1>u, <2>1, <2>2, <3>1
  <2>3. CASE ~(ev > Len(batch)) /\ Skipped(ev)
    <3>1. ASSUME NEW p \in Routable, p[1] = ev PROVE Told(p, handed)
      <4>1. /\ batch[ev].type \notin {"other", "unroutable"} /\ p[2] \in Nat \ {0} /\ p[2] <= batch[ev].size
        BY <3>1, OfMessage
      <4>2. batch[ev].type = "ping" /\ batch[ev].key \in pinged
        BY <4>1, <2>3 DEF Skipped
      <4>3. PICK q \in confirmed : batch[q[1]].type = "ping" /\ batch[q[1]].key = batch[ev].key
        BY <1>u, <4>2 DEF PingedOnce
      <4>4. q \in Routable /\ q \in handed
        BY DEF TypeOK
      <4>5. batch[q[1]] = batch[ev]
        <5>1. q[1] \in 1 .. Len(batch) /\ ev \in 1 .. Len(batch)
          BY <1>2, <2>3, <4>4, OfMessage
        <5>2. /\ batch[q[1]] \in [type : {"own", "ping", "unroutable", "other"}, key : Keys, size : 0 .. MaxSize]
              /\ batch[ev] \in [type : {"own", "ping", "unroutable", "other"}, key : Keys, size : 0 .. MaxSize]
              /\ batch[q[1]].size = 1 /\ batch[ev].size = 1
          BY <4>2, <4>3, <5>1, EventTypes
        <5> QED
          BY <4>2, <4>3, <5>2
      <4> QED
        BY <3>1, <4>2, <4>4, <4>5 DEF Told
    <3>2. \A p \in Routable : p[1] < ev + 1 => p[1] < ev \/ p[1] = ev
      BY <1>2, OfMessage
    <3> QED
      BY <1>b, <1>u, <2>1, <2>3, <3>1, <3>2
  <2>4. CASE ~(ev > Len(batch)) /\ ~Skipped(ev)
    BY <1>c, <1>u, <2>1, <2>4
  <2> QED
    BY <2>2, <2>3, <2>4
<1>9. HandedAll'
  <2> SUFFICES ASSUME pc' = "returned", Clean', NEW p \in Routable PROVE Told(p, handed)
    BY <1>1, <1>u DEF HandedAll, Told
  <2>1. ev > Len(batch)
    BY <1>u, <1>b, <1>c
  <2>2. p[1] < ev
    BY <1>2, <2>1, OfMessage
  <2> QED
    BY <1>1, <1>u, <2>2 DEF HandedSoFar, Clean, Failing
<1>10. Unlost'
  BY <1>1, <1>u DEF Unlost
<1>11. Unopened'
  <2> SUFFICES ASSUME pc' = "open" PROVE streams[StreamKey(ev)].st = "none" /\ msg' = 1
    BY <1>1, <1>u, <1>a, <1>b, <1>c DEF Unopened, StreamKey
  <2>1. ev \in 1 .. Len(batch) /\ fwd.open # "unary" /\ StreamKey(ev) \notin Opened
    BY <1>2, <1>u, <1>a, <1>b, <1>c DEF NextEvent
  <2>2. StreamKey(ev) \in Keys \cup {Whole}
    BY <2>1, EventTypes DEF StreamKey
  <2> QED
    BY <1>u, <2>1, <2>2 DEF Opened, Table
<1>12. Unfailed'
  BY <1>1, <1>u, <1>a, <1>b, <1>c DEF Unfailed
<1> QED
  BY <1>1, <1>3, <1>4, <1>5, <1>6, <1>7, <1>8, <1>9, <1>10, <1>11, <1>12

\* A new stream holds nothing.
LEMMA OpenStep ==
  ASSUME ForwardInv, Open
  PROVE  ForwardInv'
<1> USE DEF ForwardInv, Open, history, sync, Set
<1>1. Routable' = Routable /\ GoodBatch' /\ batch' = batch /\ fwd' = fwd
  BY SameMessages DEF setting
<1>2. Len(batch) \in Nat /\ ev \in Nat /\ msg \in Nat /\ ev >= 1 /\ msg >= 1
  BY DEF GoodBatch, TypeOK
<1>3. TypeOK'
  BY <1>1, <1>2, ForwardersAssumption DEF TypeOK, Table, Attempts, AtEvent, NoStream
<1>4. Table' /\ StreamsClosed'
  BY <1>1 DEF Table, StreamsClosed, Styled, Opened, NoStream, TypeOK, StreamKey
<1>5. Styled' /\ Attempts'
  BY <1>1, ForwardersAssumption DEF Styled, Attempts, TypeOK
<1>6. AtEvent'
  BY <1>1, <1>2 DEF AtEvent, Skipped
<1>7. PingedOnce'
  BY <1>1 DEF PingedOnce
<1>8. HandedSoFar'
  <2>1. msg' = 1 /\ handed' = handed /\ ev' = ev /\ pc' \in {"next", "send"}
    BY DEF Unopened
  <2> QED
    BY <1>1, <1>2, <2>1 DEF HandedSoFar, Clean, Failing, Told
<1>9. HandedAll'
  BY <1>1, <1>2 DEF HandedAll, HandedSoFar, Clean, Failing, Told
<1>10. Unlost'
  <2>1. StreamKey(ev) = Whole \/ fwd.open # "batch"
    BY DEF StreamKey
  <2>2. /\ streams' = [streams EXCEPT ![StreamKey(ev)] = [st |-> "open", sent |-> {}]]
        /\ streams[StreamKey(ev)].st = "none"
    BY <2>1 DEF Unopened, StreamKey
  <2>3. \A k \in Keys \cup {Whole} : streams[k].sent = streams'[k].sent
    BY <2>2 DEF Table
  <2> QED
    BY <1>1, <2>3 DEF Unlost
<1>11. Unopened'
  BY <1>1 DEF Unopened, StreamKey, Table
<1>12. Unfailed'
  BY <1>1 DEF Unfailed, GoodBatch, WellFormed
<1> QED
  BY <1>1, <1>3, <1>4, <1>5, <1>6, <1>7, <1>8, <1>9, <1>10, <1>11, <1>12

\* A stream that cannot be opened makes Forward return an error.
LEMMA OpenFailsStep ==
  ASSUME ForwardInv, OpenFails
  PROVE  ForwardInv'
<1> USE DEF ForwardInv, OpenFails, history, sync, Set
<1>1. Routable' = Routable /\ GoodBatch' /\ batch' = batch /\ fwd' = fwd
  BY SameMessages DEF setting
<1>2. Len(batch) \in Nat /\ ev \in Nat /\ msg \in Nat /\ ev >= 1 /\ msg >= 1
  BY DEF GoodBatch, TypeOK
<1>3. TypeOK'
  BY <1>1, <1>2, ForwardersAssumption DEF TypeOK, Table, Attempts, AtEvent, NoStream
<1>4. Table' /\ StreamsClosed'
  BY <1>1 DEF Table, StreamsClosed, Styled, Opened, NoStream, TypeOK, StreamKey
<1>5. Styled' /\ Attempts'
  BY <1>1, ForwardersAssumption DEF Styled, Attempts, TypeOK
<1>6. AtEvent'
  BY <1>1, <1>2 DEF AtEvent, Skipped
<1>7. PingedOnce'
  BY <1>1 DEF PingedOnce
<1>8. HandedSoFar'
  BY <1>1, <1>2 DEF HandedSoFar, Clean, Failing, Told
<1>9. HandedAll'
  BY <1>1, <1>2 DEF HandedAll, HandedSoFar, Clean, Failing, Told
<1>10. Unlost'
  BY <1>1 DEF Unlost, Table, NoStream
<1>11. Unopened'
  BY <1>1 DEF Unopened, StreamKey, Table
<1>12. Unfailed'
  BY <1>1 DEF Unfailed, GoodBatch, WellFormed
<1> QED
  BY <1>1, <1>3, <1>4, <1>5, <1>6, <1>7, <1>8, <1>9, <1>10, <1>11, <1>12

\* All messages of the event were handed over.
LEMMA EndEventStep ==
  ASSUME ForwardInv, EndEvent
  PROVE  ForwardInv'
<1> USE DEF ForwardInv, EndEvent, history, sync, Set
<1>1. Routable' = Routable /\ GoodBatch' /\ batch' = batch /\ fwd' = fwd
  BY SameMessages DEF setting
<1>2. Len(batch) \in Nat /\ ev \in Nat /\ msg \in Nat /\ ev >= 1 /\ msg >= 1
  BY DEF GoodBatch, TypeOK
<1>3. TypeOK'
  BY <1>1, <1>2, ForwardersAssumption DEF TypeOK, Table, Attempts, AtEvent, NoStream
<1>4. Table' /\ StreamsClosed'
  BY <1>1 DEF Table, StreamsClosed, Styled, Opened, NoStream, TypeOK, StreamKey
<1>5. Styled' /\ Attempts'
  BY <1>1, ForwardersAssumption DEF Styled, Attempts, TypeOK
<1>6. AtEvent'
  BY <1>1, <1>2 DEF AtEvent, Skipped
<1>7. PingedOnce'
  BY <1>1 DEF PingedOnce
<1>8. HandedSoFar'
  <2> SUFFICES ASSUME Clean PROVE /\ \A p \in Routable : p[1] < ev + 1 => Told(p, handed)
                                  /\ pc' # "send" /\ ~(pc' = "close" /\ stop')
    BY <1>1 DEF HandedSoFar, Clean, Told
  <2>1. /\ \A p \in Routable : p[1] < ev => Told(p, handed)
        /\ \A m \in 1 .. msg - 1 : <<ev, m>> \in handed
    BY DEF HandedSoFar, Failing
  <2>2. ASSUME NEW p \in Routable, p[1] < ev + 1 PROVE Told(p, handed)
    <3>1. p = <<p[1], p[2]>> /\ p[1] \in Nat /\ p[2] \in Nat \ {0} /\ p[2] <= batch[p[1]].size
      BY OfMessage
    <3>2. CASE p[1] = ev
      <4>1. batch[ev].size \in Nat
        BY EventTypes DEF AtEvent
      <4>2. p[2] \in 1 .. msg - 1
        BY <1>2, <3>1, <3>2, <4>1
      <4> QED
        BY <2>1, <3>1, <3>2, <4>2 DEF Told
    <3>3. CASE p[1] < ev
      BY <2>1, <3>3
    <3> QED
      BY <1>2, <2>2, <3>1, <3>2, <3>3
  <2>3. pc' # "send" /\ ~(pc' = "close" /\ stop')
    BY DEF Unfailed
  <2> QED
    BY <2>2, <2>3
<1>9. HandedAll'
  BY <1>1, <1>2 DEF HandedAll, HandedSoFar, Clean, Failing, Told
<1>10. Unlost'
  BY <1>1 DEF Unlost, Table, NoStream
<1>11. Unopened'
  BY <1>1 DEF Unopened, StreamKey, Table
<1>12. Unfailed'
  BY <1>1 DEF Unfailed, GoodBatch, WellFormed
<1> QED
  BY <1>1, <1>3, <1>4, <1>5, <1>6, <1>7, <1>8, <1>9, <1>10, <1>11, <1>12

\* One more message is handed over, and in its stream.
LEMMA SendStep ==
  ASSUME ForwardInv, Send
  PROVE  ForwardInv'
<1> USE DEF ForwardInv, Send, Sending, history, sync, Set
<1>1. Routable' = Routable /\ GoodBatch' /\ batch' = batch /\ fwd' = fwd
  BY SameMessages DEF setting
<1>2. Len(batch) \in Nat /\ ev \in Nat /\ msg \in Nat /\ ev >= 1 /\ msg >= 1
  BY DEF GoodBatch, TypeOK
<1>k. PICK k : k = StreamKey(ev)
  OBVIOUS
<1>m. <<ev, msg>> \in Routable /\ batch[ev].size \in 0 .. MaxSize
  <2>1. ev \in 1 .. Len(batch) /\ batch[ev].type \notin {"other", "unroutable"}
    BY DEF AtEvent, Skipped
  <2> QED
    BY <1>2, <2>1, MessageOf, EventTypes
<1>s. /\ k \in Keys \cup {Whole} /\ streams[k].st = "open"
      /\ streams' = [streams EXCEPT ![k] = [st |-> "open",
                                            sent |-> streams[k].sent \cup {<<ev, msg>>}]]
  <2>1. k \in Keys \cup {Whole}
    BY <1>k, EventTypes DEF AtEvent, StreamKey
  <2>2. PICK r : r = streams[k]
    OBVIOUS
  <2>3. r \in [st : {"none", "open", "broken", "ended"}, sent : SUBSET handed] /\ r.st = "open"
    BY <1>k, <2>1, <2>2 DEF Table
  <2>4. [r EXCEPT !.sent = r.sent \cup {<<ev, msg>>}]
          = [st |-> "open", sent |-> r.sent \cup {<<ev, msg>>}]
    BY <2>3
  <2>5. streams' = [streams EXCEPT ![k] = [r EXCEPT !.sent = r.sent \cup {<<ev, msg>>}]]
    BY <1>k, <2>1, <2>2 DEF Table
  <2> QED
    BY <2>1, <2>2, <2>3, <2>4, <2>5
<1>n. [st |-> "open", sent |-> streams[k].sent \cup {<<ev, msg>>}]
        \in [st : {"none", "open", "broken", "ended"}, sent : SUBSET (handed' \cap Routable)]
  BY <1>m, <1>s DEF Table, TypeOK
<1>t. streams' \in [Keys \cup {Whole} -> [st : {"none", "open", "broken", "ended"},
                                          sent : SUBSET (handed' \cap Routable)]]
  <2>1. streams \in [Keys \cup {Whole} -> [st : {"none", "open", "broken", "ended"},
                                           sent : SUBSET (handed' \cap Routable)]]
    BY DEF Table, TypeOK
  <2> QED
    BY <1>s, <1>n, <2>1
<1>3. TypeOK'
  <2>1. \A j \in DOMAIN streams' : /\ streams'[j].st \in {"none", "open", "broken", "ended"}
                                   /\ streams'[j].sent \subseteq Routable
    BY <1>t
  <2>2. msg' \in 1 .. MaxSize + 1
    BY <1>2, <1>m, ForwardersAssumption
  <2> QED
    BY <1>1, <1>m, <2>1, <2>2 DEF TypeOK
<1>4. Table' /\ StreamsClosed'
  <2>1. streams' \in [Keys \cup {Whole} -> [st : {"none", "open", "broken", "ended"},
                                            sent : SUBSET handed']]
    BY <1>t
  <2>2. \A j \in Keys \cup {Whole} : streams'[j].st = streams[j].st
          /\ (j # k => streams'[j] = streams[j])
    BY <1>s DEF Table
  <2>3. Opened' = Opened
    BY <2>1, <2>2 DEF Opened, Table
  <2> QED
    BY <1>1, <1>s, <2>1, <2>2, <2>3 DEF Table, StreamsClosed
<1>5. Styled' /\ Attempts'
  BY <1>1, ForwardersAssumption DEF Styled, Attempts, TypeOK
<1>6. AtEvent'
  BY <1>1, <1>2 DEF AtEvent, Skipped
<1>7. PingedOnce'
  BY <1>1 DEF PingedOnce
<1>8. HandedSoFar'
  BY <1>1, <1>2 DEF HandedSoFar, Clean, Failing, Told
<1>9. HandedAll'
  BY <1>1, <1>2 DEF HandedAll, HandedSoFar, Clean, Failing, Told
<1>10. Unlost'
  <2>1. <<ev, msg>> \in streams'[k].sent
    BY <1>s DEF Table
  <2>2. \A j \in Keys \cup {Whole} : streams[j].sent \subseteq streams'[j].sent
    BY <1>s DEF Table
  <2>3. handed' = handed \cup {<<ev, msg>>} /\ confirmed' = confirmed /\ err' = err
    OBVIOUS
  <2> QED
    BY <1>1, <1>s, <2>1, <2>2, <2>3 DEF Unlost
<1>11. Unopened'
  BY <1>1 DEF Unopened, StreamKey, Table
<1>12. Unfailed'
  BY <1>1 DEF Unfailed, GoodBatch, WellFormed
<1> QED
  BY <1>1, <1>3, <1>4, <1>5, <1>6, <1>7, <1>8, <1>9, <1>10, <1>11, <1>12

\* A failed send is returned, or left to the close of the broken stream.
LEMMA SendFailsStep ==
  ASSUME ForwardInv, SendFails
  PROVE  ForwardInv'
<1> USE DEF ForwardInv, SendFails, Sending, history, sync, Set
<1>1. Routable' = Routable /\ GoodBatch' /\ batch' = batch /\ fwd' = fwd
  BY SameMessages DEF setting
<1>2. Len(batch) \in Nat /\ ev \in Nat /\ msg \in Nat /\ ev >= 1 /\ msg >= 1
  BY DEF GoodBatch, TypeOK
<1>3. TypeOK'
  BY <1>1, <1>2, ForwardersAssumption DEF TypeOK, Table, Attempts, AtEvent, NoStream
<1>4. Table' /\ StreamsClosed'
  BY <1>1 DEF Table, StreamsClosed, Styled, Opened, NoStream, TypeOK, StreamKey
<1>5. Styled' /\ Attempts'
  BY <1>1, ForwardersAssumption DEF Styled, Attempts, TypeOK
<1>6. AtEvent'
  BY <1>1, <1>2 DEF AtEvent, Skipped
<1>7. PingedOnce'
  BY <1>1 DEF PingedOnce
<1>8. HandedSoFar'
  <2>1. streams[StreamKey(ev)].st = "ended" => early
    BY EventTypes DEF Table, AtEvent, StreamKey
  <2>2. fwd.onSend = "close" => StreamKey(ev) = Whole
    BY DEF GoodBatch, WellFormed, StreamKey
  <2>3. Clean' => Failing'
    BY <1>1, <2>1, <2>2 DEF Clean, Failing
  <2> QED
    BY <2>3 DEF HandedSoFar
<1>9. HandedAll'
  BY <1>1, <1>2 DEF HandedAll, HandedSoFar, Clean, Failing, Told
<1>10. Unlost'
  BY <1>1 DEF Unlost, Unfailed
<1>11. Unopened'
  BY <1>1 DEF Unopened, StreamKey, Table
<1>12. Unfailed'
  BY <1>1 DEF Unfailed, GoodBatch, WellFormed
<1> QED
  BY <1>1, <1>3, <1>4, <1>5, <1>6, <1>7, <1>8, <1>9, <1>10, <1>11, <1>12

\* The backend has answered for what the stream held.
LEMMA CloseStep ==
  ASSUME ForwardInv, NEW k \in DOMAIN streams, Close(k)
  PROVE  ForwardInv'
<1> USE DEF ForwardInv, Close, AfterClose, history, sync, Set
<1>1. Routable' = Routable /\ GoodBatch' /\ batch' = batch /\ fwd' = fwd
  BY SameMessages DEF setting
<1>2. Len(batch) \in Nat /\ ev \in Nat /\ msg \in Nat /\ ev >= 1 /\ msg >= 1
  BY DEF GoodBatch, TypeOK
<1>o. Clean' /\ ~Failing' /\ pc' \in {"close", "next"} => Clean /\ ~Failing
  BY <1>1 DEF Clean, Failing, Opened, Table, NoStream, GoodBatch, WellFormed
<1>r. Clean' /\ pc' \in {"returned", "next"} => Clean /\ ~Failing
  BY <1>1 DEF Clean, Failing, Opened, Table, NoStream, GoodBatch, WellFormed
<1>3. TypeOK'
  BY <1>1, <1>2, ForwardersAssumption DEF TypeOK, Table, Attempts, AtEvent, NoStream
<1>4. Table' /\ StreamsClosed'
  BY <1>1 DEF Table, StreamsClosed, Styled, Opened, NoStream, TypeOK, StreamKey
<1>5. Styled' /\ Attempts'
  BY <1>1, ForwardersAssumption DEF Styled, Attempts, TypeOK
<1>6. AtEvent'
  BY <1>1, <1>2 DEF AtEvent, Skipped
<1>7. PingedOnce'
  BY <1>1 DEF PingedOnce
<1>8. HandedSoFar'
  <2>1. ev' = ev /\ handed' = handed /\ stop' = stop /\ pc' \in {"close", "next", "returned"}
    OBVIOUS
  <2> QED
    BY <1>1, <1>o, <2>1 DEF HandedSoFar, Told
<1>9. HandedAll'
  <2>1. pc' = "returned" => stop
    OBVIOUS
  <2>2. Clean' /\ pc' = "returned" => \A p \in Routable : p[1] < ev => Told(p, handed)
    BY <1>r DEF HandedSoFar
  <2>3. Clean' /\ pc' = "returned" => ev = Len(batch) + 1
    BY <1>r, <2>1 DEF HandedSoFar
  <2>4. \A p \in Routable : p[1] < Len(batch) + 1
    BY <1>2, OfMessage
  <2> QED
    BY <1>1, <2>2, <2>3, <2>4 DEF HandedAll, Told
<1>10. Unlost'
  BY <1>1 DEF Unlost, Table, NoStream
<1>11. Unopened'
  BY <1>1 DEF Unopened, StreamKey, Table
<1>12. Unfailed'
  BY <1>1 DEF Unfailed, GoodBatch, WellFormed
<1> QED
  BY <1>1, <1>3, <1>4, <1>5, <1>6, <1>7, <1>8, <1>9, <1>10, <1>11, <1>12

\* It has done so before.
LEMMA CloseEndedStep ==
  ASSUME ForwardInv, NEW k \in DOMAIN streams, CloseEnded(k)
  PROVE  ForwardInv'
<1> USE DEF ForwardInv, CloseEnded, AfterClose, history, sync, Set
<1>1. Routable' = Routable /\ GoodBatch' /\ batch' = batch /\ fwd' = fwd
  BY SameMessages DEF setting
<1>2. Len(batch) \in Nat /\ ev \in Nat /\ msg \in Nat /\ ev >= 1 /\ msg >= 1
  BY DEF GoodBatch, TypeOK
<1>o. Clean' /\ ~Failing' /\ pc' \in {"close", "next"} => Clean /\ ~Failing
  BY <1>1 DEF Clean, Failing, Opened, Table, NoStream, GoodBatch, WellFormed
<1>r. Clean' /\ pc' \in {"returned", "next"} => Clean /\ ~Failing
  BY <1>1 DEF Clean, Failing, Opened, Table, NoStream, GoodBatch, WellFormed
<1>3. TypeOK'
  BY <1>1, <1>2, ForwardersAssumption DEF TypeOK, Table, Attempts, AtEvent, NoStream
<1>4. Table' /\ StreamsClosed'
  BY <1>1 DEF Table, StreamsClosed, Styled, Opened, NoStream, TypeOK, StreamKey
<1>5. Styled' /\ Attempts'
  BY <1>1, ForwardersAssumption DEF Styled, Attempts, TypeOK
<1>6. AtEvent'
  BY <1>1, <1>2 DEF AtEvent, Skipped
<1>7. PingedOnce'
  BY <1>1 DEF PingedOnce
<1>8. HandedSoFar'
  <2>1. ev' = ev /\ handed' = handed /\ stop' = stop /\ pc' \in {"close", "next", "returned"}
    OBVIOUS
  <2> QED
    BY <1>1, <1>o, <2>1 DEF HandedSoFar, Told
<1>9. HandedAll'
  <2>1. pc' = "returned" => stop
    OBVIOUS
  <2>2. Clean' /\ pc' = "returned" => \A p \in Routable : p[1] < ev => Told(p, handed)
    BY <1>r DEF HandedSoFar
  <2>3. Clean' /\ pc' = "returned" => ev = Len(batch) + 1
    BY <1>r, <2>1 DEF HandedSoFar
  <2>4. \A p \in Routable : p[1] < Len(batch) + 1
    BY <1>2, OfMessage
  <2> QED
    BY <1>1, <2>2, <2>3, <2>4 DEF HandedAll, Told
<1>10. Unlost'
  BY <1>1 DEF Unlost, Table, NoStream
<1>11. Unopened'
  BY <1>1 DEF Unopened, StreamKey, Table
<1>12. Unfailed'
  BY <1>1 DEF Unfailed, GoodBatch, WellFormed
<1> QED
  BY <1>1, <1>3, <1>4, <1>5, <1>6, <1>7, <1>8, <1>9, <1>10, <1>11, <1>12

\* What the stream held is lost: an error, if the forwarder returns it.
LEMMA CloseFailsStep ==
  ASSUME ForwardInv, NEW k \in DOMAIN streams, CloseFails(k)
  PROVE  ForwardInv'
<1> USE DEF ForwardInv, CloseFails, AfterClose, history, sync, Set
<1>1. Routable' = Routable /\ GoodBatch' /\ batch' = batch /\ fwd' = fwd
  BY SameMessages DEF setting
<1>2. Len(batch) \in Nat /\ ev \in Nat /\ msg \in Nat /\ ev >= 1 /\ msg >= 1
  BY DEF GoodBatch, TypeOK
<1>o. Clean' /\ ~Failing' /\ pc' \in {"close", "next"} => Clean /\ ~Failing
  BY <1>1 DEF Clean, Failing, Opened, Table, NoStream, GoodBatch, WellFormed
<1>r. Clean' /\ pc' \in {"returned", "next"} => Clean /\ ~Failing
  BY <1>1 DEF Clean, Failing, Opened, Table, NoStream, GoodBatch, WellFormed
<1>3. TypeOK'
  BY <1>1, <1>2, ForwardersAssumption DEF TypeOK, Table, Attempts, AtEvent, NoStream
<1>4. Table' /\ StreamsClosed'
  BY <1>1 DEF Table, StreamsClosed, Styled, Opened, NoStream, TypeOK, StreamKey
<1>5. Styled' /\ Attempts'
  BY <1>1, ForwardersAssumption DEF Styled, Attempts, TypeOK
<1>6. AtEvent'
  BY <1>1, <1>2 DEF AtEvent, Skipped
<1>7. PingedOnce'
  BY <1>1 DEF PingedOnce
<1>8. HandedSoFar'
  <2>1. ev' = ev /\ handed' = handed /\ stop' = stop /\ pc' \in {"close", "next", "returned"}
    OBVIOUS
  <2> QED
    BY <1>1, <1>o, <2>1 DEF HandedSoFar, Told
<1>9. HandedAll'
  <2>1. pc' = "returned" => stop
    OBVIOUS
  <2>2. Clean' /\ pc' = "returned" => \A p \in Routable : p[1] < ev => Told(p, handed)
    BY <1>r DEF HandedSoFar
  <2>3. Clean' /\ pc' = "returned" => ev = Len(batch) + 1
    BY <1>r, <2>1 DEF HandedSoFar
  <2>4. \A p \in Routable : p[1] < Len(batch) + 1
    BY <1>2, OfMessage
  <2> QED
    BY <1>1, <2>2, <2>3, <2>4 DEF HandedAll, Told
<1>10. Unlost'
  BY <1>1 DEF Unlost, Table, NoStream
<1>11. Unopened'
  BY <1>1 DEF Unopened, StreamKey, Table
<1>12. Unfailed'
  BY <1>1 DEF Unfailed, GoodBatch, WellFormed
<1> QED
  BY <1>1, <1>3, <1>4, <1>5, <1>6, <1>7, <1>8, <1>9, <1>10, <1>11, <1>12

\* The backend has answered for the event.
LEMMA UnaryReturnsStep ==
  ASSUME ForwardInv, UnaryReturns
  PROVE  ForwardInv'
<1> USE DEF ForwardInv, UnaryReturns, history, sync, Set
<1>1. Routable' = Routable /\ GoodBatch' /\ batch' = batch /\ fwd' = fwd
  BY SameMessages DEF setting
<1>2. Len(batch) \in Nat /\ ev \in Nat /\ msg \in Nat /\ ev >= 1 /\ msg >= 1
  BY DEF GoodBatch, TypeOK
<1>m. /\ ev \in 1 .. Len(batch) /\ batch[ev].size = 1 /\ batch[ev].type \notin {"other", "unroutable"}
      /\ batch[ev].key \in Keys /\ <<ev, 1>> \in Routable
  <2>1. ev \in 1 .. Len(batch) /\ batch[ev].type \notin {"other", "unroutable"} /\ fwd.open = "unary"
    BY DEF AtEvent, Skipped, Styled
  <2>2. batch[ev].size = 1 /\ batch[ev].key \in Keys
    BY <2>1, EventTypes
  <2> QED
    BY <2>1, <2>2, MessageOf
<1>3. TypeOK'
  <2>1. ev' \in 1 .. Len(batch) + 1
    BY <1>2, <1>m
  <2>2. pinged' \subseteq Keys
    BY <1>m DEF TypeOK
  <2>3. handed' \subseteq Routable /\ confirmed' \subseteq handed'
    BY <1>m DEF TypeOK
  <2> QED
    BY <1>1, <2>1, <2>2, <2>3 DEF TypeOK
<1>4. Table' /\ StreamsClosed'
  BY <1>1 DEF Table, StreamsClosed, Styled, Opened, NoStream, TypeOK, StreamKey
<1>5. Styled' /\ Attempts'
  BY <1>1, ForwardersAssumption DEF Styled, Attempts, TypeOK
<1>6. AtEvent'
  BY <1>1, <1>2 DEF AtEvent, Skipped
<1>7. PingedOnce'
  <2>1. <<ev, 1>> \in confirmed' /\ confirmed \subseteq confirmed' /\ <<ev, 1>>[1] = ev
    OBVIOUS
  <2>2. pc = "call" /\ batch' = batch
    BY <1>1
  <2>3. \A j \in pinged' : j \in pinged \/ (batch[ev].type = "ping" /\ j = batch[ev].key)
    OBVIOUS
  <2>4. \A j \in pinged : \E p \in confirmed : batch[p[1]].type = "ping" /\ batch[p[1]].key = j
    BY <2>2 DEF PingedOnce
  <2> QED
    BY <2>1, <2>2, <2>3, <2>4 DEF PingedOnce
<1>8. HandedSoFar'
  <2> SUFFICES ASSUME Clean, NEW p \in Routable, p[1] < ev + 1 PROVE p \in handed' \/ Told(p, handed)
    BY <1>1 DEF HandedSoFar, Clean, Told
  <2>1. p = <<p[1], p[2]>> /\ p[1] \in Nat /\ p[2] \in Nat \ {0} /\ p[2] <= batch[p[1]].size
    BY OfMessage
  <2>2. CASE p[1] = ev
    <3>1. p = <<ev, 1>>
      BY <1>m, <2>1, <2>2
    <3> QED
      BY <3>1
  <2>3. CASE p[1] < ev
    BY <2>3 DEF HandedSoFar, Failing
  <2> QED
    BY <1>2, <2>1, <2>2, <2>3
<1>9. HandedAll'
  BY <1>1, <1>2 DEF HandedAll, HandedSoFar, Clean, Failing, Told
<1>10. Unlost'
  BY <1>1 DEF Unlost, Table, NoStream
<1>11. Unopened'
  BY <1>1 DEF Unopened, StreamKey, Table
<1>12. Unfailed'
  BY <1>1 DEF Unfailed, GoodBatch, WellFormed
<1> QED
  BY <1>1, <1>3, <1>4, <1>5, <1>6, <1>7, <1>8, <1>9, <1>10, <1>11, <1>12

\* The call failed and Forward returns.
LEMMA UnaryFailsStep ==
  ASSUME ForwardInv, UnaryFails
  PROVE  ForwardInv'
<1> USE DEF ForwardInv, UnaryFails, history, sync, Set
<1>1. Routable' = Routable /\ GoodBatch' /\ batch' = batch /\ fwd' = fwd
  BY SameMessages DEF setting
<1>2. Len(batch) \in Nat /\ ev \in Nat /\ msg \in Nat /\ ev >= 1 /\ msg >= 1
  BY DEF GoodBatch, TypeOK
<1>3. TypeOK'
  BY <1>1, <1>2, ForwardersAssumption DEF TypeOK, Table, Attempts, AtEvent, NoStream
<1>4. Table' /\ StreamsClosed'
  BY <1>1 DEF Table, StreamsClosed, Styled, Opened, NoStream, TypeOK, StreamKey
<1>5. Styled' /\ Attempts'
  BY <1>1, ForwardersAssumption DEF Styled, Attempts, TypeOK
<1>6. AtEvent'
  BY <1>1, <1>2 DEF AtEvent, Skipped
<1>7. PingedOnce'
  BY <1>1 DEF PingedOnce
<1>8. HandedSoFar'
  BY <1>1, <1>2 DEF HandedSoFar, Clean, Failing, Told
<1>9. HandedAll'
  BY <1>1, <1>2 DEF HandedAll, HandedSoFar, Clean, Failing, Told
<1>10. Unlost'
  BY <1>1 DEF Unlost, Table, NoStream
<1>11. Unopened'
  BY <1>1 DEF Unopened, StreamKey, Table
<1>12. Unfailed'
  BY <1>1 DEF Unfailed, GoodBatch, WellFormed
<1> QED
  BY <1>1, <1>3, <1>4, <1>5, <1>6, <1>7, <1>8, <1>9, <1>10, <1>11, <1>12

\* The producer reports an error unless every message was taken.
LEMMA ProduceStep ==
  ASSUME ForwardInv, Produce
  PROVE  ForwardInv'
<1> USE DEF ForwardInv, Produce, history, sync, Set
<1>1. Routable' = Routable /\ GoodBatch' /\ batch' = batch /\ fwd' = fwd
  BY SameMessages DEF setting
<1>2. Len(batch) \in Nat /\ ev \in Nat /\ msg \in Nat /\ ev >= 1 /\ msg >= 1
  BY DEF GoodBatch, TypeOK
<1>3. TypeOK'
  BY <1>1, <1>2, ForwardersAssumption DEF TypeOK, Table, Attempts, AtEvent, NoStream
<1>4. Table' /\ StreamsClosed'
  BY <1>1 DEF Table, StreamsClosed, Styled, Opened, NoStream, TypeOK, StreamKey
<1>5. Styled' /\ Attempts'
  BY <1>1, ForwardersAssumption DEF Styled, Attempts, TypeOK
<1>6. AtEvent'
  BY <1>1, <1>2 DEF AtEvent, Skipped
<1>7. PingedOnce'
  BY <1>1 DEF PingedOnce
<1>8. HandedSoFar'
  BY <1>1, <1>2 DEF HandedSoFar, Clean, Failing, Told
<1>9. HandedAll'
  BY <1>1, <1>2 DEF HandedAll, HandedSoFar, Clean, Failing, Told
<1>10. Unlost'
  BY <1>1 DEF Unlost, Table, NoStream
<1>11. Unopened'
  BY <1>1 DEF Unopened, StreamKey, Table
<1>12. Unfailed'
  BY <1>1 DEF Unfailed, GoodBatch, WellFormed
<1> QED
  BY <1>1, <1>3, <1>4, <1>5, <1>6, <1>7, <1>8, <1>9, <1>10, <1>11, <1>12

\* Another attempt, if there is one left.
LEMMA FallBackStep ==
  ASSUME ForwardInv, FallBack
  PROVE  ForwardInv'
<1> USE DEF ForwardInv, FallBack, history, sync, Set
<1>1. Routable' = Routable /\ GoodBatch' /\ batch' = batch /\ fwd' = fwd
  BY SameMessages DEF setting
<1>2. Len(batch) \in Nat /\ ev \in Nat /\ msg \in Nat /\ ev >= 1 /\ msg >= 1
  BY DEF GoodBatch, TypeOK
<1>3. TypeOK'
  BY <1>1, <1>2, ForwardersAssumption DEF TypeOK, Table, Attempts, AtEvent, NoStream
<1>4. Table' /\ StreamsClosed'
  BY <1>1 DEF Table, StreamsClosed, Styled, Opened, NoStream, TypeOK, StreamKey
<1>5. Styled' /\ Attempts'
  BY <1>1, ForwardersAssumption DEF Styled, Attempts, TypeOK
<1>6. AtEvent'
  BY <1>1, <1>2 DEF AtEvent, Skipped
<1>7. PingedOnce'
  BY <1>1 DEF PingedOnce
<1>8. HandedSoFar'
  BY <1>1, <1>2 DEF HandedSoFar, Clean, Failing, Told
<1>9. HandedAll'
  BY <1>1, <1>2 DEF HandedAll, HandedSoFar, Clean, Failing, Told
<1>10. Unlost'
  BY <1>1 DEF Unlost, Table, NoStream
<1>11. Unopened'
  BY <1>1 DEF Unopened, StreamKey, Table
<1>12. Unfailed'
  BY <1>1 DEF Unfailed, GoodBatch, WellFormed
<1> QED
  BY <1>1, <1>3, <1>4, <1>5, <1>6, <1>7, <1>8, <1>9, <1>10, <1>11, <1>12

\* A stream that breaks or expires keeps what it holds.
LEMMA BrokenStep ==
  ASSUME ForwardInv, NEW k \in DOMAIN streams, Broken(k)
  PROVE  ForwardInv'
<1> USE DEF ForwardInv, Broken, history, sync, Set
<1>1. Routable' = Routable /\ GoodBatch' /\ batch' = batch /\ fwd' = fwd
  BY SameMessages DEF setting
<1>2. Len(batch) \in Nat /\ ev \in Nat /\ msg \in Nat /\ ev >= 1 /\ msg >= 1
  BY DEF GoodBatch, TypeOK
<1>3. TypeOK'
  BY <1>1, <1>2, ForwardersAssumption DEF TypeOK, Table, Attempts, AtEvent, NoStream
<1>4. Table' /\ StreamsClosed'
  BY <1>1 DEF Table, StreamsClosed, Styled, Opened, NoStream, TypeOK, StreamKey
<1>5. Styled' /\ Attempts'
  BY <1>1, ForwardersAssumption DEF Styled, Attempts, TypeOK
<1>6. AtEvent'
  BY <1>1, <1>2 DEF AtEvent, Skipped
<1>7. PingedOnce'
  BY <1>1 DEF PingedOnce
<1>8. HandedSoFar'
  BY <1>1, <1>2 DEF HandedSoFar, Clean, Failing, Told
<1>9. HandedAll'
  BY <1>1, <1>2 DEF HandedAll, HandedSoFar, Clean, Failing, Told
<1>10. Unlost'
  BY <1>1 DEF Unlost, Table, NoStream
<1>11. Unopened'
  BY <1>1 DEF Unopened, StreamKey, Table
<1>12. Unfailed'
  BY <1>1 DEF Unfailed, GoodBatch, WellFormed
<1> QED
  BY <1>1, <1>3, <1>4, <1>5, <1>6, <1>7, <1>8, <1>9, <1>10, <1>11, <1>12

\* The backend answers for what it has read.
LEMMA EndEarlyStep ==
  ASSUME ForwardInv, NEW k \in DOMAIN streams, EndEarly(k)
  PROVE  ForwardInv'
<1> USE DEF ForwardInv, EndEarly, history, sync, Set
<1>1. Routable' = Routable /\ GoodBatch' /\ batch' = batch /\ fwd' = fwd
  BY SameMessages DEF setting
<1>2. Len(batch) \in Nat /\ ev \in Nat /\ msg \in Nat /\ ev >= 1 /\ msg >= 1
  BY DEF GoodBatch, TypeOK
<1>3. TypeOK'
  BY <1>1, <1>2, ForwardersAssumption DEF TypeOK, Table, Attempts, AtEvent, NoStream
<1>4. Table' /\ StreamsClosed'
  BY <1>1 DEF Table, StreamsClosed, Styled, Opened, NoStream, TypeOK, StreamKey
<1>5. Styled' /\ Attempts'
  BY <1>1, ForwardersAssumption DEF Styled, Attempts, TypeOK
<1>6. AtEvent'
  BY <1>1, <1>2 DEF AtEvent, Skipped
<1>7. PingedOnce'
  BY <1>1 DEF PingedOnce
<1>8. HandedSoFar'
  BY <1>1, <1>2 DEF HandedSoFar, Clean, Failing, Told
<1>9. HandedAll'
  BY <1>1, <1>2 DEF HandedAll, HandedSoFar, Clean, Failing, Told
<1>10. Unlost'
  BY <1>1 DEF Unlost, Table, NoStream
<1>11. Unopened'
  <2>1. pc = "open" => StreamKey(ev) \in Keys \cup {Whole}
    BY EventTypes DEF AtEvent, StreamKey
  <2>2. pc = "open" => k # StreamKey(ev)
    BY DEF Unopened
  <2> QED
    BY <1>1, <2>1, <2>2 DEF Unopened, StreamKey, Table
<1>12. Unfailed'
  BY <1>1 DEF Unfailed, GoodBatch, WellFormed
<1> QED
  BY <1>1, <1>3, <1>4, <1>5, <1>6, <1>7, <1>8, <1>9, <1>10, <1>11, <1>12

\* A SyncInvoke shares nothing with Forward.
LEMMA RelayStep ==
  ASSUME ForwardInv, Relay \/ UNCHANGED vars
  PROVE  ForwardInv'
<1>1. UNCHANGED <<setting, call, history>>
  BY DEF Relay, SyncInvoke, SyncReturns, RelayFails, AgentEnds, RelayExpires, vars
<1>2. /\ rpc' \in {"idle", "unary", "relay", "answered", "failed"}
      /\ up' \in {"none", "open", "closing", "broken"}
  <2>1. /\ rpc \in {"idle", "unary", "relay", "answered", "failed"}
        /\ up \in {"none", "open", "closing", "broken"}
    BY DEF ForwardInv, TypeOK
  <2> QED
    BY <2>1 DEF Relay, SyncInvoke, SyncReturns, RelayFails, AgentEnds, RelayExpires, vars, sync
<1>3. Routable' = Routable /\ GoodBatch'
  BY <1>1, SameMessages DEF ForwardInv
<1> USE <1>1, <1>3 DEF ForwardInv, setting, call, history
<1>4. TypeOK'
  BY <1>2 DEF TypeOK
<1>5. Table' /\ StreamsClosed' /\ Unopened'
  BY DEF Table, StreamsClosed, Unopened, Opened, StreamKey
<1>6. Styled' /\ Attempts' /\ Unfailed' /\ PingedOnce'
  BY DEF Styled, Attempts, Unfailed, PingedOnce
<1>7. AtEvent'
  BY DEF AtEvent, Skipped
<1>8. HandedSoFar' /\ HandedAll'
  BY DEF HandedSoFar, HandedAll, Clean, Failing, Told
<1>9. Unlost'
  BY DEF Unlost
<1> QED
  BY <1>3, <1>4, <1>5, <1>6, <1>7, <1>8, <1>9

\* Every step keeps the invariant.
LEMMA ForwardersStep == ForwardInv /\ [Next]_vars => ForwardInv'
<1> SUFFICES ASSUME ForwardInv, [Next]_vars PROVE ForwardInv'
  OBVIOUS
<1>1. CASE \E c \in Clients : Prepare(c)
  BY <1>1, PrepareStep
<1>2. CASE Step
  BY <1>2, ForwardStep, NextEventStep, OpenStep, OpenFailsStep, EndEventStep, SendFailsStep,
     FallBackStep, CloseFailsStep, CloseEndedStep DEF Step
<1>3. CASE Send \/ UnaryReturns \/ UnaryFails \/ Produce
  BY <1>3, SendStep, UnaryReturnsStep, UnaryFailsStep, ProduceStep
<1>4. CASE \E k \in DOMAIN streams : Close(k) \/ Break(k) \/ Expire(k) \/ EndEarly(k)
  BY <1>4, CloseStep, BrokenStep, EndEarlyStep DEF Break, Expire
<1>5. CASE Relay \/ UNCHANGED vars
  BY <1>5, RelayStep
<1> QED
  BY <1>1, <1>2, <1>3, <1>4, <1>5 DEF Next

-----------------------------------------------------------------------------
(***************************************************************************)
(* The invariant of Forward.                                               *)
(***************************************************************************)
THEOREM ForwardersInvariant == Spec => []ForwardInv
BY ForwardInit, ForwardersStep, PTL DEF Spec

(***************************************************************************)
(* Forward stays inside its batch and its attempts, whatever fails, and    *)
(* nothing is answered for that was not handed over.                       *)
(***************************************************************************)
THEOREM ForwardersTypeCorrect == Spec => []TypeOK
<1>1. ForwardInv => TypeOK
  BY DEF ForwardInv
<1> QED
  BY <1>1, ForwardersInvariant, PTL

(***************************************************************************)
(* A Forward that has returned has closed every stream it opened, for any  *)
(* number of keys.                                                         *)
(***************************************************************************)
THEOREM ForwardersCloseStreams == Spec => []StreamsClosed
<1>1. ForwardInv => StreamsClosed
  BY DEF ForwardInv
<1> QED
  BY <1>1, ForwardersInvariant, PTL

\* What the invariant says of a Forward that has returned without error.
LEMMA SuccessFollows == ForwardInv => SuccessMeans
<1> SUFFICES ASSUME ForwardInv, pc = "returned", ~err PROVE SuccessMeans
  BY DEF SuccessMeans
<1>0. GoodBatch /\ handed \subseteq Routable /\ confirmed \subseteq handed
  BY DEF ForwardInv, TypeOK
<1>1. ASSUME fwd.onSend = "return" PROVE Covered(handed) = Routable
  <2>1. \A p \in Routable : Told(p, handed)
    BY <1>1 DEF ForwardInv, HandedAll, Clean
  <2> QED
    BY <1>0, <2>1, ToldIsCovered
<1>2. ASSUME fwd.onClose = "return", ~early
      PROVE  Covered(confirmed) = Routable
  <2>1. \A p \in Routable : Told(p, handed)
    BY <1>0, <1>2 DEF ForwardInv, HandedAll, Clean, GoodBatch, WellFormed
  <2>2. \A k \in Keys \cup {Whole} : streams[k].sent = {}
    BY DEF ForwardInv, StreamsClosed, Table, Opened
  <2>3. confirmed = handed
    BY <1>0, <1>2, <2>2 DEF ForwardInv, Unlost
  <2>4. \A p \in Routable : Told(p, confirmed)
    BY <2>1, <2>3
  <2> QED
    BY <1>0, <2>4, ToldIsCovered
<1> QED
  BY <1>1, <1>2 DEF SuccessMeans

(***************************************************************************)
(* What the sender may conclude from the nil that Forward returns, for     *)
(* each of the forwarders: every message of the batch that has a routing   *)
(* key, if one is needed, was answered for by the backend, or at least     *)
(* handed to the transport when the backend answered early or the answer   *)
(* is not looked at, in whichever order streams broke, expired or were     *)
(* answered.                                                               *)
(***************************************************************************)
THEOREM ForwardersSuccess == Spec => []SuccessMeans
  BY SuccessFollows, ForwardersInvariant, PTL
=============================================================================
