--------------------------- MODULE Lifecycle_proof ---------------------------
(***************************************************************************)
(* The connection limit of the server, for every limit, every number of    *)
(* clients and every interleaving of accepting and closing; and the order  *)
(* in which boot prepares, starts and closes, for every set of pipes,      *)
(* every number of partitions and every client.  And the telemetry that    *)
(* boot sets up for all pipes: the exactness of its counters, for every    *)
(* number of goroutines.                                                   *)
(***************************************************************************)
EXTENDS Lifecycle, Telemetry, FiniteSetTheorems, TLAPS

-----------------------------------------------------------------------------
(***************************************************************************)
(* AcceptLimiter.                                                          *)
(***************************************************************************)
LimiterTypeOK ==
  /\ apc \in {"accept", "check", "add"}
  /\ ActiveConnection \in Int
  /\ conn \in [Clients -> {"none", "new", "open", "closed"}]
  /\ closers \in [Clients -> Nat]
  /\ closeOnce \in [Clients -> BOOLEAN]

\* The connection that is being checked holds no place yet.
AcceptingNew ==
  apc # "accept" => incoming \in Clients /\ conn[incoming] = "new"

\* A connection is closed as long as a call of Close has not ended, and the
\* first of them gives the place back.
ClosingOnce ==
  \A c \in Clients : /\ closers[c] > 0 <=> conn[c] = "closed"
                     /\ conn[c] = "open" => ~closeOnce[c]

PlacesCounted ==
  ActiveConnection = Cardinality(Counted) /\ ActiveConnection <= ConnectionCount

LimiterInv == LimiterTypeOK /\ AcceptingNew /\ ClosingOnce /\ PlacesCounted

-----------------------------------------------------------------------------
\* The places taken are a finite set, in the next state too.
LEMMA CountedFinite == IsFiniteSet(Counted) /\ Cardinality(Counted) \in Nat
  <1>1. Counted \subseteq Clients
    BY DEF Counted
  <1>2. IsFiniteSet(Counted)
    BY <1>1, LimiterAssumption, FS_Subset
  <1> QED
    BY <1>2, FS_CardinalityType

\* The inductive invariant gives the property: open connections hold a place.
LEMMA InvImpliesLimit == LimiterInv => WithinLimit
  <1> SUFFICES ASSUME LimiterInv PROVE WithinLimit
    OBVIOUS
  <1> DEFINE Open == {c \in Clients : conn[c] = "open"}
  <1>1. Open \subseteq Counted
    BY DEF Counted
  <1>2. Cardinality(Open) <= Cardinality(Counted) /\ Cardinality(Open) \in Nat
    <2>1. IsFiniteSet(Open)
      BY <1>1, CountedFinite, FS_Subset
    <2> QED
      BY <1>1, <2>1, CountedFinite, FS_Subset, FS_CardinalityType
  <1>3. Cardinality(Open) <= ConnectionCount
    BY <1>2, CountedFinite, LimiterAssumption DEF LimiterInv, PlacesCounted
  <1> QED
    BY <1>3 DEF LimiterInv, PlacesCounted, WithinLimit

\* Nobody holds a place at first.
LEMMA InvInit == LimiterInit => LimiterInv
  <1> SUFFICES ASSUME LimiterInit PROVE LimiterInv
    OBVIOUS
  <1>1. LimiterTypeOK /\ AcceptingNew /\ ClosingOnce
    BY DEF LimiterInit, LimiterTypeOK, AcceptingNew, ClosingOnce
  <1>2. Counted = {}
    BY DEF LimiterInit, Counted
  <1>3. PlacesCounted
    BY <1>2, FS_EmptySet, LimiterAssumption DEF LimiterInit, PlacesCounted
  <1> QED
    BY <1>1, <1>3 DEF LimiterInv

\* A step that changes neither the count nor the set of places keeps the rest.
LEMMA PlacesUnchanged ==
  ASSUME LimiterInv, UNCHANGED ActiveConnection, Counted' = Counted
  PROVE PlacesCounted'
  BY DEF LimiterInv, PlacesCounted

\* Every step of accepting and closing keeps the invariant.
LEMMA InvNext == LimiterInv /\ [LimiterNext]_limiter => LimiterInv'
  <1> SUFFICES ASSUME LimiterInv, [LimiterNext]_limiter PROVE LimiterInv'
    OBVIOUS
  <1> USE DEF LimiterInv
  <1>1. ASSUME NEW c \in Clients, Accept(c) PROVE LimiterInv'
    <2>1. LimiterTypeOK' /\ AcceptingNew' /\ ClosingOnce'
      BY <1>1 DEF Accept, LimiterTypeOK, AcceptingNew, ClosingOnce
    <2>2. Counted' = Counted
      BY <1>1 DEF Accept, LimiterTypeOK, Counted
    <2> QED
      BY <1>1, <2>1, <2>2, PlacesUnchanged DEF Accept
  <1>2. ASSUME Refuse, apc # "accept" PROVE LimiterInv'
    <2>1. LimiterTypeOK' /\ AcceptingNew' /\ ClosingOnce'
      BY <1>2 DEF Refuse, LimiterTypeOK, AcceptingNew, ClosingOnce
    <2>2. Counted' = Counted
      BY <1>2 DEF Refuse, LimiterTypeOK, AcceptingNew, Counted
    <2> QED
      BY <1>2, <2>1, <2>2, PlacesUnchanged DEF Refuse
  <1>3. ASSUME NEW busy \in BOOLEAN, CheckLimits(busy) PROVE LimiterInv'
    <2>1. CASE busy \/ ActiveConnection >= ConnectionCount
      BY <1>2, <1>3, <2>1 DEF CheckLimits
    <2>2. CASE ~(busy \/ ActiveConnection >= ConnectionCount)
      <3>1. apc' = "add" /\ apc = "check"
            /\ UNCHANGED <<incoming, ActiveConnection, conn, closers, closeOnce>>
        BY <1>3, <2>2 DEF CheckLimits
      <3>2. LimiterTypeOK' /\ AcceptingNew' /\ ClosingOnce'
        BY <3>1 DEF LimiterTypeOK, AcceptingNew, ClosingOnce
      <3>3. Counted' = Counted
        BY <3>1 DEF Counted
      <3> QED
        BY <3>1, <3>2, <3>3, PlacesUnchanged
    <2> QED
      BY <2>1, <2>2
  <1>4. ASSUME AddConnection PROVE LimiterInv'
    <2>1. CASE ActiveConnection + 1 > ConnectionCount
      BY <1>2, <1>4, <2>1 DEF AddConnection
    <2>2. CASE ~(ActiveConnection + 1 > ConnectionCount)
      <3>a. /\ apc = "add" /\ apc' = "accept"
            /\ ActiveConnection' = ActiveConnection + 1
            /\ conn' = [conn EXCEPT ![incoming] = "open"]
            /\ closeOnce' = [closeOnce EXCEPT ![incoming] = FALSE]
            /\ closers' = closers
        BY <1>4, <2>2 DEF AddConnection
      <3>b. LimiterTypeOK'
        <4>1. closeOnce' \in [Clients -> BOOLEAN]
          BY <3>a, Zenon DEF LimiterTypeOK
        <4>2. conn' \in [Clients -> {"none", "new", "open", "closed"}]
          BY <3>a DEF LimiterTypeOK
        <4> QED
          BY <3>a, <4>1, <4>2 DEF LimiterTypeOK
      <3>c. ClosingOnce'
        BY <3>a DEF LimiterTypeOK, AcceptingNew, ClosingOnce
      <3>1. LimiterTypeOK' /\ AcceptingNew' /\ ClosingOnce'
        BY <3>a, <3>b, <3>c DEF AcceptingNew
      <3>2. Counted' = Counted \cup {incoming} /\ incoming \notin Counted
        BY <1>4, <2>2 DEF AddConnection, LimiterTypeOK, AcceptingNew, Counted
      <3>3. Cardinality(Counted') = Cardinality(Counted) + 1
        BY <3>2, CountedFinite, FS_AddElement
      <3>4. PlacesCounted'
        BY <1>4, <2>2, <3>3, CountedFinite, LimiterAssumption
        DEF AddConnection, PlacesCounted
      <3> QED
        BY <3>1, <3>4
    <2> QED
      BY <2>1, <2>2
  <1>5. ASSUME NEW c \in Clients, CloseConnection(c) PROVE LimiterInv'
    <2>1. LimiterTypeOK' /\ AcceptingNew' /\ ClosingOnce'
      BY <1>5 DEF CloseConnection, LimiterTypeOK, AcceptingNew, ClosingOnce
    <2>2. Counted' = Counted
      BY <1>5 DEF CloseConnection, LimiterTypeOK, ClosingOnce, Counted
    <2> QED
      BY <1>5, <2>1, <2>2, PlacesUnchanged DEF CloseConnection
  <1>6. ASSUME NEW c \in Clients, CloseNotify(c) PROVE LimiterInv'
    <2>1. conn[c] = "closed"
      BY <1>6 DEF CloseNotify, ClosingOnce
    <2>2. LimiterTypeOK'
      BY <1>6 DEF CloseNotify, LimiterTypeOK
    <2>3. AcceptingNew'
      BY <1>6, <2>1 DEF CloseNotify, LimiterTypeOK, AcceptingNew
    <2>4. ClosingOnce'
      BY <1>6, <2>1 DEF CloseNotify, LimiterTypeOK, ClosingOnce
    <2>5. CASE closeOnce[c]
      <3>1. Counted' = Counted
        BY <1>6, <2>1, <2>5 DEF CloseNotify, LimiterTypeOK, Counted
      <3> QED
        BY <1>6, <2>2, <2>3, <2>4, <2>5, <3>1, PlacesUnchanged DEF CloseNotify
    <2>6. CASE ~closeOnce[c]
      <3>1. Counted' = Counted \ {c} /\ c \in Counted
        BY <1>6, <2>1, <2>6 DEF CloseNotify, LimiterTypeOK, Counted
      <3>2. Cardinality(Counted') = Cardinality(Counted) - 1
        BY <3>1, CountedFinite, FS_RemoveElement
      <3>3. PlacesCounted'
        BY <1>6, <2>6, <3>2, CountedFinite, LimiterAssumption
        DEF CloseNotify, PlacesCounted
      <3> QED
        BY <2>2, <2>3, <2>4, <3>3
    <2> QED
      BY <2>5, <2>6
  <1>7. CASE UNCHANGED limiter
    BY <1>7 DEF limiter, LimiterTypeOK, AcceptingNew, ClosingOnce, PlacesCounted, Counted
  <1> QED
    BY <1>1, <1>3, <1>4, <1>5, <1>6, <1>7 DEF LimiterNext

\* For every limit and every set of clients the gRPC server never has more
\* connections open than ConnectionCount, and its count never drifts from the
\* places that are taken, however Accept and the Closes of a connection
\* interleave.
THEOREM LimitHolds == LimiterSpec => []WithinLimit
  <1>1. LimiterSpec => []LimiterInv
    BY InvInit, InvNext, PTL DEF LimiterSpec
  <1> QED
    BY <1>1, InvImpliesLimit, PTL

-----------------------------------------------------------------------------
(***************************************************************************)
(* Lifecycle.                                                              *)
(***************************************************************************)
LifeTypeOK ==
  /\ plug \in [Sharing -> {"none", "loaded", "ready", "started", "closed"}]
  /\ sock \in [Servers -> {"none", "listening", "serving", "closed"}]
  /\ mod \in [Pipes -> [Kinds -> {"none", "new", "ready", "running", "stopped"}]]
  /\ open \in [Pipes -> Nat]
  /\ handlers \subseteq Pipes /\ listeners \subseteq Pipes

Early == {"config", "telemetry", "load", "prepareSharing", "init", "prepare"}

\* Nothing is started, closed or connected before all modules are prepared.
NotYet ==
  /\ bpc \in Early => /\ \A s \in Sharing : plug[s] \notin {"started", "closed"}
                      /\ \A c \in Clients : conn[c] = "none"
  /\ bpc \in {"config", "telemetry"} => \A s \in Sharing : plug[s] = "none"

\* How far the loop over the pipes has come.
PreparedSoFar ==
  bpc = "prepare" =>
    \A p \in Pipes :
      /\ mod[p]["gatherer"] = "ready" => p \in handlers
      /\ mod[p]["sender"] = "ready" => p \in listeners
      /\ p \in todo => mod[p]["processor"] = "new"
      /\ p \notin todo => \A k \in Kinds : mod[p][k] = "ready"

EverythingPrepared ==
  /\ handlers = Pipes /\ listeners = Pipes
  /\ \A p \in Pipes, k \in Kinds : mod[p][k] \notin {"none", "new"}

\* What is let in, or may be let in at the next step, finds everything prepared.
LetIn ==
  /\ bpc \in {"start", "after"} => \A p \in Pipes, k \in Kinds : mod[p][k] = "ready"
  /\ \/ bpc \in {"start", "after", "boot"}
     \/ \E s \in Sharing : plug[s] = "started"
     \/ \E c \in Clients : conn[c] # "none"
     => EverythingPrepared

\* How far the loops that start and that close the sharing plugins have come.
PluginsSoFar ==
  /\ bpc = "start" => \A s \in Sharing : s \notin todo => plug[s] = "started"
  /\ bpc \in {"after", "boot"} => \A s \in Sharing : plug[s] = "started"
  /\ bpc = "closing" => \A s \in Sharing : s \notin todo => plug[s] = "closed"
  /\ bpc \in {"failed", "exited"} => \A s \in Sharing : plug[s] \in {"none", "closed"}
  /\ \A s \in Sharing : plug[s] = "closed" =>
       bpc \in {"closing", "failed", "exited", "panicked", "killed"}

\* Modules run in the boot phase only, and leave their queue closed.
ModulesSoFar ==
  /\ \A p \in Pipes, k \in Kinds : mod[p][k] = "running" =>
       bpc \in {"boot", "panicked", "killed"}
  /\ bpc = "boot" => \A p \in Pipes : mod[p]["gatherer"] = "stopped" => open[p] = 0
  /\ (bpc = "closing" /\ Booted) \/ bpc = "exited" => \A p \in Pipes : open[p] = 0

\* The gRPC server serves as long as its plugin is started, and is stopped
\* when it ever was.
SocketsSoFar ==
  /\ sock["grpc"] = "serving" => plug["grpc"] = "started"
  /\ plug["grpc"] = "started" => sock["grpc"] = "serving"
  /\ (bpc = "closing" /\ Booted) \/ bpc = "exited" => sock["grpc"] \in {"serving", "closed"}

BootInv ==
  /\ LifeTypeOK /\ NotYet /\ PreparedSoFar /\ LetIn /\ PluginsSoFar /\ ModulesSoFar
  /\ SocketsSoFar

LifeInv == LimiterInv /\ BootInv

-----------------------------------------------------------------------------
\* At first nothing is loaded.
LEMMA LifeInit == Init => LifeInv
  <1> SUFFICES ASSUME Init PROVE LifeInv
    OBVIOUS
  <1>1. LimiterInv
    BY InvInit DEF Init
  <1>2. LifeTypeOK /\ NotYet /\ PreparedSoFar
    BY DEF Init, LimiterInit, LifeTypeOK, NotYet, PreparedSoFar, AllPlugins, AllModules
  <1>3. LetIn /\ PluginsSoFar /\ ModulesSoFar /\ SocketsSoFar
    BY DEF Init, LimiterInit, LetIn, PluginsSoFar, ModulesSoFar, SocketsSoFar, AllPlugins,
           AllModules, Sharing, Servers
  <1> QED
    BY <1>1, <1>2, <1>3 DEF LifeInv, BootInv

\* A new connection needs a started server; the others are there already.
LEMMA OnlyAcceptLetsIn ==
  ASSUME LimiterInv, Connections, NEW c \in Clients, conn'[c] # "none"
  PROVE plug["grpc"] = "started" \/ \E d \in Clients : conn[d] # "none"
  <1>1. ASSUME NEW d \in Clients, Accept(d) PROVE plug["grpc"] = "started"
    BY <1>1 DEF Connections, Accept
  <1>2. ASSUME apc # "accept" PROVE \E d \in Clients : conn[d] # "none"
    BY <1>2 DEF LimiterInv, AcceptingNew
  <1>3. ASSUME NEW d \in Clients, CloseConnection(d) PROVE conn[d] # "none"
    BY <1>3 DEF CloseConnection
  <1>4. ASSUME NEW d \in Clients, CloseNotify(d) PROVE conn[d] # "none"
    BY <1>4 DEF CloseNotify, LimiterInv, ClosingOnce
  <1> QED
    BY <1>1, <1>2, <1>3, <1>4 DEF Connections, LimiterNext, CheckLimits, AddConnection

-----------------------------------------------------------------------------
\* Every step of boot, of a signal and of a synchronous call keeps its part of
\* the invariant.
LEMMA BootKeeps ==
  ASSUME BootInv, Next, ~Connections
  PROVE BootInv'
  <1> USE DEF BootInv, Early, limiter, plugins, modules
  <1>1. ASSUME Load PROVE BootInv'
    <2>1. LifeTypeOK' /\ NotYet' /\ PreparedSoFar'
      BY <1>1 DEF Load,
         LifeTypeOK, NotYet, PreparedSoFar, Kinds
    <2>2. LetIn' /\ PluginsSoFar'
      BY <1>1 DEF Load, LifeTypeOK, NotYet,
         PreparedSoFar, LetIn, EverythingPrepared, PluginsSoFar, Kinds
    <2>3. ModulesSoFar'
      BY <1>1 DEF Load, LifeTypeOK,
         PreparedSoFar, LetIn, ModulesSoFar, Booted, Kinds
    <2>4. SocketsSoFar'
      BY <1>1 DEF Load, LifeTypeOK, NotYet,
         PreparedSoFar, LetIn, PluginsSoFar, SocketsSoFar, Booted, Kinds, Sharing, Servers
    <2> QED
      BY <2>1, <2>2, <2>3, <2>4
  <1>2. ASSUME InitTelemetry PROVE BootInv'
    <2>1. LifeTypeOK' /\ NotYet' /\ PreparedSoFar'
      BY <1>2 DEF InitTelemetry,
         LifeTypeOK, NotYet, PreparedSoFar, Kinds
    <2>2. LetIn' /\ PluginsSoFar'
      BY <1>2 DEF InitTelemetry, LifeTypeOK, NotYet,
         PreparedSoFar, LetIn, EverythingPrepared, PluginsSoFar, Kinds
    <2>3. ModulesSoFar'
      BY <1>2 DEF InitTelemetry, LifeTypeOK,
         PreparedSoFar, LetIn, ModulesSoFar, Booted, Kinds
    <2>4. SocketsSoFar'
      BY <1>2 DEF InitTelemetry, LifeTypeOK, NotYet,
         PreparedSoFar, LetIn, PluginsSoFar, SocketsSoFar, Booted, Kinds, Sharing, Servers
    <2> QED
      BY <2>1, <2>2, <2>3, <2>4
  <1>3. ASSUME LoadSharing PROVE BootInv'
    <2>1. LifeTypeOK' /\ NotYet' /\ PreparedSoFar'
      BY <1>3 DEF LoadSharing, AllPlugins,
         LifeTypeOK, NotYet, PreparedSoFar, Kinds
    <2>2. LetIn' /\ PluginsSoFar'
      BY <1>3 DEF LoadSharing, AllPlugins, LifeTypeOK, NotYet,
         PreparedSoFar, LetIn, EverythingPrepared, PluginsSoFar, Kinds
    <2>3. ModulesSoFar'
      BY <1>3 DEF LoadSharing, AllPlugins, LifeTypeOK,
         PreparedSoFar, LetIn, ModulesSoFar, Booted, Kinds
    <2>4. SocketsSoFar'
      BY <1>3 DEF LoadSharing, AllPlugins, LifeTypeOK, NotYet,
         PreparedSoFar, LetIn, PluginsSoFar, SocketsSoFar, Booted, Kinds, Sharing, Servers
    <2> QED
      BY <2>1, <2>2, <2>3, <2>4
  <1>4. ASSUME NEW c \in ClientSettings, PrepareClient(c) PROVE BootInv'
    <2>1. LifeTypeOK' /\ NotYet' /\ PreparedSoFar'
      BY <1>4 DEF PrepareClient, Preparing, Prepared, PrepareFails, AllPlugins,
         LifeTypeOK, NotYet, PreparedSoFar, Kinds
    <2>2. LetIn' /\ PluginsSoFar'
      BY <1>4 DEF PrepareClient, Preparing, Prepared, PrepareFails, AllPlugins, LifeTypeOK, NotYet,
         PreparedSoFar, LetIn, EverythingPrepared, PluginsSoFar, Kinds
    <2>3. ModulesSoFar'
      BY <1>4 DEF PrepareClient, Preparing, Prepared, PrepareFails, AllPlugins, LifeTypeOK,
         PreparedSoFar, LetIn, ModulesSoFar, Booted, Kinds
    <2>4. SocketsSoFar'
      BY <1>4 DEF PrepareClient, Preparing, Prepared, PrepareFails, AllPlugins, LifeTypeOK, NotYet,
         PreparedSoFar, LetIn, PluginsSoFar, SocketsSoFar, Booted, Kinds, Sharing, Servers
    <2> QED
      BY <2>1, <2>2, <2>3, <2>4
  <1>5. ASSUME NEW failing \in {"nothing", "tls", "address", "limiter"},
               PrepareGrpcServer(failing) PROVE BootInv'
    <2>1. LifeTypeOK' /\ NotYet' /\ PreparedSoFar'
      <3>1. sock' \in [Servers -> {"none", "listening", "serving", "closed"}]
        BY <1>5 DEF PrepareGrpcServer, LifeTypeOK
      <3>2. LifeTypeOK'
        BY <1>5, <3>1 DEF PrepareGrpcServer, Preparing, Prepared, PrepareFails, AllPlugins,
           LifeTypeOK
      <3>3. NotYet'
        BY <1>5 DEF PrepareGrpcServer, Preparing, Prepared, PrepareFails, AllPlugins,
           LifeTypeOK, NotYet
      <3>4. PreparedSoFar'
        BY <1>5 DEF PrepareGrpcServer, Preparing, Prepared, PrepareFails, PreparedSoFar
      <3> QED
        BY <3>2, <3>3, <3>4
    <2>2. LetIn' /\ PluginsSoFar'
      BY <1>5 DEF PrepareGrpcServer, Preparing, Prepared, PrepareFails, AllPlugins, LifeTypeOK, NotYet,
         PreparedSoFar, LetIn, EverythingPrepared, PluginsSoFar, Kinds
    <2>3. ModulesSoFar'
      BY <1>5 DEF PrepareGrpcServer, Preparing, Prepared, PrepareFails, AllPlugins, LifeTypeOK,
         PreparedSoFar, LetIn, ModulesSoFar, Booted, Kinds
    <2>4. SocketsSoFar'
      BY <1>5 DEF PrepareGrpcServer, Preparing, Prepared, PrepareFails, AllPlugins, LifeTypeOK, NotYet,
         PreparedSoFar, LetIn, PluginsSoFar, SocketsSoFar, Booted, Kinds, Sharing, Servers
    <2> QED
      BY <2>1, <2>2, <2>3, <2>4
  <1>6. ASSUME PrepareHttpServer PROVE BootInv'
    <2>1. LifeTypeOK' /\ NotYet' /\ PreparedSoFar'
      <3>1. LifeTypeOK'
        BY <1>6 DEF PrepareHttpServer, Preparing, Prepared, LifeTypeOK
      <3>2. NotYet'
        BY <1>6 DEF PrepareHttpServer, Preparing, Prepared, LifeTypeOK, NotYet,
           PreparedSoFar
      <3>3. PreparedSoFar'
        BY <1>6 DEF PrepareHttpServer, Preparing, Prepared, LifeTypeOK, PreparedSoFar
      <3> QED
        BY <3>1, <3>2, <3>3
    <2>2. LetIn' /\ PluginsSoFar'
      BY <1>6 DEF PrepareHttpServer, Preparing, Prepared, LifeTypeOK, NotYet,
         PreparedSoFar, LetIn, EverythingPrepared, PluginsSoFar, Kinds
    <2>3. ModulesSoFar'
      BY <1>6 DEF PrepareHttpServer, Preparing, Prepared, LifeTypeOK,
         PreparedSoFar, LetIn, ModulesSoFar, Booted, Kinds
    <2>4. SocketsSoFar'
      BY <1>6 DEF PrepareHttpServer, Preparing, Prepared, LifeTypeOK, NotYet,
         PreparedSoFar, LetIn, PluginsSoFar, SocketsSoFar, Booted, Kinds, Sharing, Servers
    <2> QED
      BY <2>1, <2>2, <2>3, <2>4
  <1>7. ASSUME InitModules PROVE BootInv'
    <2>1. LifeTypeOK' /\ NotYet' /\ PreparedSoFar'
      BY <1>7 DEF InitModules, AllModules,
         LifeTypeOK, NotYet, PreparedSoFar, Kinds
    <2>2. LetIn' /\ PluginsSoFar'
      BY <1>7 DEF InitModules, AllModules, LifeTypeOK, NotYet,
         PreparedSoFar, LetIn, EverythingPrepared, PluginsSoFar, Kinds
    <2>3. ModulesSoFar'
      BY <1>7 DEF InitModules, AllModules, LifeTypeOK,
         PreparedSoFar, LetIn, ModulesSoFar, Booted, Kinds
    <2>4. SocketsSoFar'
      BY <1>7 DEF InitModules, AllModules, LifeTypeOK, NotYet,
         PreparedSoFar, LetIn, PluginsSoFar, SocketsSoFar, Booted, Kinds, Sharing, Servers
    <2> QED
      BY <2>1, <2>2, <2>3, <2>4
  <1>8. ASSUME NEW p \in Pipes, PrepareGatherer(p) PROVE BootInv'
    <2>1. LifeTypeOK' /\ NotYet' /\ PreparedSoFar'
      BY <1>8, LifecycleAssumption DEF PrepareGatherer, Turn,
         LifeTypeOK, NotYet, PreparedSoFar, Kinds
    <2>2. LetIn' /\ PluginsSoFar'
      BY <1>8 DEF PrepareGatherer, Turn, LifeTypeOK, NotYet,
         PreparedSoFar, LetIn, EverythingPrepared, PluginsSoFar, Kinds
    <2>3. ModulesSoFar'
      BY <1>8 DEF PrepareGatherer, Turn, LifeTypeOK,
         PreparedSoFar, LetIn, ModulesSoFar, Booted, Kinds
    <2>4. SocketsSoFar'
      BY <1>8 DEF PrepareGatherer, Turn, LifeTypeOK, NotYet,
         PreparedSoFar, LetIn, PluginsSoFar, SocketsSoFar, Booted, Kinds, Sharing, Servers
    <2> QED
      BY <2>1, <2>2, <2>3, <2>4
  <1>9. ASSUME NEW p \in Pipes, NEW n \in 0 .. Partition - 1,
               PrepareGathererFails(p, n) PROVE BootInv'
    <2>1. LifeTypeOK' /\ NotYet' /\ PreparedSoFar'
      BY <1>9, LifecycleAssumption DEF PrepareGathererFails, Turn, Shutdown,
         LifeTypeOK, NotYet, PreparedSoFar, Kinds
    <2>2. LetIn' /\ PluginsSoFar'
      BY <1>9 DEF PrepareGathererFails, Turn, Shutdown, LifeTypeOK, NotYet,
         PreparedSoFar, LetIn, EverythingPrepared, PluginsSoFar, Kinds
    <2>3. ModulesSoFar'
      BY <1>9 DEF PrepareGathererFails, Turn, Shutdown, LifeTypeOK,
         PreparedSoFar, LetIn, ModulesSoFar, Booted, Kinds
    <2>4. SocketsSoFar'
      BY <1>9 DEF PrepareGathererFails, Turn, Shutdown, LifeTypeOK, NotYet,
         PreparedSoFar, LetIn, PluginsSoFar, SocketsSoFar, Booted, Kinds, Sharing, Servers
    <2> QED
      BY <2>1, <2>2, <2>3, <2>4
  <1>10. ASSUME NEW p \in Pipes, PrepareSender(p) PROVE BootInv'
    <2>1. LifeTypeOK' /\ NotYet' /\ PreparedSoFar'
      BY <1>10 DEF PrepareSender, Turn,
         LifeTypeOK, NotYet, PreparedSoFar, Kinds
    <2>2. LetIn' /\ PluginsSoFar'
      BY <1>10 DEF PrepareSender, Turn, LifeTypeOK, NotYet,
         PreparedSoFar, LetIn, EverythingPrepared, PluginsSoFar, Kinds
    <2>3. ModulesSoFar'
      BY <1>10 DEF PrepareSender, Turn, LifeTypeOK,
         PreparedSoFar, LetIn, ModulesSoFar, Booted, Kinds
    <2>4. SocketsSoFar'
      BY <1>10 DEF PrepareSender, Turn, LifeTypeOK, NotYet,
         PreparedSoFar, LetIn, PluginsSoFar, SocketsSoFar, Booted, Kinds, Sharing, Servers
    <2> QED
      BY <2>1, <2>2, <2>3, <2>4
  <1>11. ASSUME NEW p \in Pipes, PrepareSenderFails(p) PROVE BootInv'
    <2>1. LifeTypeOK' /\ NotYet' /\ PreparedSoFar'
      BY <1>11 DEF PrepareSenderFails, Turn, Shutdown,
         LifeTypeOK, NotYet, PreparedSoFar, Kinds
    <2>2. LetIn' /\ PluginsSoFar'
      BY <1>11 DEF PrepareSenderFails, Turn, Shutdown, LifeTypeOK, NotYet,
         PreparedSoFar, LetIn, EverythingPrepared, PluginsSoFar, Kinds
    <2>3. ModulesSoFar'
      BY <1>11 DEF PrepareSenderFails, Turn, Shutdown, LifeTypeOK,
         PreparedSoFar, LetIn, ModulesSoFar, Booted, Kinds
    <2>4. SocketsSoFar'
      BY <1>11 DEF PrepareSenderFails, Turn, Shutdown, LifeTypeOK, NotYet,
         PreparedSoFar, LetIn, PluginsSoFar, SocketsSoFar, Booted, Kinds, Sharing, Servers
    <2> QED
      BY <2>1, <2>2, <2>3, <2>4
  <1>12. ASSUME NEW p \in Pipes, PrepareProcessor(p) PROVE BootInv'
    <2>1. LifeTypeOK' /\ NotYet' /\ PreparedSoFar'
      BY <1>12 DEF PrepareProcessor, Turn,
         LifeTypeOK, NotYet, PreparedSoFar, Kinds
    <2>2. LetIn'
      BY <1>12 DEF PrepareProcessor, Turn, LifeTypeOK, NotYet,
         PreparedSoFar, LetIn, EverythingPrepared, Kinds
    <2>3. PluginsSoFar'
      BY <1>12 DEF PrepareProcessor, Turn, LifeTypeOK, NotYet, PluginsSoFar, Kinds
    <2>4. ModulesSoFar'
      BY <1>12 DEF PrepareProcessor, Turn, LifeTypeOK,
         PreparedSoFar, LetIn, ModulesSoFar, Booted, Kinds
    <2>5. SocketsSoFar'
      BY <1>12 DEF PrepareProcessor, Turn, LifeTypeOK, NotYet,
         PreparedSoFar, LetIn, PluginsSoFar, SocketsSoFar, Booted, Kinds, Sharing, Servers
    <2> QED
      BY <2>1, <2>2, <2>3, <2>4, <2>5
  <1>13. ASSUME NEW s \in Sharing, StartSharing(s) PROVE BootInv'
    <2>1. LifeTypeOK' /\ NotYet' /\ PreparedSoFar'
      BY <1>13 DEF StartSharing,
         LifeTypeOK, NotYet, PreparedSoFar, Kinds
    <2>2. LetIn' /\ PluginsSoFar'
      BY <1>13 DEF StartSharing, LifeTypeOK, NotYet,
         PreparedSoFar, LetIn, EverythingPrepared, PluginsSoFar, Kinds
    <2>3. ModulesSoFar'
      BY <1>13 DEF StartSharing, LifeTypeOK,
         PreparedSoFar, LetIn, ModulesSoFar, Booted, Kinds
    <2>4. SocketsSoFar'
      BY <1>13 DEF StartSharing, LifeTypeOK, NotYet,
         PreparedSoFar, LetIn, PluginsSoFar, SocketsSoFar, Booted, Kinds, Sharing, Servers
    <2> QED
      BY <2>1, <2>2, <2>3, <2>4
  <1>14. ASSUME AfterSharingStart PROVE BootInv'
    <2>1. LifeTypeOK' /\ NotYet' /\ PreparedSoFar'
      BY <1>14 DEF AfterSharingStart,
         LifeTypeOK, NotYet, PreparedSoFar, Kinds
    <2>2. LetIn' /\ PluginsSoFar'
      BY <1>14 DEF AfterSharingStart, LifeTypeOK, NotYet,
         PreparedSoFar, LetIn, EverythingPrepared, PluginsSoFar, Kinds
    <2>3. ModulesSoFar'
      BY <1>14 DEF AfterSharingStart, LifeTypeOK,
         PreparedSoFar, LetIn, ModulesSoFar, Booted, Kinds
    <2>4. SocketsSoFar'
      BY <1>14 DEF AfterSharingStart, LifeTypeOK, NotYet,
         PreparedSoFar, LetIn, PluginsSoFar, SocketsSoFar, Booted, Kinds, Sharing, Servers
    <2> QED
      BY <2>1, <2>2, <2>3, <2>4
  <1>15. ASSUME NEW p \in Pipes, NEW k \in Kinds, BootModule(p, k) PROVE BootInv'
    <2>1. LifeTypeOK' /\ NotYet' /\ PreparedSoFar'
      BY <1>15 DEF BootModule,
         LifeTypeOK, NotYet, PreparedSoFar, Kinds
    <2>2. LetIn' /\ PluginsSoFar'
      BY <1>15 DEF BootModule, LifeTypeOK, NotYet,
         PreparedSoFar, LetIn, EverythingPrepared, PluginsSoFar, Kinds
    <2>3. ModulesSoFar'
      BY <1>15 DEF BootModule, LifeTypeOK,
         PreparedSoFar, LetIn, ModulesSoFar, Booted, Kinds
    <2>4. SocketsSoFar'
      BY <1>15 DEF BootModule, LifeTypeOK, NotYet,
         PreparedSoFar, LetIn, PluginsSoFar, SocketsSoFar, Booted, Kinds, Sharing, Servers
    <2> QED
      BY <2>1, <2>2, <2>3, <2>4
  <1>16. ASSUME NEW p \in Pipes, NEW k \in Kinds, BootReturns(p, k) PROVE BootInv'
    <2>1. LifeTypeOK' /\ NotYet' /\ PreparedSoFar'
      BY <1>16 DEF BootReturns, Alive,
         LifeTypeOK, NotYet, PreparedSoFar, Kinds
    <2>2. LetIn' /\ PluginsSoFar'
      BY <1>16 DEF BootReturns, Alive, LifeTypeOK, NotYet,
         PreparedSoFar, LetIn, EverythingPrepared, PluginsSoFar, Kinds
    <2>3. ModulesSoFar'
      BY <1>16 DEF BootReturns, Alive, LifeTypeOK,
         PreparedSoFar, LetIn, ModulesSoFar, Booted, Kinds
    <2>4. SocketsSoFar'
      BY <1>16 DEF BootReturns, Alive, ModulesSoFar, SocketsSoFar
    <2> QED
      BY <2>1, <2>2, <2>3, <2>4
  <1>17. ASSUME AllReturned PROVE BootInv'
    <2>1. LifeTypeOK' /\ NotYet' /\ PreparedSoFar'
      BY <1>17 DEF AllReturned,
         LifeTypeOK, NotYet, PreparedSoFar, Kinds
    <2>2. LetIn' /\ PluginsSoFar'
      BY <1>17 DEF AllReturned, LifeTypeOK, NotYet,
         PreparedSoFar, LetIn, EverythingPrepared, PluginsSoFar, Kinds
    <2>3. ModulesSoFar'
      BY <1>17 DEF AllReturned, LifeTypeOK,
         PreparedSoFar, LetIn, ModulesSoFar, Booted, Kinds
    <2>4. SocketsSoFar'
      BY <1>17 DEF AllReturned, LifeTypeOK, NotYet,
         PreparedSoFar, LetIn, PluginsSoFar, SocketsSoFar, Booted, Kinds, Sharing, Servers
    <2> QED
      BY <2>1, <2>2, <2>3, <2>4
  <1>18. ASSUME NEW s \in Sharing, CloseSharing(s) PROVE BootInv'
    <2>1. LifeTypeOK' /\ NotYet' /\ PreparedSoFar'
      BY <1>18 DEF CloseSharing,
         LifeTypeOK, NotYet, PreparedSoFar, Kinds
    <2>2. LetIn' /\ PluginsSoFar'
      BY <1>18 DEF CloseSharing, LifeTypeOK, NotYet,
         PreparedSoFar, LetIn, EverythingPrepared, PluginsSoFar, Kinds
    <2>3. ModulesSoFar'
      BY <1>18 DEF CloseSharing, LifeTypeOK,
         PreparedSoFar, LetIn, ModulesSoFar, Booted, Kinds
    <2>4. SocketsSoFar'
      BY <1>18 DEF CloseSharing, LifeTypeOK, NotYet,
         PreparedSoFar, LetIn, PluginsSoFar, SocketsSoFar, Booted, Kinds, Sharing, Servers
    <2> QED
      BY <2>1, <2>2, <2>3, <2>4
  <1>19. ASSUME Signal PROVE BootInv'
    <2>1. LifeTypeOK' /\ NotYet' /\ PreparedSoFar'
      BY <1>19 DEF Signal, Alive,
         LifeTypeOK, NotYet, PreparedSoFar, Kinds
    <2>2. LetIn' /\ PluginsSoFar'
      BY <1>19 DEF Signal, Alive, LifeTypeOK, NotYet,
         PreparedSoFar, LetIn, EverythingPrepared, PluginsSoFar, Kinds
    <2>3. ModulesSoFar'
      BY <1>19 DEF Signal, Alive, LifeTypeOK,
         PreparedSoFar, LetIn, ModulesSoFar, Booted, Kinds
    <2>4. SocketsSoFar'
      BY <1>19 DEF Signal, Alive, LifeTypeOK, NotYet,
         PreparedSoFar, LetIn, PluginsSoFar, SocketsSoFar, Booted, Kinds, Sharing, Servers
    <2> QED
      BY <2>1, <2>2, <2>3, <2>4
  <1>20. ASSUME NEW c \in Clients, NEW p \in Pipes, SyncCall(c, p) PROVE BootInv'
    <2>1. LifeTypeOK' /\ NotYet' /\ PreparedSoFar'
      BY <1>20 DEF SyncCall,
         LifeTypeOK, NotYet, PreparedSoFar, Kinds
    <2>2. LetIn' /\ PluginsSoFar'
      BY <1>20 DEF SyncCall, LifeTypeOK, NotYet,
         PreparedSoFar, LetIn, EverythingPrepared, PluginsSoFar, Kinds
    <2>3. ModulesSoFar'
      BY <1>20 DEF SyncCall, LifeTypeOK,
         PreparedSoFar, LetIn, ModulesSoFar, Booted, Kinds
    <2>4. SocketsSoFar'
      BY <1>20 DEF SyncCall, LifeTypeOK, NotYet,
         PreparedSoFar, LetIn, PluginsSoFar, SocketsSoFar, Booted, Kinds, Sharing, Servers
    <2> QED
      BY <2>1, <2>2, <2>3, <2>4
  <1> QED
    BY <1>1, <1>2, <1>3, <1>4, <1>5, <1>6, <1>7, <1>8, <1>9, <1>10, <1>11, <1>12, <1>13, <1>14, <1>15, <1>16, <1>17, <1>18, <1>19, <1>20
    DEF Next, PrepareModules

\* A step of the limiter leaves boot alone.
LEMMA ConnectionsKeep ==
  ASSUME LifeInv, Connections
  PROVE LifeInv'
  <1>1. LimiterInv'
    BY InvNext DEF LifeInv, Connections
  <1>2. LifeTypeOK' /\ PreparedSoFar' /\ PluginsSoFar' /\ ModulesSoFar' /\ SocketsSoFar'
    BY DEF LifeInv, BootInv, Connections, plugins, modules, LifeTypeOK, PreparedSoFar,
           PluginsSoFar, ModulesSoFar, SocketsSoFar, Booted
  <1>3. ASSUME \E c \in Clients : conn'[c] # "none"
        PROVE plug["grpc"] = "started" \/ \E d \in Clients : conn[d] # "none"
    BY <1>3, OnlyAcceptLetsIn DEF LifeInv
  <1>4. NotYet'
    BY <1>3 DEF LifeInv, BootInv, Connections, plugins, NotYet, Sharing
  <1>5. LetIn'
    BY <1>3 DEF LifeInv, BootInv, Connections, plugins, modules, LetIn, EverythingPrepared, Sharing
  <1> QED
    BY <1>1, <1>2, <1>4, <1>5 DEF LifeInv, BootInv

\* Every step keeps the invariant.
LEMMA LifeNext == LifeInv /\ [Next]_vars => LifeInv'
  <1> SUFFICES ASSUME LifeInv, [Next]_vars PROVE LifeInv'
    OBVIOUS
  <1>1. CASE Connections
    BY <1>1, ConnectionsKeep
  <1>2. CASE Next /\ ~Connections
    <2>1. UNCHANGED limiter
      BY <1>2 DEF Next, PrepareModules, Load, InitTelemetry, LoadSharing, PrepareHttpServer,
         PrepareClient, PrepareGrpcServer, Preparing, InitModules, AfterSharingStart,
         AllReturned, Signal, StartSharing, CloseSharing, PrepareGatherer, PrepareSender,
         PrepareSenderFails, PrepareProcessor, PrepareGathererFails, Turn, BootModule,
         BootReturns, SyncCall
    <2>2. LimiterInv'
      BY <2>1, InvNext DEF LifeInv
    <2> QED
      BY <1>2, <2>2, BootKeeps DEF LifeInv
  <1>3. CASE UNCHANGED vars
    <2>1. LimiterInv'
      BY <1>3, InvNext DEF LifeInv, vars
    <2>2. BootInv'
      BY <1>3 DEF vars, plugins, modules, limiter, LifeInv, BootInv, LifeTypeOK, NotYet,
         PreparedSoFar, LetIn, EverythingPrepared, PluginsSoFar, ModulesSoFar, SocketsSoFar,
         Booted
    <2> QED
      BY <2>1, <2>2 DEF LifeInv
  <1> QED
    BY <1>1, <1>2, <1>3

\* The invariant holds in every state of a run.
LEMMA LifeInvariant == Spec => []LifeInv
  BY LifeInit, LifeNext, PTL DEF Spec

-----------------------------------------------------------------------------
\* The limiter keeps the connection limit in the server that boot starts and
\* stops, for every limit and every set of agents.
THEOREM BootedWithinLimit == Spec => []WithinLimit
  <1>1. LifeInv => WithinLimit
    BY InvImpliesLimit DEF LifeInv
  <1> QED
    BY <1>1, LifeInvariant, PTL

\* Whatever the order in which the maps of pipes and plugins are walked and
\* whichever step fails: agents are let in, and the client reports its status,
\* only when the receivers, senders and modules of all pipes are prepared.
THEOREM BootIsReady == Spec => []Ready
  <1>1. LifeInv => Ready
    BY DEF LifeInv, BootInv, LetIn, EverythingPrepared, Ready, Sharing
  <1> QED
    BY <1>1, LifeInvariant, PTL

\* When Start has returned the client is closed, no module runs and a gRPC server
\* that was started is stopped; after a signal its listener and all sub-queues of
\* all pipes are closed, for any number of pipes and partitions.
THEOREM BootReleases == Spec => []Released
  <1>1. LifeInv => Released
    BY DEF LifeInv, BootInv, LifeTypeOK, PluginsSoFar, ModulesSoFar, SocketsSoFar, Released,
           Sharing, Servers
  <1> QED
    BY <1>1, LifeInvariant, PTL

\* Clients and servers are closed only when no module runs, stay closed, and are
\* all started before the first module runs.
THEOREM BootStopsInOrder == Spec => StopOrder
  <1> DEFINE Ordered ==
        /\ \A s \in Sharing :
             /\ (plug[s] # "closed" /\ plug'[s] = "closed") =>
                  \A p \in Pipes, k \in Kinds : mod[p][k] # "running"
             /\ plug[s] = "closed" => plug'[s] = "closed"
        /\ (\E p \in Pipes, k \in Kinds : mod'[p][k] = "running" /\ mod[p][k] # "running") =>
             \A s \in Sharing : plug[s] = "started"
  <1>1. LifeInv /\ LifeInv' /\ [Next]_vars => [Ordered]_vars
    <2> SUFFICES ASSUME LifeInv, LifeInv', Next PROVE Ordered
      OBVIOUS
    <2> USE DEF LifeInv, BootInv, LifeTypeOK
    <2>1. \/ UNCHANGED plug
          \/ bpc \in {"load", "prepareSharing", "start"}
          \/ \E s \in Sharing : CloseSharing(s)
      BY DEF Next, PrepareModules, Load, InitTelemetry, LoadSharing, PrepareHttpServer,
         PrepareClient, PrepareGrpcServer, Preparing, InitModules, AfterSharingStart,
         AllReturned, Signal, StartSharing, PrepareGatherer, PrepareSender,
         PrepareSenderFails, PrepareProcessor, PrepareGathererFails, Turn, BootModule,
         BootReturns, SyncCall, Connections, plugins
    <2>2. ASSUME NEW s \in Sharing, plug[s] = "closed" PROVE plug'[s] = "closed"
      BY <2>1, <2>2 DEF PluginsSoFar, CloseSharing
    <2>3. ASSUME NEW s \in Sharing, plug[s] # "closed", plug'[s] = "closed",
                 NEW p \in Pipes, NEW k \in Kinds
          PROVE mod[p][k] # "running"
      BY <2>1, <2>3 DEF ModulesSoFar, CloseSharing
    <2>4. ASSUME NEW p \in Pipes, NEW k \in Kinds,
                 mod'[p][k] = "running", mod[p][k] # "running"
          PROVE bpc = "boot"
      <3>1. CASE InitModules
        BY <2>4, <3>1 DEF InitModules, AllModules
      <3>2. ASSUME NEW q \in Pipes, PrepareModules(q) PROVE bpc = "boot"
        BY <2>4, <3>2 DEF PrepareModules, PrepareGatherer, PrepareSender, PrepareSenderFails,
           PrepareProcessor, PrepareGathererFails, Shutdown
      <3>3. ASSUME NEW q \in Pipes, NEW l \in Kinds, BootReturns(q, l) PROVE bpc = "boot"
        BY <2>4, <3>3 DEF BootReturns
      <3>4. ASSUME NEW q \in Pipes, NEW l \in Kinds, BootModule(q, l) PROVE bpc = "boot"
        BY <3>4 DEF BootModule
      <3>5. CASE UNCHANGED mod
        BY <2>4, <3>5
      <3> QED
        BY <3>1, <3>2, <3>3, <3>4, <3>5
        DEF Next, Load, InitTelemetry, LoadSharing, PrepareHttpServer, PrepareClient,
            PrepareGrpcServer, Preparing, AfterSharingStart, AllReturned, Signal,
            StartSharing, CloseSharing, SyncCall, Connections, modules
    <2> QED
      BY <2>2, <2>3, <2>4 DEF PluginsSoFar
  <1> QED
    BY <1>1, LifeInvariant, PTL DEF Spec, StopOrder
-----------------------------------------------------------------------------
(***************************************************************************)
(* Telemetry.                                                              *)
(***************************************************************************)
Task == [exporter : {"prometheus", MS, "none"}, series : Series, delta : {1, -1}]

TelemetryTypeOK ==
  /\ exporters \in Exporters /\ hash \in [Series -> Buckets]
  /\ wpc \in [Writers -> {"new", "idle", "next", "find", "create", "load", "swap"}]
  /\ work \in [Writers -> Seq(Task)]
  /\ sub \in [Writers -> Nat] /\ old \in [Writers -> Int]
  /\ metrics = NoMetric \/ metrics \in [Buckets -> Seq([values : Series, metric : Nat])]
  /\ vals \in Seq(Int) /\ prom \in [Series -> Int] /\ called \in [Series -> Int]

\* What is left of an update: no exporter twice for a series, and what is to
\* be told Prometheus is told the metrics service afterwards.
Orderly(q) ==
  /\ \A j, k \in 1 .. Len(q) :
       q[j].exporter = q[k].exporter /\ q[j].series = q[k].series => j = k
  /\ \A j \in 1 .. Len(q) : q[j].exporter = "prometheus" =>
       \E k \in 1 .. Len(q) : j < k /\ q[k] = Entry(MS, q[j].series, q[j].delta)

\* A writer between finding its sub-metric and adding to it has the right one.
AtSubMetric ==
  \A w \in Writers :
    /\ Orderly(work[w])
    /\ wpc[w] \in {"new", "idle"} => work[w] = <<>>
    /\ wpc[w] # "new" => metrics # NoMetric
    /\ wpc[w] \in {"find", "create", "load", "swap"} =>
         work[w] # <<>> /\ Head(work[w]).exporter = MS
    /\ \A s \in Series :
         wpc[w] \in {"load", "swap"} /\ Head(work[w]).series = s =>
           Find(s) # {} /\ sub[w] = SubMetric(s)

\* A series has one sub-metric, of its own, with what the updates amount to.
Registered ==
  \A s \in Series :
    /\ \A j, k \in Find(s) : j = k
    /\ Find(s) # {} => SubMetric(s) \in 1 .. Len(vals)
    /\ \A r \in Series :
         s # r /\ Find(s) # {} /\ Find(r) # {} => SubMetric(s) # SubMetric(r)
    /\ Value(s) = called[s]

\* The writers that have told Prometheus but not yet the metrics service.
Has(q, e, s, d) == \E k \in 1 .. Len(q) : q[k] = Entry(e, s, d)
Leads(q, s, d) == Has(q, MS, s, d) /\ ~Has(q, "prometheus", s, d)
Ahead(s, d) == {w \in Writers : Leads(work[w], s, d)}

Agreeing ==
  "prometheus" \in ToSet(exporters) =>
    \A s \in Series :
      prom[s] - called[s] = Cardinality(Ahead(s, 1)) - Cardinality(Ahead(s, -1))

TelemetryInv == TelemetryTypeOK /\ AtSubMetric /\ Registered /\ Agreeing

-----------------------------------------------------------------------------
\* The two configurations of the exporters.
LEMMA TwoExporters ==
  ASSUME exporters \in Exporters
  PROVE  /\ Len(exporters) = 2 /\ DOMAIN exporters = 1 .. 2
         /\ \/ exporters[1] = "prometheus" /\ exporters[2] = MS
            \/ /\ exporters[1] = MS /\ exporters[2] = "none"
               /\ "prometheus" \notin ToSet(exporters)
  BY DEF Exporters, ToSet, MS

\* An entry is what it is made of.
LEMMA TaskEntry ==
  /\ \A t \in Task : t = Entry(t.exporter, t.series, t.delta)
  /\ \A e, s, d : Entry(e, s, d).exporter = e /\ Entry(e, s, d).series = s
                    /\ Entry(e, s, d).delta = d
  /\ \A e \in {"prometheus", MS, "none"} : \A s \in Series : \A d \in {1, -1} :
       Entry(e, s, d) \in Task
  /\ "prometheus" # MS /\ "none" # MS /\ "none" # "prometheus"
  BY DEF Task, Entry, MS

\* Where the entries of a shorter list are in the longer one.
LEMMA TailPlaces ==
  ASSUME NEW q \in Seq(Task), q # <<>>
  PROVE  /\ Tail(q) \in Seq(Task) /\ Head(q) = q[1] /\ Head(q) \in Task
         /\ Len(q) \in Nat /\ 1 \in 1 .. Len(q) /\ Len(Tail(q)) = Len(q) - 1
         /\ \A k \in 1 .. Len(Tail(q)) : k + 1 \in 1 .. Len(q) /\ Tail(q)[k] = q[k + 1]
         /\ \A k \in 1 .. Len(q) : k # 1 =>
              k - 1 \in 1 .. Len(Tail(q)) /\ Tail(q)[k - 1] = q[k]
  OBVIOUS

LEMMA OrderlyTail ==
  ASSUME NEW q \in Seq(Task), q # <<>>, Orderly(q)
  PROVE  Orderly(Tail(q))
<1> DEFINE r == Tail(q)
<1>0. /\ Len(q) \in Nat /\ Len(r) = Len(q) - 1
      /\ \A k \in 1 .. Len(r) : k + 1 \in 1 .. Len(q) /\ r[k] = q[k + 1]
      /\ \A k \in 1 .. Len(q) : k # 1 => k - 1 \in 1 .. Len(r) /\ r[k - 1] = q[k]
  BY TailPlaces
<1> HIDE DEF r
<1>1. ASSUME NEW j \in 1 .. Len(r), NEW k \in 1 .. Len(r),
             r[j].exporter = r[k].exporter, r[j].series = r[k].series
      PROVE  j = k
  <2>1. j + 1 = k + 1
    BY <1>0, <1>1 DEF Orderly
  <2> QED BY <1>0, <2>1
<1>2. ASSUME NEW j \in 1 .. Len(r), r[j].exporter = "prometheus"
      PROVE  \E k \in 1 .. Len(r) : j < k /\ r[k] = Entry(MS, r[j].series, r[j].delta)
  <2>1. j + 1 \in 1 .. Len(q) /\ r[j] = q[j + 1]
    BY <1>0
  <2>2. PICK k \in 1 .. Len(q) : j + 1 < k /\ q[k] = Entry(MS, r[j].series, r[j].delta)
    BY <1>2, <2>1 DEF Orderly
  <2>3. k # 1 /\ j < k - 1
    BY <1>0, <2>2
  <2> QED BY <1>0, <2>2, <2>3
<1> QED BY <1>1, <1>2 DEF Orderly, r

\* The first entry is in no other place.
LEMMA HasTail ==
  ASSUME NEW q \in Seq(Task), q # <<>>, Orderly(q), NEW e, NEW s, NEW d
  PROVE  /\ Has(q, e, s, d) <=> Has(Tail(q), e, s, d) \/ Head(q) = Entry(e, s, d)
         /\ Head(q) = Entry(e, s, d) => ~Has(Tail(q), e, s, d)
<1> DEFINE r == Tail(q)
<1>0. /\ Head(q) = q[1] /\ 1 \in 1 .. Len(q) /\ Len(q) \in Nat /\ Len(r) = Len(q) - 1
      /\ \A k \in 1 .. Len(r) : k + 1 \in 1 .. Len(q) /\ r[k] = q[k + 1]
      /\ \A k \in 1 .. Len(q) : k # 1 => k - 1 \in 1 .. Len(r) /\ r[k - 1] = q[k]
  BY TailPlaces
<1> HIDE DEF r
<1>1. Has(q, e, s, d) <=> Has(r, e, s, d) \/ Head(q) = Entry(e, s, d)
  BY <1>0 DEF Has
<1>2. ASSUME Head(q) = Entry(e, s, d), NEW k \in 1 .. Len(r), r[k] = Entry(e, s, d)
      PROVE  FALSE
  <2>1. k + 1 \in 1 .. Len(q) /\ q[k + 1] = q[1]
    BY <1>0, <1>2
  <2>2. k + 1 = 1
    BY <1>0, <2>1 DEF Orderly
  <2> QED BY <1>0, <2>2
<1>3. Head(q) = Entry(e, s, d) => ~Has(r, e, s, d)
  BY <1>2 DEF Has
<1> QED BY <1>1, <1>3 DEF r

\* Telling Prometheus puts a writer ahead, telling the metrics service ends it.
LEMMA LeadsTail ==
  ASSUME NEW q \in Seq(Task), q # <<>>, Orderly(q), NEW s \in Series, NEW d \in {1, -1}
  PROVE  LET t == Head(q)
             first == s = t.series /\ d = t.delta
         IN /\ t.exporter = "prometheus" =>
                 /\ Leads(Tail(q), s, d) <=> Leads(q, s, d) \/ first
                 /\ first => ~Leads(q, s, d)
            /\ t.exporter = MS =>
                 /\ Leads(q, s, d) <=> Leads(Tail(q), s, d) \/ first
                 /\ first => ~Leads(Tail(q), s, d)
            /\ t.exporter = "none" => (Leads(Tail(q), s, d) <=> Leads(q, s, d))
<1> DEFINE t == Head(q)
           first == s = t.series /\ d = t.delta
<1>0. t \in Task /\ t = q[1] /\ 1 \in 1 .. Len(q) /\ Len(q) \in Nat
  BY TailPlaces
<1>1. /\ t = Entry("prometheus", s, d) <=> t.exporter = "prometheus" /\ first
      /\ t = Entry(MS, s, d) <=> t.exporter = MS /\ first
  BY <1>0, TaskEntry
<1>2. /\ Has(q, MS, s, d) <=> Has(Tail(q), MS, s, d) \/ t = Entry(MS, s, d)
      /\ t = Entry(MS, s, d) => ~Has(Tail(q), MS, s, d)
      /\ Has(q, "prometheus", s, d) <=> Has(Tail(q), "prometheus", s, d)
                                          \/ t = Entry("prometheus", s, d)
      /\ t = Entry("prometheus", s, d) => ~Has(Tail(q), "prometheus", s, d)
  BY HasTail
<1>3. t = Entry("prometheus", s, d) => Has(q, MS, s, d)
  <2> SUFFICES ASSUME t = Entry("prometheus", s, d) PROVE Has(q, MS, s, d)
    OBVIOUS
  <2>1. q[1].exporter = "prometheus" /\ q[1].series = s /\ q[1].delta = d
    BY <1>0, TaskEntry
  <2> QED BY <1>0, <2>1 DEF Orderly, Has
<1>4. t = Entry(MS, s, d) => ~Has(q, "prometheus", s, d)
  <2> SUFFICES ASSUME t = Entry(MS, s, d), NEW j \in 1 .. Len(q), q[j] = Entry("prometheus", s, d)
               PROVE  FALSE
    BY DEF Has
  <2>1. q[j].exporter = "prometheus" /\ q[j].series = s /\ q[j].delta = d
    BY TaskEntry
  <2>2. PICK k \in 1 .. Len(q) : j < k /\ q[k] = Entry(MS, s, d)
    BY <2>1 DEF Orderly
  <2>3. k = 1
    BY <1>0, <2>2 DEF Orderly
  <2> QED BY <1>0, <2>2, <2>3
<1> HIDE DEF t
<1>5. "prometheus" # MS /\ "none" # MS /\ "none" # "prometheus"
  BY TaskEntry
<1>6. t.exporter = "prometheus" =>
                 /\ Leads(Tail(q), s, d) <=> Leads(q, s, d) \/ first
                 /\ first => ~Leads(q, s, d)
  BY <1>1, <1>2, <1>3, <1>5 DEF Leads
<1>7. t.exporter = MS =>
                 /\ Leads(q, s, d) <=> Leads(Tail(q), s, d) \/ first
                 /\ first => ~Leads(Tail(q), s, d)
  BY <1>1, <1>2, <1>4, <1>5 DEF Leads
<1>8. t.exporter = "none" => (Leads(Tail(q), s, d) <=> Leads(q, s, d))
  BY <1>1, <1>2, <1>5 DEF Leads
<1> QED BY <1>6, <1>7, <1>8 DEF t

\* A list that is just made is in order and puts no writer ahead.
Fresh(q) ==
  /\ q \in Seq(Task) /\ Orderly(q)
  /\ "prometheus" \in ToSet(exporters) =>
       \A r \in Series : \A f \in {1, -1} : ~Leads(q, r, f)

LEMMA CountFresh ==
  ASSUME exporters \in Exporters, NEW s \in Series, NEW d \in {1, -1}
  PROVE  Fresh([i \in DOMAIN exporters |-> Entry(exporters[i], s, d)])
<1> DEFINE q == [i \in DOMAIN exporters |-> Entry(exporters[i], s, d)]
<1>1. /\ Len(exporters) = 2 /\ DOMAIN exporters = 1 .. 2
      /\ \/ exporters[1] = "prometheus" /\ exporters[2] = MS
         \/ /\ exporters[1] = MS /\ exporters[2] = "none"
            /\ "prometheus" \notin ToSet(exporters)
  BY TwoExporters
<1>2. q \in Seq(Task) /\ Len(q) = 2 /\ 1 .. Len(q) = {1, 2}
      /\ q[1] = Entry(exporters[1], s, d) /\ q[2] = Entry(exporters[2], s, d)
  <2>1. \A i \in 1 .. 2 : Entry(exporters[i], s, d) \in Task
    BY <1>1, TaskEntry
  <2>2. q \in [1 .. 2 -> Task]
    BY <1>1, <2>1
  <2>3. q \in Seq(Task) /\ Len(q) = 2
    BY <2>2
  <2>4. 1 .. 2 = {1, 2}
    OBVIOUS
  <2> QED BY <1>1, <2>3, <2>4
<1>3. /\ q[1].exporter = exporters[1] /\ q[2].exporter = exporters[2]
      /\ q[1].series = s /\ q[1].delta = d
  BY <1>2, TaskEntry
<1> HIDE DEF q
<1>4. Orderly(q)
  <2>1. \A j, k \in 1 .. Len(q) : q[j].exporter = q[k].exporter => j = k
    BY <1>1, <1>2, <1>3, TaskEntry
  <2>2. ASSUME NEW j \in 1 .. Len(q), q[j].exporter = "prometheus"
        PROVE  \E k \in 1 .. Len(q) : j < k /\ q[k] = Entry(MS, q[j].series, q[j].delta)
    <3>1. j = 1 /\ exporters[2] = MS
      BY <1>1, <1>2, <1>3, <2>2, TaskEntry
    <3>2. 2 \in 1 .. Len(q) /\ j < 2 /\ q[2] = Entry(MS, q[j].series, q[j].delta)
      BY <1>2, <1>3, <3>1
    <3> QED BY <3>2
  <2> QED BY <2>1, <2>2 DEF Orderly
<1>5. ASSUME "prometheus" \in ToSet(exporters), NEW r \in Series, NEW f \in {1, -1},
             Has(q, MS, r, f)
      PROVE  Has(q, "prometheus", r, f)
  <2>1. q[2] = Entry(MS, r, f) \/ q[1] = Entry(MS, r, f)
    BY <1>2, <1>5 DEF Has
  <2>2. exporters[1] = "prometheus" /\ exporters[2] = MS
    BY <1>1, <1>5
  <2>3. q[1].exporter # MS /\ Entry(MS, r, f).exporter = MS
    BY <1>3, <2>2, TaskEntry
  <2>4. Entry(MS, s, d) = Entry(MS, r, f)
    BY <1>2, <2>1, <2>2, <2>3
  <2>5. s = r /\ d = f
    BY <2>4, TaskEntry
  <2> QED BY <1>2, <2>2, <2>5 DEF Has
<1> QED BY <1>2, <1>4, <1>5 DEF Fresh, Leads, q

LEMMA TimeFresh ==
  ASSUME exporters \in Exporters
  PROVE  Fresh([i \in 1 .. 2 * Len(exporters) |->
                  Entry(exporters[(i + 1) \div 2], IF i % 2 = 1 THEN Sum ELSE Count, 1)])
<1> DEFINE q == [i \in 1 .. 2 * Len(exporters) |->
                   Entry(exporters[(i + 1) \div 2], IF i % 2 = 1 THEN Sum ELSE Count, 1)]
           e1 == exporters[1]
           e2 == exporters[2]
<1>1. /\ Len(exporters) = 2
      /\ \/ e1 = "prometheus" /\ e2 = MS
         \/ /\ e1 = MS /\ e2 = "none"
            /\ "prometheus" \notin ToSet(exporters)
  BY TwoExporters
<1>2. Sum \in Series /\ Count \in Series /\ Sum # Count
  BY TelemetryAssumption DEF Series
<1>3. 2 * Len(exporters) = 4 /\ 1 .. 4 = {1, 2, 3, 4}
  BY <1>1
<1>4. /\ (1 + 1) \div 2 = 1 /\ (2 + 1) \div 2 = 1 /\ (3 + 1) \div 2 = 2 /\ (4 + 1) \div 2 = 2
      /\ 1 % 2 = 1 /\ 2 % 2 = 0 /\ 3 % 2 = 1 /\ 4 % 2 = 0
  OBVIOUS
<1>5. /\ q[1] = Entry(e1, Sum, 1) /\ q[2] = Entry(e1, Count, 1)
      /\ q[3] = Entry(e2, Sum, 1) /\ q[4] = Entry(e2, Count, 1)
      /\ DOMAIN q = 1 .. 4 /\ q = [i \in 1 .. 4 |-> q[i]]
  <2>1. q = [i \in 1 .. 4 |-> Entry(exporters[(i + 1) \div 2],
                                     IF i % 2 = 1 THEN Sum ELSE Count, 1)]
    BY <1>3
  <2>2. \A i \in 1 .. 4 : q[i] = Entry(exporters[(i + 1) \div 2],
                                        IF i % 2 = 1 THEN Sum ELSE Count, 1)
    BY <2>1
  <2>3. DOMAIN q = 1 .. 4 /\ q = [i \in 1 .. 4 |-> q[i]]
    BY <2>1
  <2> HIDE DEF q
  <2>4. 1 \in 1 .. 4 /\ 2 \in 1 .. 4 /\ 3 \in 1 .. 4 /\ 4 \in 1 .. 4
    OBVIOUS
  <2>5. q[1] = Entry(e1, Sum, 1) /\ q[2] = Entry(e1, Count, 1)
    BY <1>4, <2>2, <2>4
  <2>6. q[3] = Entry(e2, Sum, 1) /\ q[4] = Entry(e2, Count, 1)
    BY <1>4, <2>2, <2>4
  <2> QED BY <2>3, <2>5, <2>6
<1> HIDE DEF q, e1, e2
<1>6. q \in Seq(Task) /\ Len(q) = 4 /\ 1 .. Len(q) = {1, 2, 3, 4}
  <2>1. \A i \in 1 .. 4 : q[i] \in Task
    BY <1>1, <1>2, <1>3, <1>5, TaskEntry
  <2>2. q \in Seq(Task)
    <3>1. [i \in 1 .. 4 |-> q[i]] \in Seq(Task)
      BY <2>1
    <3> QED BY <1>5, <3>1
  <2>3. Len(q) = 4
    BY <1>5, <2>2
  <2> QED BY <1>3, <2>2, <2>3
<1>7. /\ q[1].exporter = e1 /\ q[1].series = Sum /\ q[1].delta = 1
      /\ q[2].exporter = e1 /\ q[2].series = Count /\ q[2].delta = 1
      /\ q[3].exporter = e2 /\ q[3].series = Sum /\ q[3].delta = 1
      /\ q[4].exporter = e2 /\ q[4].series = Count /\ q[4].delta = 1
      /\ e1 # e2
  BY <1>1, <1>5, TaskEntry
<1>8. Orderly(q)
  <2>1. \A j, k \in 1 .. Len(q) :
          q[j].exporter = q[k].exporter /\ q[j].series = q[k].series => j = k
    BY <1>2, <1>6, <1>7
  <2>2. ASSUME NEW j \in 1 .. Len(q), q[j].exporter = "prometheus"
        PROVE  \E k \in 1 .. Len(q) : j < k /\ q[k] = Entry(MS, q[j].series, q[j].delta)
    <3>1. j \in {1, 2} /\ e2 = MS
      BY <1>1, <1>6, <1>7, <2>2, TaskEntry
    <3>2. CASE j = 1
      <4>1. 3 \in 1 .. Len(q) /\ j < 3 /\ q[3] = Entry(MS, q[j].series, q[j].delta)
        BY <1>5, <1>6, <1>7, <3>1, <3>2
      <4> QED BY <4>1
    <3>3. CASE j = 2
      <4>1. 4 \in 1 .. Len(q) /\ j < 4 /\ q[4] = Entry(MS, q[j].series, q[j].delta)
        BY <1>5, <1>6, <1>7, <3>1, <3>3
      <4> QED BY <4>1
    <3> QED BY <3>1, <3>2, <3>3
  <2> QED BY <2>1, <2>2 DEF Orderly
<1>9. ASSUME "prometheus" \in ToSet(exporters), NEW r \in Series, NEW f \in {1, -1},
             Has(q, MS, r, f)
      PROVE  Has(q, "prometheus", r, f)
  <2>1. e1 = "prometheus" /\ e2 = MS
    BY <1>1, <1>9
  <2>2. PICK k \in 1 .. Len(q) : q[k] = Entry(MS, r, f)
    BY <1>9 DEF Has
  <2>3. q[k].exporter = MS /\ q[k].series = r /\ q[k].delta = f
    BY <2>2, TaskEntry
  <2>4. k \in {3, 4}
    BY <1>6, <1>7, <2>1, <2>3, TaskEntry
  <2>5. f = 1 /\ (r = Sum \/ r = Count)
    BY <1>7, <2>3, <2>4
  <2> QED BY <1>5, <1>6, <2>1, <2>5 DEF Has
<1> QED BY <1>6, <1>8, <1>9 DEF Fresh, Leads, q

\* The writers ahead, when the list of one of them changes.
LEMMA AheadChange ==
  ASSUME NEW w \in Writers, NEW q, work' = Of(work, w, q), DOMAIN work = Writers,
         NEW s, NEW d
  PROVE  /\ (Leads(q, s, d) <=> Leads(work[w], s, d)) => Ahead(s, d)' = Ahead(s, d)
         /\ (Leads(q, s, d) /\ ~Leads(work[w], s, d)) =>
              Cardinality(Ahead(s, d)') = Cardinality(Ahead(s, d)) + 1
         /\ (~Leads(q, s, d) /\ Leads(work[w], s, d)) =>
              Cardinality(Ahead(s, d)') = Cardinality(Ahead(s, d)) - 1
         /\ Cardinality(Ahead(s, d)) \in Nat
<1> DEFINE A == Ahead(s, d)
           B == Ahead(s, d)'
<1>1. B = {v \in Writers : Leads(IF v = w THEN q ELSE work[v], s, d)}
  <2>1. \A v \in Writers : work'[v] = IF v = w THEN q ELSE work[v]
    BY DEF Of
  <2>2. B = {v \in Writers : Leads(work'[v], s, d)}
    BY DEF Ahead, Leads, Has, Entry
  <2> QED BY <2>1, <2>2
<1>2. A = {v \in Writers : Leads(work[v], s, d)}
  BY DEF Ahead
<1>3. IsFiniteSet(A) /\ Cardinality(A) \in Nat
  <2>1. A \subseteq Writers
    BY <1>2
  <2>2. IsFiniteSet(A)
    BY <2>1, TelemetryAssumption, FS_Subset
  <2> QED BY <2>2, FS_CardinalityType
<1> HIDE DEF A, B
<1>4. (Leads(q, s, d) <=> Leads(work[w], s, d)) => B = A
  BY <1>1, <1>2
<1>5. ASSUME Leads(q, s, d), ~Leads(work[w], s, d) PROVE Cardinality(B) = Cardinality(A) + 1
  <2>1. B = A \cup {w} /\ w \notin A
    BY <1>1, <1>2, <1>5
  <2> QED BY <1>3, <2>1, FS_AddElement
<1>6. ASSUME ~Leads(q, s, d), Leads(work[w], s, d) PROVE Cardinality(B) = Cardinality(A) - 1
  <2>1. B = A \ {w} /\ w \in A
    BY <1>1, <1>2, <1>6
  <2> QED BY <1>3, <2>1, FS_RemoveElement
<1> QED BY <1>3, <1>4, <1>5, <1>6 DEF A, B

\* The registry and the writers when neither the map nor the values change.
LEMMA SameMetrics ==
  ASSUME UNCHANGED <<metrics, hash>>, NEW s
  PROVE  Find(s)' = Find(s) /\ SubMetric(s)' = SubMetric(s)
  BY DEF Find, SubMetric

LEMMA SameRegistered ==
  ASSUME Registered, UNCHANGED <<metrics, hash, vals, called>>
  PROVE  Registered'
<1>1. \A s \in Series : Find(s)' = Find(s) /\ SubMetric(s)' = SubMetric(s) /\ Value(s)' = Value(s)
  BY SameMetrics DEF Value
<1> QED BY <1>1 DEF Registered

LEMMA SameAgreeing ==
  ASSUME Agreeing, UNCHANGED <<exporters, prom, called, work>>
  PROVE  Agreeing'
<1>1. \A s, d : Ahead(s, d)' = Ahead(s, d)
  BY DEF Ahead
<1> QED BY <1>1 DEF Agreeing

\* A writer w moves on to l, and the map stays as it is.
LEMMA MovesOn ==
  ASSUME TelemetryTypeOK, AtSubMetric, UNCHANGED <<metrics, hash>>,
         NEW w \in Writers, NEW q,
         NEW l \in {"idle", "next", "find", "create", "load", "swap"},
         wpc' = Of(wpc, w, l), wpc[w] # "new" \/ metrics # NoMetric,
         work' = Of(work, w, q), Orderly(q),
         \A v \in Writers \ {w} : sub'[v] = sub[v],
         l = "idle" => q = <<>>,
         l \in {"find", "create", "load", "swap"} => q # <<>> /\ Head(q).exporter = MS,
         \A s \in Series : l \in {"load", "swap"} /\ Head(q).series = s =>
           Find(s) # {} /\ sub'[w] = SubMetric(s)
  PROVE  AtSubMetric'
<1>1. \A s : Find(s)' = Find(s) /\ SubMetric(s)' = SubMetric(s)
  BY SameMetrics
<1>2. \A v \in Writers : /\ wpc'[v] = (IF v = w THEN l ELSE wpc[v])
                         /\ work'[v] = (IF v = w THEN q ELSE work[v])
  BY DEF TelemetryTypeOK, Of
<1>3. ASSUME NEW v \in Writers
      PROVE  /\ Orderly(work'[v])
             /\ wpc'[v] \in {"new", "idle"} => work'[v] = <<>>
             /\ wpc'[v] # "new" => metrics' # NoMetric
             /\ wpc'[v] \in {"find", "create", "load", "swap"} =>
                  work'[v] # <<>> /\ Head(work'[v]).exporter = MS
             /\ \A s \in Series :
                  wpc'[v] \in {"load", "swap"} /\ Head(work'[v]).series = s =>
                    Find(s)' # {} /\ sub'[v] = SubMetric(s)'
  <2>1. CASE v = w
    BY <1>1, <1>2, <2>1 DEF AtSubMetric
  <2>2. CASE v # w
    <3>1. wpc'[v] = wpc[v] /\ work'[v] = work[v] /\ sub'[v] = sub[v] /\ metrics' = metrics
      BY <1>2, <2>2
    <3> QED BY <1>1, <3>1 DEF AtSubMetric
  <2> QED BY <2>1, <2>2
<1> QED BY <1>3 DEF AtSubMetric, Orderly, Entry, NoMetric, MS

LEMMA Unmoved ==
  ASSUME TelemetryTypeOK, NEW w \in Writers
  PROVE  /\ work = Of(work, w, work[w]) /\ work[w] \in Seq(Task)
         /\ DOMAIN work = Writers /\ DOMAIN wpc = Writers /\ DOMAIN sub = Writers
  BY DEF TelemetryTypeOK, Of

\* An update begins.
LEMMA CallKeeps ==
  ASSUME TelemetryInv, NEW w \in Writers, NEW q, Fresh(q), Call(w, q)
  PROVE  TelemetryInv'
<1>0. TelemetryTypeOK /\ AtSubMetric /\ Registered /\ Agreeing
  BY DEF TelemetryInv
<1>1. /\ wpc[w] = "idle" /\ wpc' = Of(wpc, w, "next") /\ work' = Of(work, w, q)
      /\ UNCHANGED <<exporters, hash, sub, old, metrics, vals, prom, called>>
  BY DEF Call, setting
<1>2. TelemetryTypeOK'
  BY <1>0, <1>1 DEF TelemetryTypeOK, Fresh, Of, NoMetric, Exporters, MS
<1>3. AtSubMetric'
  BY <1>0, <1>1, MovesOn DEF Fresh
<1>4. Registered'
  BY <1>0, <1>1, SameRegistered
<1>5. ASSUME "prometheus" \in ToSet(exporters), NEW s \in Series, NEW d \in {1, -1}
      PROVE  Ahead(s, d)' = Ahead(s, d)
  <2>1. ~Leads(q, s, d)
    BY <1>5 DEF Fresh
  <2>2. work[w] = <<>>
    BY <1>0, <1>1 DEF AtSubMetric
  <2>3. ~Leads(work[w], s, d)
    BY <2>2 DEF Leads, Has
  <2> QED BY <1>0, <1>1, <2>1, <2>3, AheadChange, Unmoved
<1>6. Agreeing'
  BY <1>0, <1>1, <1>5 DEF Agreeing, ToSet
<1> QED BY <1>2, <1>3, <1>4, <1>6 DEF TelemetryInv

\* Prometheus is told, or an exporter that ignores it, or it is the turn of
\* the metrics service, or the update is over.
LEMMA NextExporterKeeps ==
  ASSUME TelemetryInv, NEW w \in Writers, NextExporter(w)
  PROVE  TelemetryInv'
<1>0. TelemetryTypeOK /\ AtSubMetric /\ Registered /\ Agreeing
  BY DEF TelemetryInv
<1> DEFINE q == work[w]
           t == Head(q)
<1>1. /\ wpc[w] = "next" /\ Orderly(q)
      /\ UNCHANGED <<exporters, hash, sub, old, metrics, vals, called>>
  BY <1>0 DEF NextExporter, setting, AtSubMetric
<1>u. work = Of(work, w, q) /\ q \in Seq(Task) /\ DOMAIN work = Writers
  BY <1>0, Unmoved
<1>r. Registered'
  BY <1>0, <1>1, SameRegistered
<1>2. CASE q = <<>> \/ t.exporter = MS
  <2>1. PICK l \in {"idle", "find"} :
          /\ wpc' = Of(wpc, w, l) /\ UNCHANGED <<work, prom>>
          /\ l = "idle" => q = <<>>
          /\ l = "find" => q # <<>> /\ t.exporter = MS
    BY <1>2 DEF NextExporter
  <2>2. TelemetryTypeOK'
    BY <1>0, <1>1, <2>1 DEF TelemetryTypeOK, Of, NoMetric, Exporters, MS
  <2>3. AtSubMetric'
    BY <1>0, <1>1, <1>u, <2>1, MovesOn
  <2>4. Agreeing'
    BY <1>0, <1>1, <2>1, SameAgreeing
  <2> QED BY <1>r, <2>2, <2>3, <2>4 DEF TelemetryInv
<1>3. CASE q # <<>> /\ t.exporter # MS
  <2>1. /\ work' = Of(work, w, Tail(q)) /\ wpc' = wpc
        /\ prom' = IF t.exporter = "prometheus"
                   THEN Of(prom, t.series, prom[t.series] + t.delta) ELSE prom
    BY <1>3 DEF NextExporter
  <2>2. t \in Task /\ Tail(q) \in Seq(Task) /\ Orderly(Tail(q))
    BY <1>1, <1>3, <1>u, TailPlaces, OrderlyTail
  <2>3. t.series \in Series /\ t.delta \in {1, -1} /\ t.exporter \in {"prometheus", "none"}
    BY <1>3, <2>2 DEF Task
  <2>t. TelemetryTypeOK'
    <3>1. prom' \in [Series -> Int]
      BY <1>0, <2>1, <2>3 DEF TelemetryTypeOK, Of
    <3>2. work' \in [Writers -> Seq(Task)]
      BY <1>0, <2>1, <2>2 DEF TelemetryTypeOK, Of
    <3> QED BY <1>0, <1>1, <2>1, <3>1, <3>2 DEF TelemetryTypeOK, NoMetric, Exporters, MS
  <2>4. AtSubMetric'
    <3>1. wpc' = Of(wpc, w, "next")
      BY <1>0, <1>1, <2>1 DEF TelemetryTypeOK, Of
    <3> QED BY <1>0, <1>1, <2>1, <2>2, <3>1, MovesOn
  <2>5. ASSUME "prometheus" \in ToSet(exporters), NEW s \in Series
        PROVE  prom'[s] - called[s] = Cardinality(Ahead(s, 1)') - Cardinality(Ahead(s, -1)')
    <3> DEFINE a == Cardinality(Ahead(s, 1))
               b == Cardinality(Ahead(s, -1))
    <3>0. /\ a \in Nat /\ b \in Nat /\ prom[s] - called[s] = a - b
          /\ prom[s] \in Int /\ called[s] \in Int
      BY <1>0, <1>u, <2>1, <2>5, AheadChange DEF Agreeing, TelemetryTypeOK
    <3>1. CASE t.exporter = "none" \/ s # t.series
      <4>1. ASSUME NEW d \in {1, -1} PROVE Ahead(s, d)' = Ahead(s, d)
        <5>1. Leads(Tail(q), s, d) <=> Leads(q, s, d)
          BY <1>1, <1>3, <1>u, <2>3, <3>1, LeadsTail
        <5> QED BY <1>u, <2>1, <5>1, AheadChange
      <4>2. prom'[s] = prom[s]
        BY <1>0, <2>1, <2>3, <3>1 DEF TelemetryTypeOK, Of
      <4> QED BY <3>0, <4>1, <4>2
    <3>2. CASE t.exporter = "prometheus" /\ s = t.series
      <4>1. prom'[s] = prom[s] + t.delta
        BY <1>0, <2>1, <3>2 DEF TelemetryTypeOK, Of
      <4>2. ASSUME NEW d \in {1, -1}
            PROVE  Cardinality(Ahead(s, d)') =
                     Cardinality(Ahead(s, d)) + IF d = t.delta THEN 1 ELSE 0
        <5>1. /\ Leads(Tail(q), s, d) <=> Leads(q, s, d) \/ d = t.delta
              /\ d = t.delta => ~Leads(q, s, d)
          BY <1>1, <1>3, <1>u, <3>2, LeadsTail
        <5>2. Cardinality(Ahead(s, d)) \in Nat
          BY <1>u, <2>1, AheadChange
        <5>3. CASE d = t.delta
          BY <1>u, <2>1, <5>1, <5>3, AheadChange
        <5>4. CASE d # t.delta
          <6>1. Ahead(s, d)' = Ahead(s, d)
            BY <1>u, <2>1, <5>1, <5>4, AheadChange
          <6> QED BY <5>2, <5>4, <6>1
        <5> QED BY <5>3, <5>4
      <4> HIDE DEF t
      <4>3. CASE t.delta = 1
        <5>1. Cardinality(Ahead(s, 1)') = a + 1 /\ Cardinality(Ahead(s, -1)') = b
          BY <3>0, <4>2, <4>3
        <5> QED BY <3>0, <4>1, <4>3, <5>1
      <4>4. CASE t.delta = -1
        <5>1. Cardinality(Ahead(s, 1)') = a /\ Cardinality(Ahead(s, -1)') = b + 1
          BY <3>0, <4>2, <4>4
        <5> QED BY <3>0, <4>1, <4>4, <5>1
      <4> QED BY <2>3, <4>3, <4>4
    <3> QED BY <2>3, <3>1, <3>2
  <2>6. Agreeing'
    BY <1>1, <2>5 DEF Agreeing, ToSet
  <2> QED BY <1>r, <2>t, <2>4, <2>6 DEF TelemetryInv
<1> QED BY <1>2, <1>3

\* The first place of a series that has one place.
LEMMA OnlyPlace ==
  ASSUME NEW k \in Nat
  PROVE  (CHOOSE x \in {k} : \A j \in {k} : x <= j) = k
  OBVIOUS

\* The places of a series.
LEMMA Places ==
  ASSUME TelemetryTypeOK, Registered, metrics # NoMetric, NEW s \in Series
  PROVE  /\ hash[s] \in Buckets /\ metrics[hash[s]] \in Seq([values : Series, metric : Nat])
         /\ Find(s) = {k \in 1 .. Len(metrics[hash[s]]) : metrics[hash[s]][k].values = s}
         /\ Find(s) # {} => \E k \in 1 .. Len(metrics[hash[s]]) :
              Find(s) = {k} /\ SubMetric(s) = metrics[hash[s]][k].metric
<1>1. /\ hash[s] \in Buckets /\ metrics[hash[s]] \in Seq([values : Series, metric : Nat])
  BY DEF TelemetryTypeOK
<1>2. Find(s) = {k \in 1 .. Len(metrics[hash[s]]) : metrics[hash[s]][k].values = s}
  BY <1>1 DEF Find
<1>3. ASSUME NEW k \in Find(s)
      PROVE  /\ k \in 1 .. Len(metrics[hash[s]]) /\ Find(s) = {k}
             /\ SubMetric(s) = metrics[hash[s]][k].metric
  <2>1. Find(s) = {k} /\ k \in 1 .. Len(metrics[hash[s]]) /\ k \in Nat
    BY <1>2, <1>3 DEF Registered
  <2>2. SubMetric(s) = metrics[hash[s]][CHOOSE x \in {k} : \A j \in {k} : x <= j].metric
    BY <2>1 DEF SubMetric
  <2> QED BY <2>1, <2>2, OnlyPlace
<1> QED BY <1>1, <1>2, <1>3

\* The writer finds its sub-metric, or that there is none.
LEMMA FindKeeps ==
  ASSUME TelemetryInv, NEW w \in Writers, NEW s, s = Head(work[w]).series,
         wpc[w] \in {"find", "create"},
         \/ Find(s) # {} /\ sub' = Of(sub, w, SubMetric(s)) /\ wpc' = Of(wpc, w, "load")
         \/ wpc' = Of(wpc, w, "create") /\ sub' = sub,
         UNCHANGED <<exporters, hash, work, old, metrics, vals, prom, called>>
  PROVE  TelemetryInv'
<1>0. TelemetryTypeOK /\ AtSubMetric /\ Registered /\ Agreeing
  BY DEF TelemetryInv
<1>1. /\ work = Of(work, w, work[w]) /\ work[w] \in Seq(Task) /\ DOMAIN sub = Writers
      /\ Orderly(work[w]) /\ work[w] # <<>> /\ Head(work[w]).exporter = MS
  BY <1>0, Unmoved DEF AtSubMetric
<1>2. s \in Series
  BY <1>1, TailPlaces DEF Task
<1>3. Find(s) # {} => SubMetric(s) \in Nat
  <2>1. vals \in Seq(Int) /\ (Find(s) # {} => SubMetric(s) \in 1 .. Len(vals))
    BY <1>0, <1>2 DEF TelemetryTypeOK, Registered
  <2> QED BY <2>1
<1>4. TelemetryTypeOK'
  <2>1. sub' \in [Writers -> Nat]
    BY <1>0, <1>3 DEF TelemetryTypeOK, Of
  <2> QED BY <1>0, <2>1 DEF TelemetryTypeOK, Of, NoMetric, Exporters, MS
<1>5. AtSubMetric'
  <2>1. CASE Find(s) # {} /\ sub' = Of(sub, w, SubMetric(s)) /\ wpc' = Of(wpc, w, "load")
    <3>1. sub'[w] = SubMetric(s) /\ \A v \in Writers \ {w} : sub'[v] = sub[v]
      BY <1>1, <2>1 DEF Of
    <3>2. \A r \in Series : Head(work[w]).series = r => Find(r) # {} /\ sub'[w] = SubMetric(r)
      BY <2>1, <3>1
    <3> QED BY <1>0, <1>1, <2>1, <3>1, <3>2, MovesOn
  <2>2. CASE wpc' = Of(wpc, w, "create") /\ sub' = sub
    BY <1>0, <1>1, <2>2, MovesOn
  <2> QED BY <2>1, <2>2
<1>6. Registered' /\ Agreeing'
  BY <1>0, SameRegistered, SameAgreeing
<1> QED BY <1>4, <1>5, <1>6 DEF TelemetryInv

\* A bucket with an entry more, and where a series is in it.
LEMMA Appended ==
  ASSUME NEW T, NEW q \in Seq(T), NEW e \in T
  PROVE  /\ Append(q, e) \in Seq(T) /\ Len(q) \in Nat
         /\ Len(Append(q, e)) = Len(q) + 1 /\ DOMAIN Append(q, e) = 1 .. Len(q) + 1
         /\ Append(q, e)[Len(q) + 1] = e
         /\ \A k \in 1 .. Len(q) : Append(q, e)[k] = q[k]
  OBVIOUS

LEMMA OneBucket ==
  ASSUME NEW D, NEW R, NEW f \in [D -> R], NEW b \in D, NEW a \in R
  PROVE  /\ [f EXCEPT ![b] = a] \in [D -> R] /\ [f EXCEPT ![b] = a][b] = a
         /\ \A c \in D : c # b => [f EXCEPT ![b] = a][c] = f[c]
  OBVIOUS

LEMMA AppendedPlaces ==
  ASSUME NEW T, NEW q \in Seq(T), NEW e \in T, NEW r
  PROVE  {k \in DOMAIN Append(q, e) : Append(q, e)[k].values = r} =
           {k \in 1 .. Len(q) : q[k].values = r}
             \cup (IF e.values = r THEN {Len(q) + 1} ELSE {})
<1> DEFINE a == Append(q, e)
           n == Len(q) + 1
<1>1. /\ Len(q) \in Nat /\ DOMAIN a = 1 .. n /\ a[n] = e
      /\ \A k \in 1 .. Len(q) : a[k] = q[k]
  BY Appended
<1>2. 1 .. n = (1 .. Len(q)) \cup {n} /\ n \notin 1 .. Len(q)
  BY <1>1
<1> HIDE DEF a, n
<1>3. {k \in DOMAIN a : a[k].values = r} =
        {k \in 1 .. Len(q) : q[k].values = r} \cup (IF e.values = r THEN {n} ELSE {})
  BY <1>1, <1>2
<1> QED BY <1>3 DEF a, n

\* A series that nobody has used gets a sub-metric at the end of its bucket.
LEMMA CreateKeeps ==
  ASSUME TelemetryInv, NEW w \in Writers, NEW s, s = Head(work[w]).series,
         wpc[w] = "create", Find(s) = {},
         vals' = Append(vals, 0), sub' = Of(sub, w, Len(vals) + 1),
         metrics' = [metrics EXCEPT ![hash[s]] =
                       Append(@, [values |-> s, metric |-> Len(vals) + 1])],
         wpc' = Of(wpc, w, "load"),
         UNCHANGED <<exporters, hash, work, old, prom, called>>
  PROVE  TelemetryInv'
<1>0. TelemetryTypeOK /\ AtSubMetric /\ Registered /\ Agreeing
  BY DEF TelemetryInv
<1> DEFINE MR == [values : Series, metric : Nat]
           b == hash[s]
           m == Len(vals) + 1
<1>1. /\ work[w] \in Seq(Task) /\ work[w] # <<>> /\ Head(work[w]).exporter = MS
      /\ metrics # NoMetric
  BY <1>0, Unmoved DEF AtSubMetric
<1>2. s \in Series
  BY <1>1, TailPlaces DEF Task
<1>3. metrics \in [Buckets -> Seq(MR)] /\ vals \in Seq(Int) /\ hash \in [Series -> Buckets]
  BY <1>0, <1>1 DEF TelemetryTypeOK
<1> HIDE DEF MR
<1>4. b \in Buckets /\ metrics[b] \in Seq(MR) /\ m \in Nat
  BY <1>2, <1>3
<1> DEFINE e == [values |-> s, metric |-> m]
           L == Len(metrics[b])
<1>5. e \in MR /\ e.values = s /\ e.metric = m
  BY <1>2, <1>4 DEF MR
<1> HIDE DEF b
<1>6. metrics' = [metrics EXCEPT ![b] = Append(metrics[b], e)]
  BY DEF b
<1> HIDE DEF e
<1>7. Append(metrics[b], e) \in Seq(MR) /\ L \in Nat
      /\ Append(metrics[b], e)[L + 1] = e
      /\ \A k \in 1 .. L : Append(metrics[b], e)[k] = metrics[b][k]
  BY <1>4, <1>5, Appended
<1>8. /\ metrics'[b] = Append(metrics[b], e)
      /\ \A c \in Buckets : c # b => metrics'[c] = metrics[c]
      /\ metrics' \in [Buckets -> Seq(MR)]
  <2> DEFINE a == Append(metrics[b], e)
  <2>1. metrics' = [metrics EXCEPT ![b] = a] /\ a \in Seq(MR)
    BY <1>6, <1>7
  <2> HIDE DEF a
  <2>2. /\ [metrics EXCEPT ![b] = a] \in [Buckets -> Seq(MR)]
        /\ [metrics EXCEPT ![b] = a][b] = a
        /\ \A c \in Buckets : c # b => [metrics EXCEPT ![b] = a][c] = metrics[c]
    BY <1>3, <1>4, <2>1, OneBucket
  <2> QED BY <2>1, <2>2, Zenon DEF a
<1>m. metrics' # NoMetric
  <2>1. DOMAIN metrics' = Buckets /\ DOMAIN NoMetric = {}
    BY <1>8 DEF NoMetric
  <2> QED BY <2>1, TelemetryAssumption
<1>f. \A r \in Series :
        Find(r)' = {k \in DOMAIN metrics'[hash[r]] : metrics'[hash[r]][k].values = r}
  BY <1>m DEF Find, NoMetric
<1>p. \A r \in Series :
        /\ hash[r] \in Buckets
        /\ Find(r) = {k \in 1 .. Len(metrics[hash[r]]) : metrics[hash[r]][k].values = r}
        /\ Find(r) # {} => \E k \in 1 .. Len(metrics[hash[r]]) :
             Find(r) = {k} /\ SubMetric(r) = metrics[hash[r]][k].metric
  BY <1>0, <1>1, Places
<1>9. /\ vals' \in Seq(Int) /\ Len(vals') = m /\ vals'[m] = 0
      /\ \A k \in 1 .. Len(vals) : vals'[k] = vals[k] /\ k # m /\ k \in 1 .. m
      /\ m \in 1 .. m
  BY <1>3
<1> HIDE DEF m, L
<1>a. ASSUME NEW r \in Series, hash[r] = b
      PROVE  Find(r)' = Find(r) \cup (IF s = r THEN {Len(metrics[b]) + 1} ELSE {})
  <2>1. {k \in DOMAIN Append(metrics[b], e) : Append(metrics[b], e)[k].values = r} =
           {k \in 1 .. Len(metrics[b]) : metrics[b][k].values = r}
             \cup (IF e.values = r THEN {Len(metrics[b]) + 1} ELSE {})
    BY <1>4, <1>5, AppendedPlaces
  <2>2. Find(r)' = {k \in DOMAIN Append(metrics[b], e) : Append(metrics[b], e)[k].values = r}
    <3>1. Find(r)' = {k \in DOMAIN metrics'[hash[r]] : metrics'[hash[r]][k].values = r}
      BY <1>f
    <3>2. metrics'[hash[r]] = Append(metrics[b], e)
      BY <1>8, <1>a
    <3> QED BY <3>1, <3>2, Zenon
  <2>3. Find(r) = {k \in 1 .. Len(metrics[b]) : metrics[b][k].values = r}
    BY <1>a, <1>p
  <2> QED BY <1>5, <2>1, <2>2, <2>3
<1>b. ASSUME NEW r \in Series, hash[r] = b, NEW k \in Nat, Find(r)' = {k}
      PROVE  SubMetric(r)' = Append(metrics[b], e)[k].metric
  <2>1. SubMetric(r)' = metrics'[b][CHOOSE x \in {k} : \A j \in {k} : x <= j].metric
    BY <1>b DEF SubMetric
  <2> QED BY <1>8, <2>1, OnlyPlace
<1>10. Find(s)' = {L + 1} /\ SubMetric(s)' = m
  <2>1. Find(s)' = {L + 1}
    BY <1>2, <1>a DEF b, L
  <2>2. L + 1 \in Nat
    BY <1>7
  <2> QED BY <1>2, <1>5, <1>7, <1>b, <2>1, <2>2 DEF b
<1>11. ASSUME NEW r \in Series, r # s
       PROVE  Find(r)' = Find(r) /\ (Find(r) # {} => SubMetric(r)' = SubMetric(r))
  <2>1. CASE hash[r] # b
    <3>1. metrics'[hash[r]] = metrics[hash[r]] /\ metrics[hash[r]] \in Seq(MR)
      BY <1>3, <1>8, <1>p, <2>1
    <3>2. DOMAIN metrics[hash[r]] = 1 .. Len(metrics[hash[r]])
      BY <3>1
    <3>3. Find(r)' = Find(r)
      <4>1. Find(r)' = {k \in DOMAIN metrics'[hash[r]] : metrics'[hash[r]][k].values = r}
        BY <1>f
      <4>2. Find(r) = {k \in 1 .. Len(metrics[hash[r]]) : metrics[hash[r]][k].values = r}
        BY <1>p
      <4> QED BY <3>1, <3>2, <4>1, <4>2, Zenon
    <3> QED BY <3>1, <3>3 DEF SubMetric
  <2>2. CASE hash[r] = b
    <3>1. Find(r)' = Find(r)
      <4>1. Find(r)' = Find(r) \cup {}
        BY <1>11, <1>a, <2>2
      <4> QED BY <4>1
    <3>2. ASSUME NEW k \in 1 .. L, Find(r) = {k}, SubMetric(r) = metrics[b][k].metric
          PROVE  SubMetric(r)' = SubMetric(r)
      <4>1. k \in Nat
        BY <1>7
      <4> QED BY <1>7, <1>b, <2>2, <3>1, <3>2, <4>1
    <3>3. Find(r) # {} => \E k \in 1 .. L : Find(r) = {k} /\ SubMetric(r) = metrics[b][k].metric
      BY <1>p, <2>2 DEF L
    <3> QED BY <3>1, <3>2, <3>3
  <2> QED BY <2>1, <2>2
<1>12. Registered'
  <2>1. ASSUME NEW r \in Series
        PROVE  /\ \A j, k \in Find(r)' : j = k
               /\ Find(r)' # {} => SubMetric(r)' \in 1 .. m
               /\ Value(r)' = called[r]
    <3>1. CASE r = s
      <4>1. Value(s) = 0 /\ Value(s) = called[s]
        BY <1>0, <1>2 DEF Registered, Value
      <4>2. Value(s)' = 0
        BY <1>9, <1>10 DEF Value
      <4> QED BY <1>9, <1>10, <3>1, <4>1, <4>2
    <3>2. CASE r # s
      <4>1. /\ \A j, k \in Find(r) : j = k
            /\ Find(r) # {} => SubMetric(r) \in 1 .. Len(vals)
            /\ Value(r) = called[r]
        BY <1>0 DEF Registered
      <4>2. Value(r)' = Value(r)
        BY <1>9, <1>11, <3>2, <4>1 DEF Value
      <4> QED BY <1>9, <1>11, <3>2, <4>1, <4>2
    <3> QED BY <3>1, <3>2
  <2>2. ASSUME NEW r \in Series, NEW x \in Series, r # x, Find(r)' # {}, Find(x)' # {}
        PROVE  SubMetric(r)' # SubMetric(x)'
    <3>1. \A y \in Series : y # s /\ Find(y)' # {} =>
            /\ Find(y) # {} /\ SubMetric(y)' = SubMetric(y) /\ SubMetric(y)' # m
      BY <1>0, <1>9, <1>11 DEF Registered
    <3> QED BY <1>0, <1>10, <2>2, <3>1 DEF Registered
  <2> QED BY <1>9, <2>1, <2>2 DEF Registered
<1>13. TelemetryTypeOK'
  <2>1. /\ sub' \in [Writers -> Nat]
        /\ wpc' \in [Writers -> {"new", "idle", "next", "find", "create", "load", "swap"}]
    BY <1>0, <1>4 DEF TelemetryTypeOK, Of, m
  <2> QED BY <1>0, <1>8, <1>9, <2>1 DEF TelemetryTypeOK, Exporters, MS, MR
<1>14. AtSubMetric'
  <2>1. \A v \in Writers : /\ wpc'[v] = (IF v = w THEN "load" ELSE wpc[v])
                           /\ sub'[v] = (IF v = w THEN m ELSE sub[v])
    BY <1>0 DEF TelemetryTypeOK, Of, m
  <2>2. ASSUME NEW v \in Writers
        PROVE  /\ Orderly(work'[v])
               /\ wpc'[v] \in {"new", "idle"} => work'[v] = <<>>
               /\ wpc'[v] # "new" => metrics' # NoMetric
               /\ wpc'[v] \in {"find", "create", "load", "swap"} =>
                    work'[v] # <<>> /\ Head(work'[v]).exporter = MS
               /\ \A r \in Series :
                    wpc'[v] \in {"load", "swap"} /\ Head(work'[v]).series = r =>
                      Find(r)' # {} /\ sub'[v] = SubMetric(r)'
    <3>0. work'[v] = work[v]
      OBVIOUS
    <3>1. CASE v = w
      BY <1>0, <1>1, <1>10, <1>m, <2>1, <3>0, <3>1 DEF AtSubMetric
    <3>2. CASE v # w
      BY <1>0, <1>11, <1>m, <2>1, <3>0, <3>2 DEF AtSubMetric
    <3> QED BY <3>1, <3>2
  <2> QED BY <2>2 DEF AtSubMetric, Orderly, Entry, NoMetric, MS
<1>15. Agreeing'
  BY <1>0, SameAgreeing
<1> QED BY <1>12, <1>13, <1>14, <1>15 DEF TelemetryInv

\* The value is read.
LEMMA LoadKeeps ==
  ASSUME TelemetryInv, NEW w \in Writers, LoadValue(w)
  PROVE  TelemetryInv'
<1>0. TelemetryTypeOK /\ AtSubMetric /\ Registered /\ Agreeing
  BY DEF TelemetryInv
<1>1. /\ wpc[w] = "load" /\ wpc' = Of(wpc, w, "swap") /\ old' = Of(old, w, vals[sub[w]])
      /\ UNCHANGED <<exporters, hash, work, sub, metrics, vals, prom, called>>
  BY DEF LoadValue, setting
<1>2. /\ work = Of(work, w, work[w]) /\ work[w] \in Seq(Task)
      /\ Orderly(work[w]) /\ work[w] # <<>> /\ Head(work[w]).exporter = MS
      /\ \A r \in Series : Head(work[w]).series = r => Find(r) # {} /\ sub[w] = SubMetric(r)
  BY <1>0, <1>1, Unmoved DEF AtSubMetric
<1>3. vals[sub[w]] \in Int
  <2>1. Head(work[w]).series \in Series
    BY <1>2, TailPlaces DEF Task
  <2>2. sub[w] \in 1 .. Len(vals) /\ vals \in Seq(Int)
    BY <1>0, <1>2, <2>1 DEF Registered, TelemetryTypeOK
  <2> QED BY <2>2
<1>4. TelemetryTypeOK'
  <2>1. old' \in [Writers -> Int]
    BY <1>0, <1>1, <1>3 DEF TelemetryTypeOK, Of
  <2> QED BY <1>0, <1>1, <2>1 DEF TelemetryTypeOK, Of, NoMetric, Exporters, MS
<1>5. AtSubMetric'
  BY <1>0, <1>1, <1>2, MovesOn
<1>6. Registered' /\ Agreeing'
  BY <1>0, <1>1, SameRegistered, SameAgreeing
<1> QED BY <1>4, <1>5, <1>6 DEF TelemetryInv

\* The value is as it was read, and the sum is stored; or it is read again.
LEMMA SwapKeeps ==
  ASSUME TelemetryInv, NEW w \in Writers, CompareAndSwap(w)
  PROVE  TelemetryInv'
<1>0. TelemetryTypeOK /\ AtSubMetric /\ Registered /\ Agreeing
  BY DEF TelemetryInv
<1> DEFINE q == work[w]
           t == Head(q)
           s == t.series
<1>1. /\ wpc[w] = "swap" /\ old' = Of(old, w, 0)
      /\ UNCHANGED <<exporters, hash, metrics, prom>>
  BY DEF CompareAndSwap, setting
<1>2. /\ work = Of(work, w, q) /\ q \in Seq(Task) /\ DOMAIN work = Writers
      /\ Orderly(q) /\ q # <<>> /\ t.exporter = MS
      /\ \A r \in Series : s = r => Find(r) # {} /\ sub[w] = SubMetric(r)
  BY <1>0, <1>1, Unmoved DEF AtSubMetric
<1>3. t \in Task /\ Tail(q) \in Seq(Task) /\ Orderly(Tail(q)) /\ s \in Series /\ t.delta \in {1, -1}
  BY <1>2, TailPlaces, OrderlyTail DEF Task
<1>4. old' \in [Writers -> Int]
  BY <1>0, <1>1 DEF TelemetryTypeOK, Of
<1>5. CASE vals[sub[w]] # old[w]
  <2>1. wpc' = Of(wpc, w, "load") /\ UNCHANGED <<vals, called, work, sub>>
    BY <1>5 DEF CompareAndSwap
  <2>2. TelemetryTypeOK'
    BY <1>0, <1>1, <1>4, <2>1 DEF TelemetryTypeOK, Of, NoMetric, Exporters, MS
  <2>3. AtSubMetric'
    BY <1>0, <1>1, <1>2, <2>1, MovesOn
  <2>4. Registered' /\ Agreeing'
    BY <1>0, <1>1, <2>1, SameRegistered, SameAgreeing
  <2> QED BY <2>2, <2>3, <2>4 DEF TelemetryInv
<1>6. CASE vals[sub[w]] = old[w]
  <2> DEFINE i == sub[w]
  <2>1. /\ vals' = Of(vals, i, vals[i] + t.delta)
        /\ called' = Of(called, s, called[s] + t.delta)
        /\ work' = Of(work, w, Tail(q)) /\ wpc' = Of(wpc, w, "next") /\ sub' = Of(sub, w, 0)
    BY <1>6 DEF CompareAndSwap
  <2>2. i \in 1 .. Len(vals) /\ vals \in Seq(Int) /\ Find(s) # {} /\ i = SubMetric(s)
    BY <1>0, <1>2, <1>3 DEF Registered, TelemetryTypeOK
  <2>3. vals[i] \in Int /\ t.delta \in Int /\ vals[i] + t.delta \in Int
    BY <1>3, <2>2
  <2>4. /\ vals' \in Seq(Int) /\ Len(vals') = Len(vals)
        /\ vals'[i] = vals[i] + t.delta
        /\ \A k \in 1 .. Len(vals) : k # i => vals'[k] = vals[k]
    <3> DEFINE x == vals[i] + t.delta
    <3> HIDE DEF x, i
    <3>1. vals' = [vals EXCEPT ![i] = x] /\ x \in Int
      BY <2>1, <2>3 DEF Of, x
    <3>2. /\ [vals EXCEPT ![i] = x] \in Seq(Int) /\ Len([vals EXCEPT ![i] = x]) = Len(vals)
          /\ [vals EXCEPT ![i] = x][i] = x
          /\ \A k \in 1 .. Len(vals) : k # i => [vals EXCEPT ![i] = x][k] = vals[k]
      BY <2>2, <3>1
    <3> QED BY <3>1, <3>2 DEF x
  <2>5. /\ called' \in [Series -> Int] /\ called'[s] = called[s] + t.delta
        /\ \A r \in Series : r # s => called'[r] = called[r]
    <3> DEFINE x == called[s] + t.delta
    <3>1. called \in [Series -> Int] /\ s \in Series
      BY <1>0, <1>3 DEF TelemetryTypeOK
    <3>2. x \in Int
      BY <2>3, <3>1
    <3>3. called' = [called EXCEPT ![s] = x]
      BY <2>1 DEF Of
    <3> HIDE DEF x, s
    <3>4. /\ called' \in [Series -> Int] /\ called'[s] = x
          /\ \A r \in Series : r # s => called'[r] = called[r]
      BY <3>1, <3>2, <3>3
    <3> QED BY <3>4 DEF x
  <2>t. TelemetryTypeOK'
    <3>1. work' \in [Writers -> Seq(Task)] /\ sub' \in [Writers -> Nat]
      BY <1>0, <1>3, <2>1 DEF TelemetryTypeOK, Of
    <3>2. wpc' \in [Writers -> {"new", "idle", "next", "find", "create", "load", "swap"}]
      BY <1>0, <2>1 DEF TelemetryTypeOK, Of
    <3> QED BY <1>0, <1>1, <1>4, <2>4, <2>5, <3>1, <3>2 DEF TelemetryTypeOK, NoMetric, Exporters, MS
  <2>6. AtSubMetric'
    <3>1. \A v \in Writers \ {w} : sub'[v] = sub[v]
      BY <1>0, <2>1 DEF TelemetryTypeOK, Of
    <3> QED BY <1>0, <1>1, <1>3, <2>1, <3>1, MovesOn
  <2>7. Registered'
    <3>1. \A r \in Series : Find(r)' = Find(r) /\ SubMetric(r)' = SubMetric(r)
      BY <1>1, SameMetrics
    <3>2. ASSUME NEW r \in Series PROVE Value(r)' = called'[r]
      <4>1. Value(r) = called[r] /\ (Find(r) # {} => SubMetric(r) \in 1 .. Len(vals))
        BY <1>0 DEF Registered
      <4>2. Value(r)' = IF Find(r) = {} THEN 0 ELSE vals'[SubMetric(r)]
        BY <3>1 DEF Value
      <4> HIDE DEF s, i
      <4>3. CASE r = s
        BY <2>2, <2>4, <2>5, <4>1, <4>2, <4>3 DEF Value
      <4>4. CASE r # s
        <5>1. Find(r) # {} => SubMetric(r) # i
          BY <1>0, <1>3, <2>2, <4>4 DEF Registered
        <5> QED BY <2>4, <2>5, <4>1, <4>2, <4>4, <5>1 DEF Value
      <4> QED BY <4>3, <4>4
    <3> QED BY <1>0, <2>4, <3>1, <3>2 DEF Registered
  <2>8. ASSUME "prometheus" \in ToSet(exporters), NEW r \in Series
        PROVE  prom[r] - called'[r] = Cardinality(Ahead(r, 1)') - Cardinality(Ahead(r, -1)')
    <3> DEFINE a == Cardinality(Ahead(r, 1))
               b == Cardinality(Ahead(r, -1))
    <3>0. /\ a \in Nat /\ b \in Nat /\ prom[r] - called[r] = a - b
          /\ prom[r] \in Int /\ called[r] \in Int
      BY <1>0, <1>2, <2>1, <2>8, AheadChange DEF Agreeing, TelemetryTypeOK
    <3>1. CASE r # s
      <4>1. ASSUME NEW d \in {1, -1} PROVE Ahead(r, d)' = Ahead(r, d)
        <5>1. Leads(Tail(q), r, d) <=> Leads(q, r, d)
          BY <1>2, <3>1, LeadsTail
        <5> QED BY <1>2, <2>1, <5>1, AheadChange
      <4> QED BY <2>5, <3>0, <3>1, <4>1
    <3>2. CASE r = s
      <4>2. ASSUME NEW d \in {1, -1}
            PROVE  Cardinality(Ahead(r, d)') =
                     Cardinality(Ahead(r, d)) - IF d = t.delta THEN 1 ELSE 0
        <5>1. /\ Leads(q, r, d) <=> Leads(Tail(q), r, d) \/ d = t.delta
              /\ d = t.delta => ~Leads(Tail(q), r, d)
          BY <1>2, <3>2, LeadsTail
        <5>2. Cardinality(Ahead(r, d)) \in Nat
          BY <1>2, <2>1, AheadChange
        <5>3. CASE d = t.delta
          BY <1>2, <2>1, <5>1, <5>3, AheadChange
        <5>4. CASE d # t.delta
          <6>1. Ahead(r, d)' = Ahead(r, d)
            BY <1>2, <2>1, <5>1, <5>4, AheadChange
          <6> QED BY <5>2, <5>4, <6>1
        <5> QED BY <5>3, <5>4
      <4>1. called'[r] = called[r] + t.delta
        BY <2>5, <3>2
      <4> HIDE DEF t
      <4>3. CASE t.delta = 1
        <5>1. Cardinality(Ahead(r, 1)') = a - 1 /\ Cardinality(Ahead(r, -1)') = b
          BY <3>0, <4>2, <4>3
        <5> QED BY <3>0, <4>1, <4>3, <5>1
      <4>4. CASE t.delta = -1
        <5>1. Cardinality(Ahead(r, 1)') = a /\ Cardinality(Ahead(r, -1)') = b - 1
          BY <3>0, <4>2, <4>4
        <5> QED BY <3>0, <4>1, <4>4, <5>1
      <4> QED BY <1>3, <4>3, <4>4
    <3> QED BY <3>1, <3>2
  <2>9. Agreeing'
    BY <1>1, <2>8 DEF Agreeing, ToSet
  <2> QED BY <2>t, <2>6, <2>7, <2>9 DEF TelemetryInv
<1> QED BY <1>5, <1>6

\* The metric is made once, before anybody uses it.
LEMMA NewKeeps ==
  ASSUME TelemetryInv, NEW w \in Writers, NewMetric(w)
  PROVE  TelemetryInv'
<1>0. TelemetryTypeOK /\ AtSubMetric /\ Registered /\ Agreeing
  BY DEF TelemetryInv
<1>1. /\ wpc[w] = "new" /\ wpc' = Of(wpc, w, "idle")
      /\ metrics' = IF metrics = NoMetric THEN [b \in Buckets |-> <<>>] ELSE metrics
      /\ UNCHANGED <<exporters, hash, work, sub, old, vals, prom, called>>
  BY DEF NewMetric, setting
<1>2. work = Of(work, w, work[w]) /\ work[w] = <<>> /\ Orderly(work[w])
  BY <1>0, <1>1, Unmoved DEF AtSubMetric
<1>3. Agreeing'
  BY <1>0, <1>1, SameAgreeing
<1>4. TelemetryTypeOK'
  <2>1. metrics' = NoMetric \/ metrics' \in [Buckets -> Seq([values : Series, metric : Nat])]
    <3>1. metrics' = metrics \/ metrics' = [b \in Buckets |-> <<>>]
      BY <1>1
    <3>2. [b \in Buckets |-> <<>>] \in [Buckets -> Seq([values : Series, metric : Nat])]
      OBVIOUS
    <3>3. metrics = NoMetric \/ metrics \in [Buckets -> Seq([values : Series, metric : Nat])]
      BY <1>0 DEF TelemetryTypeOK
    <3> QED BY <3>1, <3>2, <3>3
  <2> QED BY <1>0, <1>1, <2>1 DEF TelemetryTypeOK, Of, NoMetric, Exporters, MS
<1>5. CASE metrics # NoMetric
  <2>1. metrics' = metrics
    BY <1>1, <1>5
  <2>2. AtSubMetric'
    BY <1>0, <1>1, <1>2, <1>5, <2>1, MovesOn
  <2>3. Registered'
    BY <1>0, <1>1, <2>1, SameRegistered
  <2> QED BY <1>3, <1>4, <2>2, <2>3 DEF TelemetryInv
<1>6. CASE metrics = NoMetric
  <2>1. metrics' = [b \in Buckets |-> <<>>]
    BY <1>1, <1>6
  <2>2. metrics' # NoMetric
    <3>1. DOMAIN metrics' = Buckets /\ DOMAIN NoMetric = {}
      BY <2>1 DEF NoMetric
    <3> QED BY <3>1, TelemetryAssumption
  <2>3. ASSUME NEW v \in Writers
        PROVE  wpc'[v] \in {"new", "idle"} /\ work'[v] = <<>> /\ Orderly(<<>>)
    <3>1. wpc[v] = "new" /\ work[v] = <<>> /\ Orderly(work[v])
      BY <1>0, <1>6 DEF AtSubMetric
    <3> QED BY <1>0, <1>1, <3>1 DEF TelemetryTypeOK, Of
  <2>4. AtSubMetric'
    BY <2>2, <2>3 DEF AtSubMetric, Orderly, Entry, NoMetric, MS
  <2>5. ASSUME NEW r \in Series PROVE Find(r)' = {} /\ Find(r) = {}
    <3>1. metrics'[hash[r]] = <<>>
      BY <1>0, <2>1 DEF TelemetryTypeOK
    <3>2. Find(r)' = {k \in DOMAIN metrics'[hash[r]] : metrics'[hash[r]][k].values = r}
      BY <1>1, <2>2 DEF Find, NoMetric
    <3>3. DOMAIN <<>> = {}
      OBVIOUS
    <3>4. Find(r)' = {}
      BY <3>1, <3>2, <3>3
    <3> QED BY <1>6, <3>4 DEF Find
  <2>6. \A r \in Series : Value(r)' = 0 /\ Value(r) = 0
    BY <2>5 DEF Value
  <2>7. Registered'
    BY <1>0, <1>1, <2>5, <2>6 DEF Registered
  <2> QED BY <1>3, <1>4, <2>4, <2>7 DEF TelemetryInv
<1> QED BY <1>5, <1>6

\* The report, the stream and the backend change nothing of the counters.
LEMMA QuietKeeps ==
  ASSUME TelemetryInv, UNCHANGED <<setting, writing>>
  PROVE  TelemetryInv'
<1>0. TelemetryTypeOK /\ AtSubMetric /\ Registered /\ Agreeing
  BY DEF TelemetryInv
<1>1. UNCHANGED <<exporters, hash, wpc, work, sub, old, metrics, vals, prom, called>>
  BY DEF setting, writing
<1>2. TelemetryTypeOK'
  BY <1>0, <1>1 DEF TelemetryTypeOK, NoMetric, Exporters, MS
<1>3. AtSubMetric'
  <2>1. \A r \in Series : Find(r)' = Find(r) /\ SubMetric(r)' = SubMetric(r)
    BY <1>1, SameMetrics
  <2> QED BY <1>0, <1>1, <2>1 DEF AtSubMetric, Orderly, Entry, NoMetric, MS
<1>4. Registered' /\ Agreeing'
  BY <1>0, <1>1, SameRegistered, SameAgreeing
<1> QED BY <1>2, <1>3, <1>4 DEF TelemetryInv

LEMMA TelemetryStart == TelemetryInit => TelemetryInv
<1> SUFFICES ASSUME TelemetryInit PROVE TelemetryInv
  OBVIOUS
<1>1. TelemetryTypeOK
  BY DEF TelemetryInit, TelemetryTypeOK
<1>2. AtSubMetric
  BY DEF TelemetryInit, AtSubMetric, Orderly
<1>3. \A s \in Series : Find(s) = {} /\ called[s] = 0 /\ prom[s] = 0
  BY DEF TelemetryInit, Find
<1>4. Registered
  BY <1>3 DEF Registered, Value
<1>5. \A s, d : Ahead(s, d) = {}
  BY DEF TelemetryInit, Ahead, Leads, Has
<1>6. Agreeing
  <2>1. Cardinality({}) = 0
    BY FS_EmptySet
  <2> QED BY <1>3, <1>5, <2>1 DEF Agreeing
<1> QED BY <1>1, <1>2, <1>4, <1>6 DEF TelemetryInv

(***************************************************************************)
(* No update of a metric is lost, whatever the number of goroutines and    *)
(* buckets and however they interleave: a series has one sub-metric, its   *)
(* value is what compare and swap has added to it, and once no update is   *)
(* under way Prometheus and the metrics service agree.                     *)
(***************************************************************************)
THEOREM TelemetryCountsExactly == TelemetrySpec => []CountExact
<1>1. TelemetryInit => TelemetryInv
  BY TelemetryStart
<1>2. TelemetryInv /\ [TelemetryNext]_telemetry => TelemetryInv'
  <2> SUFFICES ASSUME TelemetryInv, [TelemetryNext]_telemetry PROVE TelemetryInv'
    OBVIOUS
  <2>0. exporters \in Exporters
    BY DEF TelemetryInv, TelemetryTypeOK
  <2>1. ASSUME NEW w \in Writers, Writing(w) PROVE TelemetryInv'
    <3>1. CASE NewMetric(w)
      BY <3>1, NewKeeps
    <3>2. CASE AddTime(w)
      BY <2>0, <3>2, CallKeeps, TimeFresh DEF AddTime
    <3>3. CASE NextExporter(w)
      BY <3>3, NextExporterKeeps
    <3>4. CASE GetMetric(w)
      BY <3>4, FindKeeps DEF GetMetric, setting
    <3>5. CASE GetOrCreateMetric(w)
      <4>1. CASE Find(Head(work[w]).series) # {}
        BY <3>5, <4>1, FindKeeps DEF GetOrCreateMetric, setting
      <4>2. CASE Find(Head(work[w]).series) = {}
        BY <3>5, <4>2, CreateKeeps DEF GetOrCreateMetric, setting
      <4> QED BY <4>1, <4>2
    <3>6. CASE LoadValue(w)
      BY <3>6, LoadKeeps
    <3>7. CASE CompareAndSwap(w)
      BY <3>7, SwapKeeps
    <3>8. ASSUME NEW s \in Series, Inc(w, s) \/ Dec(w, s) PROVE TelemetryInv'
      <4>1. PICK d \in {1, -1} : Call(w, [i \in DOMAIN exporters |-> Entry(exporters[i], s, d)])
        BY <3>8 DEF Inc, Dec
      <4> QED BY <2>0, <4>1, CallKeeps, CountFresh
    <3> QED BY <2>1, <3>1, <3>2, <3>3, <3>4, <3>5, <3>6, <3>7, <3>8 DEF Writing
  <2>2. CASE Reporting \/ Expire \/ Outage \/ Recover \/ UNCHANGED telemetry
    <3>1. UNCHANGED <<setting, writing>>
      BY <2>2 DEF Reporting, Tick, WriteMetric, Send, Reopen, Expire, Outage, Recover, telemetry
    <3> QED BY <3>1, QuietKeeps
  <2> QED BY <2>1, <2>2 DEF TelemetryNext
<1>3. TelemetryInv => CountExact
  <2> SUFFICES ASSUME TelemetryInv, NEW s \in Series
               PROVE  /\ (\A j, k \in Find(s) : j = k) /\ Value(s) = called[s]
                      /\ ("prometheus" \in ToSet(exporters)
                            /\ \A w \in Writers : wpc[w] \in {"new", "idle"})
                           => prom[s] = Value(s)
    BY DEF CountExact
  <2>1. (\A j, k \in Find(s) : j = k) /\ Value(s) = called[s]
    BY DEF TelemetryInv, Registered
  <2>2. ASSUME "prometheus" \in ToSet(exporters), \A w \in Writers : wpc[w] \in {"new", "idle"}
        PROVE  prom[s] = called[s]
    <3>1. \A w \in Writers : work[w] = <<>>
      BY <2>2 DEF TelemetryInv, AtSubMetric
    <3>2. \A d : Ahead(s, d) = {}
      BY <3>1 DEF Ahead, Leads, Has
    <3>3. prom[s] - called[s] = Cardinality(Ahead(s, 1)) - Cardinality(Ahead(s, -1))
      BY <2>2 DEF TelemetryInv, Agreeing
    <3>4. Cardinality({}) = 0 /\ prom[s] \in Int /\ called[s] \in Int
      BY FS_EmptySet DEF TelemetryInv, TelemetryTypeOK
    <3> QED BY <3>2, <3>3, <3>4
  <2> QED BY <2>1, <2>2
<1> QED BY <1>1, <1>2, <1>3, PTL DEF TelemetrySpec
=============================================================================
