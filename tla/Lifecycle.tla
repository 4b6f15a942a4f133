----------------------------- MODULE Lifecycle -----------------------------
(***************************************************************************)
(* One run of the process: the configuration, the sharing plugins, the     *)
(* modules of the pipes, and what happens to all of them when one step     *)
(* fails or a signal arrives.  The maps of plugins and pipes are walked in *)
(* any order.  Agents connect as soon as the gRPC server is started, and   *)
(* their synchronous calls go to the invoker that Boot registers.          *)
(***************************************************************************)
EXTENDS AcceptLimiter

CONSTANTS Pipes, Partition

ASSUME LifecycleAssumption == Partition \in Nat \ {0}

Sharing == {"client", "grpc", "http"}
Servers == {"grpc", "http"}
Kinds == {"gatherer", "sender", "processor"}

VARIABLES
  cfg,               \* what the configuration file says
  bpc, todo,         \* Start, and what is left of the loop it is in
  ctx,               \* "none" before the listener for signals is there
  plug,              \* the sharing plugins, closed when Close was called
  sock,              \* the sockets of the servers
  mod,               \* the modules of the pipes
  open,              \* how many sub-queues of each pipe are open
  listeners,         \* pipes whose sender listens to the client
  handlers,          \* pipes whose receiver is registered
  invoker            \* pipes whose receiver has its SyncInvoker

plugins == <<plug, sock>>
modules == <<mod, open, listeners, handlers, invoker>>
vars == <<limiter, cfg, bpc, todo, ctx, plugins, modules>>

Alive == bpc \notin {"failed", "exited", "panicked", "killed"}
AllPlugins(st) == [s \in Sharing |-> st]
AllModules(st) == [p \in Pipes |-> [k \in Kinds |-> st]]

(***************************************************************************)
(* From the configuration to the sharing plugins.                          *)
(***************************************************************************)
\* Load panics when the file cannot be read, and on a pipe without gatherer,
\* sender or processor: the check of initModules comes too late for it.
Load ==
  /\ bpc = "config"
  /\ bpc' = IF cfg.readable /\ cfg.complete THEN "telemetry" ELSE "panicked"
  /\ UNCHANGED <<limiter, cfg, todo, ctx, plugins, modules>>

InitTelemetry ==
  /\ bpc = "telemetry"
  /\ bpc' = IF cfg.exporter = "unknown" THEN "failed" ELSE "load"
  /\ UNCHANGED <<limiter, cfg, todo, ctx, plugins, modules>>

\* RegisterPlugins, addShutdownListener and sharing.Load; the registry panics
\* when it does not know a plugin.
LoadSharing ==
  /\ bpc = "load"
  /\ ctx' = "live"
  /\ IF cfg.known
     THEN bpc' = "prepareSharing" /\ todo' = Sharing /\ plug' = AllPlugins("loaded")
     ELSE bpc' = "panicked" /\ UNCHANGED <<todo, plug>>
  /\ UNCHANGED <<limiter, cfg, sock, modules>>

\* What the clients make of their settings: a certificate of the authority
\* that is missing, empty or no certificate, and a key pair.
ClientSettings ==
  [tls : BOOLEAN, ca : {"ok", "empty", "garbage"}, pair : {"none", "ok", "bad"},
   timeouts : BOOLEAN, backend : BOOLEAN]

\* The gRPC client needs certificates in the file of the authority, and a key
\* pair that is named must load.
GrpcConfigTLS(c) == c.ca = "ok" /\ c.pair # "bad"
GrpcClientPrepares(c) == (c.tls => GrpcConfigTLS(c)) /\ c.timeouts /\ c.backend

\* The Kafka client looks at nothing but the size of that file, and needs a pair.
KafkaConfigTLS(c) == c.ca # "empty" /\ c.pair = "ok"
KafkaClientPrepares(c) == (c.tls => KafkaConfigTLS(c)) /\ c.backend

Prepared(s) ==
  /\ plug' = [plug EXCEPT ![s] = "ready"] /\ todo' = todo \ {s}
  /\ bpc' = IF todo' = {} THEN "init" ELSE bpc

\* sharing.Close is called for all plugins.  One that was not prepared panics:
\* it has no server to stop, or no context to cancel.  No server was started,
\* so that Stop does not know of the listener of Prepare and leaves it open.
PrepareFails(s, made) ==
  /\ IF made /\ \A r \in Sharing \ {s} : plug[r] = "ready" \/ r = "http"
     THEN bpc' = "failed" /\ plug' = AllPlugins("closed")
     ELSE bpc' = "panicked" /\ UNCHANGED plug
  /\ UNCHANGED todo

Preparing(s) ==
  /\ bpc = "prepareSharing" /\ s \in todo
  /\ UNCHANGED <<limiter, cfg, ctx, modules>>

PrepareClient(c) ==
  /\ Preparing("client")
  /\ IF (IF cfg.kafka THEN KafkaClientPrepares(c) ELSE GrpcClientPrepares(c))
     THEN Prepared("client") ELSE PrepareFails("client", FALSE)
  /\ UNCHANGED sock

\* The files for TLS are checked before the server is made; then the address
\* is listened on, and the limiter is made last.
PrepareGrpcServer(failing) ==
  /\ Preparing("grpc")
  /\ IF failing = "nothing" THEN Prepared("grpc") ELSE PrepareFails("grpc", failing # "tls")
  /\ sock' = IF failing \in {"tls", "address"} THEN sock
             ELSE [sock EXCEPT !["grpc"] = "listening"]

PrepareHttpServer == Preparing("http") /\ Prepared("http") /\ UNCHANGED sock

(***************************************************************************)
(* The modules.  When one fails to prepare, Shutdown is called on all that *)
(* were tried; the sub-queues a failed Initialize had opened stay open.    *)
(***************************************************************************)
\* Mutant: the plugins are started before the modules are prepared.
InitModulesStarting ==
  /\ bpc = "init"
  /\ IF cfg.named
     THEN bpc' = "start" /\ todo' = Sharing /\ mod' = AllModules("new")
     ELSE bpc' = "panicked" /\ UNCHANGED <<todo, mod>>
  /\ UNCHANGED <<limiter, cfg, ctx, plugins, open, listeners, handlers, invoker>>

\* A server or client name that is not shared panics.
InitModules ==
  /\ bpc = "init"
  /\ IF cfg.named
     THEN bpc' = "prepare" /\ todo' = Pipes /\ mod' = AllModules("new")
     ELSE bpc' = "panicked" /\ UNCHANGED <<todo, mod>>
  /\ UNCHANGED <<limiter, cfg, ctx, plugins, open, listeners, handlers, invoker>>

\* Pipe after pipe, in any order; within one gatherer, sender, processor.
Turn(p, k, before) ==
  /\ bpc = "prepare" /\ p \in todo /\ mod[p][k] = "new"
  /\ IF before = {} THEN \A q \in todo : mod[q]["gatherer"] = "new"
     ELSE \A b \in before : mod[p][b] = "ready"
  /\ UNCHANGED <<limiter, cfg, ctx, plugins, invoker>>

Shutdown(tried) ==
  /\ mod' = [q \in Pipes |-> [k \in Kinds |->
               IF mod[q][k] = "ready" \/ <<q, k>> = tried THEN "stopped" ELSE mod[q][k]]]
  /\ bpc' = "closing" /\ todo' = Sharing

PrepareGatherer(p) ==
  /\ Turn(p, "gatherer", {})
  /\ mod' = [mod EXCEPT ![p]["gatherer"] = "ready"]
  /\ handlers' = handlers \cup {p} /\ open' = [open EXCEPT ![p] = Partition]
  /\ UNCHANGED <<bpc, todo, listeners>>

PrepareGathererFails(p, n) ==
  /\ Turn(p, "gatherer", {})
  /\ Shutdown(<<p, "gatherer">>)
  /\ handlers' = handlers \cup {p} /\ open' = [q \in Pipes |-> IF q = p THEN n ELSE 0]
  /\ UNCHANGED listeners

PrepareSender(p) ==
  /\ Turn(p, "sender", {"gatherer"})
  /\ mod' = [mod EXCEPT ![p]["sender"] = "ready"]
  /\ listeners' = listeners \cup {p}
  /\ UNCHANGED <<bpc, todo, open, handlers>>

\* Mutant: Start returns without closing the plugins.
PrepareSenderFailsReturning(p) ==
  /\ Turn(p, "sender", {"gatherer"})
  /\ listeners' = listeners \cup {p} /\ open' = [q \in Pipes |-> 0]
  /\ bpc' = "failed"
  /\ UNCHANGED <<mod, todo, handlers>>

\* A forwarder refuses the connection of the client.
PrepareSenderFails(p) ==
  /\ Turn(p, "sender", {"gatherer"})
  /\ Shutdown(<<p, "sender">>)
  /\ listeners' = listeners \cup {p} /\ open' = [q \in Pipes |-> 0]
  /\ UNCHANGED handlers

PrepareProcessor(p) ==
  /\ Turn(p, "processor", {"gatherer", "sender"})
  /\ mod' = [mod EXCEPT ![p]["processor"] = "ready"]
  /\ IF todo = {p} THEN bpc' = "start" /\ todo' = Sharing
     ELSE todo' = todo \ {p} /\ UNCHANGED bpc
  /\ UNCHANGED <<open, listeners, handlers>>

(***************************************************************************)
(* Starting and stopping.  No plugin's Start can fail: the goroutine that  *)
(* it makes listens on the address of the HTTP server, or logs that it     *)
(* could not.                                                              *)
(***************************************************************************)
StartSharing(s) ==
  /\ bpc = "start" /\ s \in todo
  /\ plug' = [plug EXCEPT ![s] = "started"] /\ todo' = todo \ {s}
  /\ \/ s # "client" /\ sock' = [sock EXCEPT ![s] = "serving"]
     \/ s # "grpc" /\ UNCHANGED sock
  /\ bpc' = IF todo' = {} THEN "after" ELSE bpc
  /\ UNCHANGED <<limiter, cfg, ctx, modules>>

\* The exporter of the metrics service takes a shared client.  Without one Start
\* returns, and the modules are not shut down; that of Kafka has no gRPC
\* connection, and the assertion that it is one panics.
AfterSharingStart ==
  /\ bpc = "after"
  /\ CASE cfg.exporter = "without_client" -> bpc' = "closing" /\ todo' = Sharing
       [] cfg.exporter = "metrics_service" /\ cfg.kafka -> bpc' = "panicked" /\ UNCHANGED todo
       [] OTHER -> bpc' = "boot" /\ UNCHANGED todo
  /\ UNCHANGED <<limiter, cfg, ctx, plugins, modules>>

BootModule(p, k) ==
  /\ bpc = "boot" /\ mod[p][k] = "ready"
  /\ mod' = [mod EXCEPT ![p][k] = "running"]
  /\ invoker' = IF k = "gatherer" THEN invoker \cup {p} ELSE invoker
  /\ UNCHANGED <<limiter, cfg, bpc, todo, ctx, plugins, open, listeners, handlers>>

\* Boot of a module returns after the context has ended; the consumers of a
\* gatherer close its queue.
BootReturns(p, k) ==
  /\ Alive /\ ctx = "done" /\ mod[p][k] = "running"
  /\ mod' = [mod EXCEPT ![p][k] = "stopped"]
  /\ open' = IF k = "gatherer" THEN [open EXCEPT ![p] = 0] ELSE open
  /\ UNCHANGED <<limiter, cfg, bpc, todo, ctx, plugins, listeners, handlers, invoker>>

\* Mutant: the first module that returns is enough.
AnyReturned ==
  /\ bpc = "boot" /\ \E p \in Pipes, k \in Kinds : mod[p][k] = "stopped"
  /\ bpc' = "closing" /\ todo' = Sharing
  /\ UNCHANGED <<limiter, cfg, ctx, plugins, modules>>

\* wg.Wait of bootModules.
AllReturned ==
  /\ bpc = "boot" /\ \A p \in Pipes, k \in Kinds : mod[p][k] = "stopped"
  /\ bpc' = "closing" /\ todo' = Sharing
  /\ UNCHANGED <<limiter, cfg, ctx, plugins, modules>>

Booted == \A p \in Pipes, k \in Kinds : mod[p][k] = "stopped"

\* Mutant: the gRPC server is not stopped either.
CloseSharingUnstopped(s) ==
  /\ bpc = "closing" /\ s \in todo
  /\ plug' = [plug EXCEPT ![s] = "closed"] /\ todo' = todo \ {s}
  /\ bpc' = IF todo' # {} THEN bpc
            ELSE IF Booted /\ ctx = "done" THEN "exited" ELSE "failed"
  /\ UNCHANGED <<limiter, cfg, sock, ctx, modules>>

\* The deferred sharing.Close.  Stop closes the listener that the gRPC server
\* serves, and no other; the Close of the HTTP server does nothing.
CloseSharing(s) ==
  /\ bpc = "closing" /\ s \in todo
  /\ plug' = [plug EXCEPT ![s] = "closed"] /\ todo' = todo \ {s}
  /\ sock' = IF s = "grpc" /\ sock[s] = "serving" THEN [sock EXCEPT ![s] = "closed"]
             ELSE sock
  /\ bpc' = IF todo' # {} THEN bpc
            ELSE IF Booted /\ ctx = "done" THEN "exited" ELSE "failed"
  /\ UNCHANGED <<limiter, cfg, ctx, modules>>

\* The first signal ends the context; before there is a listener it kills.
Signal ==
  /\ Alive /\ ctx \in {"none", "live"}
  /\ IF ctx = "none" THEN bpc' = "killed" /\ UNCHANGED ctx
     ELSE ctx' = "done" /\ UNCHANGED bpc
  /\ UNCHANGED <<limiter, cfg, todo, plugins, modules>>

(***************************************************************************)
(* Agents.  A synchronous call of a pipe that has not been booted finds no *)
(* invoker and panics; the calls that deliver data wait for the gatherer.  *)
(***************************************************************************)
SyncCall(c, p) ==
  /\ Alive /\ conn[c] = "open" /\ p \notin invoker
  /\ bpc' = "panicked"
  /\ UNCHANGED <<limiter, cfg, todo, ctx, plugins, modules>>

\* Connections are accepted until the server is stopped.
Connections ==
  /\ Alive /\ LimiterNext
  /\ plug["grpc"] = "started" \/ apc = "check" \/ apc' # "check"
  /\ UNCHANGED <<cfg, bpc, todo, ctx, plugins, modules>>

-----------------------------------------------------------------------------
Init ==
  /\ LimiterInit
  /\ cfg \in [readable : BOOLEAN, complete : BOOLEAN, known : BOOLEAN, named : BOOLEAN,
              kafka : BOOLEAN,
              exporter : {"prometheus", "metrics_service", "without_client", "unknown"}]
  /\ bpc = "config" /\ todo = {} /\ ctx = "none"
  /\ plug = AllPlugins("none") /\ sock = [s \in Servers |-> "none"]
  /\ mod = AllModules("none")
  /\ open = [p \in Pipes |-> 0]
  /\ listeners = {} /\ handlers = {} /\ invoker = {}

PrepareModules(p) ==
  \/ PrepareGatherer(p) \/ PrepareSender(p) \/ PrepareSenderFails(p) \/ PrepareProcessor(p)
  \/ \E n \in 0 .. Partition - 1 : PrepareGathererFails(p, n)

Next ==
  \/ Load \/ InitTelemetry \/ LoadSharing \/ PrepareHttpServer
  \/ \E c \in ClientSettings : PrepareClient(c)
  \/ \E failing \in {"nothing", "tls", "address", "limiter"} : PrepareGrpcServer(failing)
  \/ InitModules \/ AfterSharingStart \/ AllReturned \/ Signal \/ Connections
  \/ \E s \in Sharing : StartSharing(s) \/ CloseSharing(s)
  \/ \E p \in Pipes : PrepareModules(p)
  \/ \E p \in Pipes, k \in Kinds : BootModule(p, k) \/ BootReturns(p, k)
  \/ \E c \in Clients, p \in Pipes : SyncCall(c, p)

Spec == Init /\ [][Next]_vars

-----------------------------------------------------------------------------
(***************************************************************************)
(* In whatever order the maps are walked: agents are only let in when the  *)
(* receiver of every pipe is registered and every module is prepared, and  *)
(* the client only reports its status once every sender listens.           *)
(***************************************************************************)
Ready ==
  /\ (plug["grpc"] = "started" \/ \E c \in Clients : conn[c] # "none") =>
       handlers = Pipes /\ \A p \in Pipes, k \in Kinds : mod[p][k] \notin {"none", "new"}
  /\ plug["client"] = "started" => listeners = Pipes

(***************************************************************************)
(* The client and the servers are closed when no module runs any more, so  *)
(* that the last batch of a sender still finds its client; and they stay   *)
(* closed.                                                                 *)
(***************************************************************************)
StopOrder ==
  [][/\ \A s \in Sharing :
          /\ (plug[s] # "closed" /\ plug'[s] = "closed") =>
               \A p \in Pipes, k \in Kinds : mod[p][k] # "running"
          /\ plug[s] = "closed" => plug'[s] = "closed"
     /\ (\E p \in Pipes, k \in Kinds : mod'[p][k] = "running" /\ mod[p][k] # "running") =>
          \A s \in Sharing : plug[s] = "started"]_vars

(***************************************************************************)
(* However a run ends that does not panic: once Start has returned the     *)
(* client is closed, no module runs and the gRPC server, if it was started *)
(* at all, is stopped; if it returned after a signal its listener and      *)
(* every queue are closed.  The HTTP server, and the listener of a gRPC    *)
(* server that was never started, last as long as the process.             *)
(***************************************************************************)
Released ==
  /\ bpc \in {"failed", "exited"} =>
       /\ plug["client"] \in {"none", "closed"} /\ sock["grpc"] # "serving"
       /\ \A p \in Pipes, k \in Kinds : mod[p][k] # "running"
  /\ bpc = "exited" => sock["grpc"] = "closed" /\ \A p \in Pipes : open[p] = 0

\* That nothing at all is left open.
AllReleased ==
  bpc \in {"failed", "exited"} =>
    /\ \A s \in Servers : sock[s] \in {"none", "closed"}
    /\ \A p \in Pipes : open[p] = 0
=============================================================================
