------------------------------ MODULE Balancer ------------------------------
(***************************************************************************)
(* Which backend a call goes to: the resolvers that find the addresses,    *)
(* the picker that chooses among the ready connections, and the cache of   *)
(* peers by which the meter forwarders keep an instance with its backend.  *)
(*                                                                         *)
(* The watch goroutine and ResolveNow, which gRPC calls in a goroutine of  *)
(* its own, both read the cache of target groups and then replace the      *)
(* address list, and no lock keeps them apart.  A call reads the peer      *)
(* cache, is given a connection by the picker of that moment, and saves    *)
(* its peer.                                                               *)
(***************************************************************************)
EXTENDS Integers, Sequences, FiniteSets, SequencesExt

CONSTANTS
  Addresses,       \* the backends by configured address, one target group each
  Named,           \* those whose address has a host name, not an IP
  Callers,         \* goroutines that forward meters of the same instance
  HashCode,        \* the hash of that instance
  MaxChanges,      \* bound: changes of the cluster
  MaxCalls         \* bound: calls

None == "none"           \* no address
Unlisted == "unlisted"   \* an IP and port that no configured address is

ASSUME BalancerAssumption ==
  /\ IsFiniteSet(Addresses) /\ Named \subseteq Addresses
  /\ None \notin Addresses /\ Unlisted \notin Addresses
  /\ HashCode \in Nat /\ MaxChanges \in Nat /\ MaxCalls \in Nat

Ports == {"extra", "other"}   \* the configured port, and another one
Finders == {"static", "kubernetes", "unknown"}
Resolvers == {"watch", "resolveNow"}

VARIABLES
  finder, client,     \* the configured finder; the state of the client
  cluster, notices,   \* the ports every backend has, and the changes to watch
  cache,              \* KindCache.cache
  rpc, list,          \* UpdateAddresses of both goroutines and their lists
  crashed,            \* the cache was iterated over while it was written
  addrs, ready,       \* the client's addresses, and those that are connected
  cons, next,         \* the picker
  style,              \* the forwarder: how it learns its peer
  peer,               \* upstreamCache of the instance
  cpc, appoint, got,  \* the calls, appointAddr of each, and its connection
  owner,              \* history: the backend the cached peer was saved for
  expects,            \* history: what it was when a call read the peer
  raced,              \* history: address lists overtook each other
  changes, calls

world == <<cluster, notices, changes>>
resolving == <<cache, rpc, list, crashed, raced>>
picker == <<ready, cons, next>>
calling == <<style, peer, cpc, appoint, got, owner, expects, calls>>
setting == <<finder, client>>
vars == <<setting, world, resolving, addrs, picker, calling>>

Alive(a) == "extra" \in cluster[a]

(***************************************************************************)
(* Client.Prepare: the target is built by the resolver of the finder, and  *)
(* gRPC builds that resolver.  The static one knows all addresses.         *)
(***************************************************************************)
FirstAddresses == IF finder = "static" THEN Addresses ELSE {}

Prepare ==
  /\ client = "new"
  /\ client' = IF finder = "unknown" THEN "failed" ELSE "ready"
  /\ addrs' = FirstAddresses
  /\ UNCHANGED <<finder, world, resolving, picker, calling>>

\* The cluster: a backend appears, disappears, or changes its ports.
Change(a, ports) ==
  /\ client = "ready" /\ changes < MaxChanges /\ cluster[a] # ports
  /\ cluster' = [cluster EXCEPT ![a] = ports]
  /\ notices' = IF finder = "kubernetes"
                THEN Append(notices, [source |-> a, targets |-> ports]) ELSE notices
  /\ changes' = changes + 1
  /\ UNCHANGED <<setting, resolving, addrs, picker, calling>>

(***************************************************************************)
(* The kubernetes resolver.                                                *)
(***************************************************************************)
GetAddresses(c) == {a \in Addresses : "extra" \in c[a]}

\* What ResolveNow finds.
Resolved == IF finder = "static" THEN Addresses ELSE GetAddresses(cache)

\* A write of the map during the iteration of ResolveNow may be fatal.
MapIsWritten == crashed' \in IF rpc["resolveNow"] = "read" THEN BOOLEAN ELSE {FALSE}

\* Mutant: a group without targets stays in the cache.
WatchKeepingEmpty ==
  /\ rpc["watch"] = "idle" /\ notices # <<>>
  /\ MapIsWritten
  /\ LET tg == Head(notices)
     IN IF tg.targets = {}
        THEN UNCHANGED <<cache, rpc, list>>
        ELSE /\ cache' = [cache EXCEPT ![tg.source] = tg.targets]
             /\ rpc' = [rpc EXCEPT !["watch"] = "update"]
             /\ list' = [list EXCEPT !["watch"] = GetAddresses(cache')]
  /\ notices' = Tail(notices)
  /\ UNCHANGED <<setting, cluster, changes, addrs, raced, picker, calling>>

\* A group without targets is deleted, and the addresses are not updated.
Watch ==
  /\ rpc["watch"] = "idle" /\ notices # <<>>
  /\ MapIsWritten
  /\ LET tg == Head(notices)
     IN /\ cache' = [cache EXCEPT ![tg.source] = tg.targets]
        /\ IF tg.targets = {}
           THEN UNCHANGED <<rpc, list>>
           ELSE /\ rpc' = [rpc EXCEPT !["watch"] = "update"]
                /\ list' = [list EXCEPT !["watch"] = GetAddresses(cache')]
  /\ notices' = Tail(notices)
  /\ UNCHANGED <<setting, cluster, changes, addrs, raced, picker, calling>>

\* gRPC asks again when an address cannot be connected.
ResolveNow ==
  /\ rpc["resolveNow"] = "idle" /\ \E a \in addrs : a \notin ready /\ ~Alive(a)
  /\ rpc' = [rpc EXCEPT !["resolveNow"] = "read"]
  /\ list' = [list EXCEPT !["resolveNow"] = Resolved]
  /\ UNCHANGED <<setting, world, addrs, cache, crashed, raced, picker, calling>>

\* The end of its iteration: it may have missed what was written meanwhile.
ReadCache ==
  /\ rpc["resolveNow"] = "read"
  /\ \E seen \in {list["resolveNow"], Resolved} :
       list' = [list EXCEPT !["resolveNow"] = seen]
  /\ rpc' = [rpc EXCEPT !["resolveNow"] = "update"]
  /\ UNCHANGED <<setting, world, addrs, cache, crashed, raced, picker, calling>>

\* Mutant: the round robin index of the old picker is kept.
BuildKeepingNext(r) ==
  /\ ready' = r
  /\ cons' \in SetToSeqs(r)
  /\ UNCHANGED next

\* A new picker over the connections r, in an order nobody chose.
Build(r) ==
  /\ ready' = r
  /\ cons' \in SetToSeqs(r)
  /\ next' = 0

\* cc.UpdateState: connections to other addresses are dropped.
UpdateAddresses(g) ==
  /\ rpc[g] = "update"
  /\ addrs' = list[g]
  /\ IF ready \subseteq list[g] THEN UNCHANGED picker ELSE Build(ready \cap list[g])
  /\ raced' = (raced \/ list[g] # Resolved)
  /\ rpc' = [rpc EXCEPT ![g] = "idle"]
  /\ UNCHANGED <<setting, world, cache, list, crashed, calling>>

Connect(a) ==
  /\ a \in addrs \ ready /\ Alive(a)
  /\ Build(ready \cup {a})
  /\ UNCHANGED <<setting, world, resolving, addrs, calling>>

Disconnect(a) ==
  /\ a \in ready /\ ~Alive(a)
  /\ Build(ready \ {a})
  /\ UNCHANGED <<setting, world, resolving, addrs, calling>>

(***************************************************************************)
(* Calls.  A call of another forwarder carries no configuration.           *)
(***************************************************************************)
LoadCachedPeer(c) ==
  /\ client = "ready" /\ cpc[c] = "idle" /\ calls < MaxCalls
  /\ appoint' = [appoint EXCEPT ![c] = peer] /\ expects' = [expects EXCEPT ![c] = owner]
  /\ cpc' = [cpc EXCEPT ![c] = "pick"]
  /\ calls' = calls + 1
  /\ UNCHANGED <<setting, world, resolving, addrs, picker, style, peer, got, owner>>

\* Mutant: the address a call asks for is not looked at.
ChooseByHash(c) == cons[(HashCode % Len(cons)) + 1]

Choose(c) ==
  IF appoint[c] \in ToSet(cons) THEN appoint[c] ELSE cons[(HashCode % Len(cons)) + 1]

\* Without a ready connection Pick fails and the call waits for a new picker.
Pick(c) ==
  /\ cpc[c] = "pick" /\ cons # <<>>
  /\ CASE Len(cons) = 1 ->
            got' = [got EXCEPT ![c] = cons[1]] /\ UNCHANGED <<next, appoint>>
       [] Len(cons) > 1 /\ style = "plain" ->
            /\ got' = [got EXCEPT ![c] = cons[next + 1]]
            /\ next' = (next + 1) % Len(cons)
            /\ UNCHANGED appoint
       [] OTHER ->
            /\ got' = [got EXCEPT ![c] = Choose(c)]
            /\ appoint' = [appoint EXCEPT ![c] = Choose(c)]
            /\ UNCHANGED next
  /\ cpc' = [cpc EXCEPT ![c] = "save"]
  /\ UNCHANGED <<setting, world, resolving, addrs, ready, cons, style, peer, owner,
                 expects, calls>>

\* The address of a connection as its stream reports it, an IP and a port.
PeerAddress(a) == IF a \in Named THEN Unlisted ELSE a

\* The address in the context of a call: what the forwarder put there, or what
\* a picker with several connections replaced it by.
GetAddress(c) == appoint[c]

\* The native meter forwarder sees the peer of its stream, the OTLP one the
\* address in its context.
Upstream(c) == IF style = "stream" THEN PeerAddress(got[c]) ELSE GetAddress(c)

SavePeer(c) ==
  /\ cpc[c] = "save"
  /\ IF style = "plain" \/ Upstream(c) = None
     THEN UNCHANGED <<peer, owner>>
     ELSE /\ peer' = Upstream(c)
          /\ owner' = IF style = "stream" \/ appoint[c] = got[c] THEN got[c] ELSE None
  /\ cpc' = [cpc EXCEPT ![c] = "idle"]
  /\ UNCHANGED <<setting, world, resolving, addrs, picker, style, appoint, got,
                 expects, calls>>

\* The stream could not be opened, or the unary call failed.
CallFails(c) ==
  /\ cpc[c] \in {"pick", "save"}
  /\ cpc' = [cpc EXCEPT ![c] = "idle"]
  /\ UNCHANGED <<setting, world, resolving, addrs, picker, style, peer, appoint, got,
                 owner, expects, calls>>

\* The entry expires, or others take its place.
Evict ==
  /\ peer # None
  /\ peer' = None /\ owner' = None
  /\ UNCHANGED <<setting, world, resolving, addrs, picker, style, cpc, appoint, got,
                 expects, calls>>

-----------------------------------------------------------------------------
Init ==
  /\ finder \in Finders /\ client = "new"
  /\ cluster = [a \in Addresses |-> {}] /\ notices = <<>> /\ changes = 0
  /\ cache = [a \in Addresses |-> {}]
  /\ rpc = [g \in Resolvers |-> "idle"] /\ list = [g \in Resolvers |-> {}]
  /\ addrs = {} /\ ready = {} /\ cons = <<>> /\ next = 0
  /\ style \in {"stream", "context", "plain"} /\ peer = None
  /\ cpc = [c \in Callers |-> "idle"]
  /\ appoint = [c \in Callers |-> None] /\ got = [c \in Callers |-> None]
  /\ owner = None /\ expects = [c \in Callers |-> None]
  /\ crashed = FALSE /\ raced = FALSE /\ calls = 0

Calling(c) == LoadCachedPeer(c) \/ Pick(c) \/ SavePeer(c) \/ CallFails(c)

Step ==
  \/ Prepare \/ Watch \/ ResolveNow \/ ReadCache \/ Evict
  \/ \E a \in Addresses : \E ports \in {{}, {"other"}, Ports} : Change(a, ports)
  \/ \E a \in Addresses : Connect(a) \/ Disconnect(a)
  \/ \E g \in Resolvers : UpdateAddresses(g)
  \/ \E c \in Callers : Calling(c)

Next == ~crashed /\ Step

Spec == Init /\ [][Next]_vars

\* Goroutines run; gRPC notices lost connections and asks again and again for
\* as long as an address cannot be connected.
Fairness ==
  /\ WF_vars(~crashed /\ Watch)
  /\ SF_vars(~crashed /\ ResolveNow) /\ WF_vars(~crashed /\ ReadCache)
  /\ \A g \in Resolvers : WF_vars(~crashed /\ UpdateAddresses(g))
  /\ \A a \in Addresses : WF_vars(~crashed /\ Disconnect(a))

FairSpec == Spec /\ Fairness

-----------------------------------------------------------------------------
(***************************************************************************)
(* The types; the picker holds exactly the ready connections, and its      *)
(* round robin index is one of them.                                       *)
(***************************************************************************)
TypeOK ==
  /\ cluster \in [Addresses -> SUBSET Ports] /\ cache \in [Addresses -> SUBSET Ports]
  /\ rpc \in [Resolvers -> {"idle", "read", "update"}]
  /\ list \in [Resolvers -> SUBSET Addresses]
  /\ ready \subseteq addrs /\ addrs \subseteq Addresses
  /\ ToSet(cons) = ready /\ IsInjective(cons)
  /\ next \in 0 .. Len(cons) /\ (cons # <<>> => next < Len(cons))
  /\ peer \in Addresses \cup {None, Unlisted} /\ owner \in Addresses \cup {None}
  /\ cpc \in [Callers -> {"idle", "pick", "save"}]
  /\ appoint \in [Callers -> Addresses \cup {None, Unlisted}]
  /\ got \in [Callers -> Addresses \cup {None}]
  /\ expects \in [Callers -> Addresses \cup {None}] /\ crashed \in BOOLEAN

\* A call c is given its connection, and the backend that was saved for the
\* instance when it read the peer cache is connected.
Expected(c) ==
  cpc[c] = "pick" /\ cpc'[c] = "save" /\ expects[c] \in ready

(***************************************************************************)
(* The meters of one instance stay with one backend: a call that began     *)
(* after a peer was saved is given the backend it was saved for, as long   *)
(* as that is connected, although other calls save theirs, connections     *)
(* come and go and the picker is rebuilt in another order before it picks. *)
(* For the forwarder that saves the peer of its stream it is so only for   *)
(* backends configured by IP.                                              *)
(***************************************************************************)
Sticky ==
  [][\A c \in Callers :
       (Expected(c) /\ (style = "context" \/ expects[c] \notin Named))
         => got'[c] = expects[c]]_vars

\* The same whatever the addresses look like.
StickyByName == [][\A c \in Callers : Expected(c) => got'[c] = expects[c]]_vars

(***************************************************************************)
(* Although the removal of a backend does not update the addresses: once   *)
(* the cluster has settled, a backend that is gone leaves the address list *)
(* of the kubernetes resolver, and if no address list was applied late, a  *)
(* backend that is there is in it; unless the process crashed over the     *)
(* cache that the two goroutines share.                                    *)
(***************************************************************************)
AddressesFollow ==
  (finder = "kubernetes") =>
    <>[](crashed \/ \A a \in Addresses :
           /\ ~Alive(a) => a \notin addrs
           /\ Alive(a) /\ ~raced => a \in addrs \/ client # "ready")
=============================================================================
