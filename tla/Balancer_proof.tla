--------------------------- MODULE Balancer_proof ---------------------------
(***************************************************************************)
(* The picker holds exactly the ready connections, and the calls of one    *)
(* instance stay with one backend, for any set of backends and callers,    *)
(* any hash and any order in which pickers are rebuilt.                    *)
(***************************************************************************)
EXTENDS Balancer, FiniteSetTheorems, FunctionTheorems, TLAPS

\* The changes the watch goroutine will see.
Noticed == notices \in Seq([source : Addresses, targets : SUBSET Ports])

\* Before Prepare there is nothing to resolve and nothing to connect to.
NotPrepared ==
  client = "new" =>
    addrs = {} /\ notices = <<>> /\ \A g \in Resolvers : rpc[g] = "idle"

\* What the forwarder takes for the address of backend a.
KnownAs(a) == IF style = "stream" THEN PeerAddress(a) ELSE a

\* The cached peer is what its backend is known as, and a call that waits for
\* its connection asks for the one that was cached when it began.
AsksForOwner ==
  /\ owner # None => peer = KnownAs(owner) /\ style # "plain"
  /\ \A c \in Callers : cpc[c] = "pick" /\ expects[c] # None =>
       appoint[c] = KnownAs(expects[c]) /\ style # "plain"

\* The picker's connections are a sequence of addresses.
Connections == cons \in Seq(Addresses)

\* The inductive invariant.
BalancerInv == TypeOK /\ Noticed /\ NotPrepared /\ AsksForOwner /\ Connections

-----------------------------------------------------------------------------
\* A picker over the connections r, whatever their order.
LEMMA SeqsOfSet ==
  ASSUME NEW r, IsFiniteSet(r), NEW q \in SetToSeqs(r)
  PROVE  q \in Seq(r) /\ ToSet(q) = r /\ IsInjective(q)
<1> DEFINE n == Cardinality(r)
           T == {q[i] : i \in 1 .. n}
<1>1. n \in Nat
  BY FS_CardinalityType
<1>2. q \in [1 .. n -> r] /\ \A i, j \in 1 .. n : i # j => q[i] # q[j]
  BY DEF SetToSeqs
<1> HIDE DEF n
<1>3. q \in Bijection(1 .. n, T)
  <2>1. q \in [1 .. n -> T]
    BY <1>2
  <2>2. \A i, j \in 1 .. n : q[i] = q[j] => i = j
    BY <1>2
  <2>3. \A t \in T : \E i \in 1 .. n : q[i] = t
    OBVIOUS
  <2> HIDE DEF T
  <2> QED
    BY <2>1, <2>2, <2>3, Fun_IsBij
<1>4. Cardinality(T) = n
  <2>1. ExistsBijection(1 .. n, T)
    BY <1>3, Fun_ExistsBij
  <2>2. IsFiniteSet(1 .. n) /\ Cardinality(1 .. n) = n
    BY <1>1, FS_Interval
  <2> QED
    BY <2>1, <2>2, FS_Bijection
<1>5. T = r
  <2>1. T \in SUBSET r
    BY <1>2
  <2> HIDE DEF T
  <2> QED
    BY <1>4, <2>1, FS_Subset DEF n
<1>6. ToSet(q) = r
  BY <1>2, <1>5 DEF ToSet
<1>7. q \in Seq(r)
  BY <1>1, <1>2
<1> QED
  BY <1>2, <1>6, <1>7 DEF IsInjective

\* Building a picker keeps its part of the types.
LEMMA BuildTypes ==
  ASSUME NEW r \in SUBSET Addresses, Build(r)
  PROVE  /\ ready' = r /\ ToSet(cons') = r /\ IsInjective(cons')
         /\ cons' \in Seq(r)
         /\ next' \in 0 .. Len(cons') /\ (cons' # <<>> => next' < Len(cons'))
<1>1. IsFiniteSet(r)
  BY BalancerAssumption, FS_Subset
<1>2. cons' \in Seq(r) /\ ToSet(cons') = r /\ IsInjective(cons') /\ ready' = r
      /\ next' = 0
  BY <1>1, SeqsOfSet DEF Build
<1> QED
  BY <1>2

\* The part of the invariant that the picker's state decides.
Picker ==
  /\ ready \subseteq addrs /\ addrs \subseteq Addresses
  /\ ToSet(cons) = ready /\ IsInjective(cons) /\ cons \in Seq(Addresses)
  /\ next \in 0 .. Len(cons) /\ (cons # <<>> => next < Len(cons))

\* The invariant has it.
LEMMA PickerOf ==
  ASSUME BalancerInv
  PROVE  Picker
BY DEF BalancerInv, TypeOK, Connections, Picker

\* A new picker over connections to current addresses.
LEMMA BuildPicker ==
  ASSUME NEW r \in SUBSET Addresses, Build(r), r \subseteq addrs', addrs' \subseteq Addresses
  PROVE  Picker'
<1>1. /\ ready' = r /\ ToSet(cons') = r /\ IsInjective(cons')
      /\ cons' \in Seq(r)
      /\ next' \in 0 .. Len(cons') /\ (cons' # <<>> => next' < Len(cons'))
  BY BuildTypes
<1>2. cons' \in Seq(Addresses)
  BY <1>1
<1> QED
  BY <1>1, <1>2 DEF Picker

\* Nothing is resolved and nobody calls at first.
LEMMA BalancerInit == Init => BalancerInv
<1> SUFFICES ASSUME Init PROVE BalancerInv
  OBVIOUS
<1>1. ToSet(cons) = ready /\ IsInjective(cons) /\ cons \in Seq(Addresses) /\ Len(cons) = 0
  BY DEF Init, ToSet, IsInjective
<1>2. TypeOK
  <2>1. crashed \in BOOLEAN
    BY DEF Init
  <2> QED
    BY <1>1, <2>1 DEF Init, TypeOK, Resolvers
<1> QED
  BY <1>1, <1>2 DEF Init, BalancerInv, Noticed, NotPrepared, AsksForOwner, KnownAs, Connections, Resolvers

\* The first addresses: nothing is connected yet.
LEMMA PrepareStep ==
  ASSUME BalancerInv, Prepare
  PROVE  BalancerInv'
<1> USE DEF BalancerInv, Prepare, world, resolving, picker, calling
<1>1. addrs' \subseteq Addresses /\ ready = {}
  BY DEF FirstAddresses, TypeOK, NotPrepared
<1>2. TypeOK'
  BY <1>1 DEF TypeOK
<1>3. NotPrepared'
  BY DEF NotPrepared
<1> QED
  BY <1>2, <1>3 DEF Noticed, AsksForOwner, KnownAs, Connections

\* A change of the cluster is noticed later.
LEMMA ChangeStep ==
  ASSUME BalancerInv, NEW a \in Addresses, NEW ports \in {{}, {"other"}, Ports}, Change(a, ports)
  PROVE  BalancerInv'
<1> USE DEF BalancerInv, Change, setting, resolving, picker, calling
<1>1. ports \in SUBSET Ports
  BY DEF Ports
<1>2. TypeOK'
  BY <1>1 DEF TypeOK
<1>3. Noticed'
  <2> DEFINE Group == [source : Addresses, targets : SUBSET Ports]
  <2>1. [source |-> a, targets |-> ports] \in Group
    BY <1>1
  <2>2. notices \in Seq(Group)
    BY DEF Noticed
  <2>3. PICK tg : tg = [source |-> a, targets |-> ports]
    OBVIOUS
  <2> HIDE DEF Group
  <2>4. Append(notices, tg) \in Seq(Group)
    BY <2>1, <2>2, <2>3
  <2>5. notices' \in Seq(Group)
    BY <2>2, <2>3, <2>4
  <2> QED
    BY <2>5 DEF Noticed, Group
<1>4. NotPrepared'
  BY DEF NotPrepared
<1> QED
  BY <1>2, <1>3, <1>4 DEF AsksForOwner, KnownAs, Connections

\* The watch goroutine takes a notice.
LEMMA WatchStep ==
  ASSUME BalancerInv, Watch
  PROVE  BalancerInv'
<1> USE DEF BalancerInv, Watch, setting, picker, calling
<1>1. PICK tg : tg = Head(notices)
  OBVIOUS
<1>2. tg \in [source : Addresses, targets : SUBSET Ports]
      /\ Tail(notices) \in Seq([source : Addresses, targets : SUBSET Ports])
  <2> DEFINE Group == [source : Addresses, targets : SUBSET Ports]
  <2>1. notices \in Seq(Group) /\ notices # <<>>
    BY DEF Noticed
  <2> HIDE DEF Group
  <2>2. Head(notices) \in Group /\ Tail(notices) \in Seq(Group)
    BY <2>1
  <2> QED
    BY <1>1, <2>2 DEF Group
<1>3. cache' \in [Addresses -> SUBSET Ports]
  BY <1>1, <1>2 DEF TypeOK
<1>4. rpc' \in [Resolvers -> {"idle", "read", "update"}] /\ list' \in [Resolvers -> SUBSET Addresses]
  <2>1. GetAddresses(cache') \in SUBSET Addresses
    BY DEF GetAddresses
  <2> QED
    BY <2>1 DEF TypeOK
<1>5. TypeOK'
  <2>1. crashed' \in BOOLEAN
    BY DEF MapIsWritten
  <2> QED
    BY <1>3, <1>4, <2>1 DEF TypeOK
<1>6. NotPrepared'
  BY DEF NotPrepared
<1> QED
  BY <1>2, <1>5, <1>6 DEF Noticed, AsksForOwner, KnownAs, Connections

\* ResolveNow reads the cache.
LEMMA ResolveNowStep ==
  ASSUME BalancerInv, ResolveNow
  PROVE  BalancerInv'
<1> USE DEF BalancerInv, ResolveNow, setting, world, picker, calling
<1>1. Resolved \in SUBSET Addresses
  BY DEF Resolved, GetAddresses
<1>2. TypeOK'
  BY <1>1 DEF TypeOK
<1>3. NotPrepared'
  BY DEF NotPrepared
<1> QED
  BY <1>2, <1>3 DEF Noticed, AsksForOwner, KnownAs, Connections

\* It has read what was there when it began or when it ended.
LEMMA ReadCacheStep ==
  ASSUME BalancerInv, ReadCache
  PROVE  BalancerInv'
<1> USE DEF BalancerInv, ReadCache, setting, world, picker, calling
<1>1. Resolved \in SUBSET Addresses
  BY DEF Resolved, GetAddresses
<1>2. list' \in [Resolvers -> SUBSET Addresses]
  <2>1. list["resolveNow"] \in SUBSET Addresses
    BY DEF TypeOK, Resolvers
  <2>2. PICK seen \in SUBSET Addresses : list' = [list EXCEPT !["resolveNow"] = seen]
    BY <1>1, <2>1
  <2> QED
    BY <2>2 DEF TypeOK
<1>4. TypeOK'
  BY <1>2 DEF TypeOK
<1>3. NotPrepared'
  BY DEF NotPrepared
<1> QED
  BY <1>3, <1>4 DEF Noticed, AsksForOwner, KnownAs, Connections

\* Connections to addresses that are gone are dropped.
LEMMA UpdateAddressesStep ==
  ASSUME BalancerInv, NEW g \in Resolvers, UpdateAddresses(g)
  PROVE  BalancerInv'
<1> USE DEF BalancerInv, UpdateAddresses, setting, world, calling
<1>1. list[g] \in SUBSET Addresses /\ addrs' = list[g]
  BY DEF TypeOK
<1>2. Picker'
  <2>1. CASE ready \subseteq list[g]
    BY <1>1, <2>1, PickerOf DEF Picker, picker
  <2>2. CASE ~(ready \subseteq list[g])
    <3>1. Build(ready \cap list[g])
      BY <2>2
    <3> QED
      BY <1>1, <3>1, BuildPicker
  <2> QED
    BY <2>1, <2>2
<1>3. TypeOK'
  BY <1>2 DEF TypeOK, Picker
<1>4. NotPrepared'
  BY DEF NotPrepared
<1> QED
  BY <1>2, <1>3, <1>4 DEF Noticed, AsksForOwner, KnownAs, Connections, Picker

\* A connection more or less makes a new picker.
LEMMA ConnectionStep ==
  ASSUME BalancerInv, NEW a \in Addresses, Connect(a) \/ Disconnect(a)
  PROVE  BalancerInv'
<1> USE DEF BalancerInv, setting, world, resolving, calling
<1>1. Picker'
  <2>1. CASE Connect(a)
    BY <2>1, BuildPicker, Zenon DEF Connect, TypeOK
  <2>2. CASE Disconnect(a)
    BY <2>2, BuildPicker, Zenon DEF Disconnect, TypeOK
  <2> QED
    BY <2>1, <2>2
<1>2. UNCHANGED <<setting, world, resolving, addrs, calling>>
  BY DEF Connect, Disconnect
<1>3. TypeOK'
  BY <1>1, <1>2 DEF TypeOK, Picker
<1> QED
  BY <1>1, <1>2, <1>3 DEF Noticed, NotPrepared, AsksForOwner, KnownAs, Connections, Picker

\* A call asks for the peer of the cache, which is the owner if there is one.
LEMMA LoadCachedPeerStep ==
  ASSUME BalancerInv, NEW c \in Callers, LoadCachedPeer(c)
  PROVE  BalancerInv'
<1> USE DEF BalancerInv, LoadCachedPeer, setting, world, resolving, picker
<1>1. TypeOK'
  BY DEF TypeOK
<1>2. AsksForOwner'
  BY DEF AsksForOwner, KnownAs, TypeOK
<1> QED
  BY <1>1, <1>2 DEF Noticed, NotPrepared, Connections

\* The connection a call asks for when there are several is one of them.
LEMMA ChooseOne ==
  ASSUME BalancerInv, NEW c \in Callers, cons # <<>>
  PROVE  Choose(c) \in Addresses
<1>1. cons \in Seq(Addresses) /\ Len(cons) \in Nat /\ Len(cons) > 0
  BY DEF BalancerInv, Connections
<1>2. HashCode % Len(cons) \in 0 .. Len(cons) - 1
  BY <1>1, BalancerAssumption
<1>3. cons[(HashCode % Len(cons)) + 1] \in Addresses
  BY <1>1, <1>2
<1>4. ToSet(cons) \subseteq Addresses
  BY DEF BalancerInv, TypeOK
<1> QED
  BY <1>3, <1>4 DEF Choose

\* A call is given its connection.
LEMMA PickStep ==
  ASSUME BalancerInv, NEW c \in Callers, Pick(c)
  PROVE  BalancerInv'
<1>0. /\ cpc[c] = "pick" /\ cons # <<>> /\ cpc' = [cpc EXCEPT ![c] = "save"]
      /\ UNCHANGED <<setting, world, resolving, addrs, ready, cons, style, peer, owner,
                     expects, calls>>
  BY DEF Pick
<1>1. cons \in Seq(Addresses) /\ Len(cons) \in Nat /\ Len(cons) > 0
      /\ next \in Nat /\ next < Len(cons)
  BY <1>0 DEF BalancerInv, Connections, TypeOK
<1>2. Choose(c) \in Addresses
  BY <1>0, ChooseOne
<1>3. /\ got' \in [Callers -> Addresses \cup {None}]
      /\ appoint' \in [Callers -> Addresses \cup {None, Unlisted}]
      /\ next' \in 0 .. Len(cons) /\ next' < Len(cons)
      /\ \A d \in Callers \ {c} : appoint'[d] = appoint[d]
  <2>0. got \in [Callers -> Addresses \cup {None}] /\ appoint \in [Callers -> Addresses \cup {None, Unlisted}]
    BY DEF BalancerInv, TypeOK
  <2>1. CASE Len(cons) = 1
    BY <1>1, <2>0, <2>1 DEF Pick
  <2>2. CASE Len(cons) > 1 /\ style = "plain"
    <3>1. (next + 1) % Len(cons) \in 0 .. Len(cons) - 1 /\ cons[next + 1] \in Addresses
      BY <1>1, <2>2
    <3>2. /\ got' = [got EXCEPT ![c] = cons[next + 1]]
          /\ next' = (next + 1) % Len(cons)
          /\ UNCHANGED appoint
      BY <1>1, <2>2 DEF Pick
    <3> QED
      BY <1>1, <2>0, <3>1, <3>2
  <2>3. CASE Len(cons) # 1 /\ ~(Len(cons) > 1 /\ style = "plain")
    <3>1. /\ got' = [got EXCEPT ![c] = Choose(c)]
          /\ appoint' = [appoint EXCEPT ![c] = Choose(c)]
          /\ UNCHANGED next
      BY <1>1, <2>3 DEF Pick
    <3> QED
      BY <1>1, <1>2, <2>0, <3>1
  <2> QED
    BY <2>1, <2>2, <2>3
<1>4. TypeOK'
  BY <1>0, <1>1, <1>3 DEF BalancerInv, TypeOK, setting, world, resolving
<1>5. AsksForOwner'
  BY <1>0, <1>3 DEF BalancerInv, TypeOK, AsksForOwner, KnownAs
<1> QED
  BY <1>0, <1>4, <1>5 DEF BalancerInv, Noticed, NotPrepared, Connections, setting, world, resolving

\* What is saved is what the backend is known as.
LEMMA SavePeerStep ==
  ASSUME BalancerInv, NEW c \in Callers, SavePeer(c)
  PROVE  BalancerInv'
<1> USE DEF BalancerInv, SavePeer, setting, world, resolving, picker
<1>1. Upstream(c) \in Addresses \cup {None, Unlisted}
  BY DEF Upstream, GetAddress, PeerAddress, TypeOK
<1>2. peer' \in Addresses \cup {None, Unlisted} /\ owner' \in Addresses \cup {None}
  BY <1>1 DEF TypeOK
<1>3. TypeOK'
  BY <1>2 DEF TypeOK
<1>4. AsksForOwner'
  <2>1. owner' # None => peer' = KnownAs(owner)' /\ style' # "plain"
    BY DEF AsksForOwner, KnownAs, Upstream, GetAddress
  <2>2. \A d \in Callers : cpc'[d] = "pick" => cpc[d] = "pick"
    BY DEF TypeOK
  <2> QED
    BY <2>1, <2>2 DEF AsksForOwner, KnownAs
<1> QED
  BY <1>3, <1>4 DEF Noticed, NotPrepared, Connections

\* A failed call saves nothing.
LEMMA CallFailsStep ==
  ASSUME BalancerInv, NEW c \in Callers, CallFails(c)
  PROVE  BalancerInv'
<1> USE DEF BalancerInv, CallFails, setting, world, resolving, picker
<1>1. TypeOK'
  BY DEF TypeOK
<1>2. AsksForOwner'
  BY DEF AsksForOwner, KnownAs, TypeOK
<1> QED
  BY <1>1, <1>2 DEF Noticed, NotPrepared, Connections

\* With the entry the owner is forgotten.
LEMMA EvictStep ==
  ASSUME BalancerInv, Evict
  PROVE  BalancerInv'
BY DEF BalancerInv, Evict, setting, world, resolving, picker, TypeOK, Noticed,
       NotPrepared, AsksForOwner, KnownAs, Connections

\* Every step keeps the invariant.
LEMMA BalancerStep == BalancerInv /\ [Next]_vars => BalancerInv'
<1> SUFFICES ASSUME BalancerInv, [Next]_vars PROVE BalancerInv'
  OBVIOUS
<1>1. CASE UNCHANGED vars
  BY <1>1 DEF vars, setting, world, resolving, picker, calling, BalancerInv, TypeOK,
              Noticed, NotPrepared, AsksForOwner, KnownAs, Connections
<1>2. CASE Next
  BY <1>2, PrepareStep, ChangeStep, WatchStep, ResolveNowStep, ReadCacheStep, UpdateAddressesStep,
     ConnectionStep, LoadCachedPeerStep, PickStep, SavePeerStep, CallFailsStep, EvictStep
     DEF Next, Step, Calling
<1> QED
  BY <1>1, <1>2

-----------------------------------------------------------------------------
(***************************************************************************)
(* The invariant of the resolvers, the picker and the calls.               *)
(***************************************************************************)
THEOREM BalancerInvariant == Spec => []BalancerInv
BY BalancerInit, BalancerStep, PTL DEF Spec

(***************************************************************************)
(* The types, and with them that the picker of lb.go holds exactly the     *)
(* connections that are ready, each once, all of them to addresses the     *)
(* resolver reported, and that its round robin index is never beyond them. *)
(***************************************************************************)
THEOREM BalancerTypeCorrect == Spec => []TypeOK
<1>1. BalancerInv => TypeOK
  BY DEF BalancerInv
<1> QED
  BY <1>1, BalancerInvariant, PTL

\* Whatever a step gives to a call that waited for its connection.
LEMMA StickyStep ==
  ASSUME BalancerInv, [Next]_vars, NEW c \in Callers,
         Expected(c), style = "context" \/ expects[c] \notin Named
  PROVE  got'[c] = expects[c]
<1>0. cpc[c] = "pick" /\ cpc'[c] = "save" /\ expects[c] \in ready
  BY DEF Expected
<1>1. cpc \in [Callers -> {"idle", "pick", "save"}] /\ got \in [Callers -> Addresses \cup {None}]
      /\ appoint \in [Callers -> Addresses \cup {None, Unlisted}]
  BY DEF BalancerInv, TypeOK
<1>2. Pick(c)
  <2>1. cpc' # cpc
    BY <1>0
  <2>2. PICK d \in Callers : Calling(d)
    BY <2>1 DEF vars, setting, world, resolving, picker, calling, Next, Step, Prepare, Watch,
                ResolveNow, ReadCache, Evict, Change, Connect, Disconnect, UpdateAddresses
  <2>3. Pick(d)
    BY <1>0, <1>1, <2>2 DEF Calling, LoadCachedPeer, SavePeer, CallFails
  <2>4. d = c
    BY <1>0, <1>1, <2>3 DEF Pick
  <2> QED
    BY <2>3, <2>4
<1>3. /\ expects[c] # None /\ expects[c] \in ToSet(cons) /\ appoint[c] = expects[c]
      /\ style # "plain"
  BY <1>0, BalancerAssumption DEF BalancerInv, TypeOK, AsksForOwner, KnownAs, PeerAddress, KnownAs
<1>4. cons \in Seq(Addresses) /\ Len(cons) \in Nat /\ Len(cons) > 0
  BY <1>2 DEF BalancerInv, Connections, Pick
<1>5. CASE Len(cons) = 1
  <2>1. ToSet(cons) = {cons[1]}
    BY <1>4, <1>5 DEF ToSet
  <2>2. got' = [got EXCEPT ![c] = cons[1]]
    BY <1>2, <1>5 DEF Pick
  <2> QED
    BY <1>1, <1>3, <2>1, <2>2
<1>6. CASE Len(cons) # 1
  <2>1. got' = [got EXCEPT ![c] = Choose(c)]
    BY <1>2, <1>3, <1>4, <1>6 DEF Pick
  <2> QED
    BY <1>1, <1>3, <2>1 DEF Choose
<1> QED
  BY <1>5, <1>6

(***************************************************************************)
(* Pick of the load balancer keeps the meters of an instance with their    *)
(* backend: a call is given the one that was saved for the instance when   *)
(* it read the cache, for any number of backends and callers, whatever     *)
(* other calls save and however pickers are rebuilt between the read and   *)
(* the pick; for the forwarder that knows its peer by IP and port, if the  *)
(* backend is configured by them.                                          *)
(***************************************************************************)
THEOREM BalancerSticky == Spec => Sticky
<1>1. BalancerInv /\ [Next]_vars =>
        [\A c \in Callers :
           (Expected(c) /\ (style = "context" \/ expects[c] \notin Named))
             => got'[c] = expects[c]]_vars
  BY StickyStep
<1> QED
  BY <1>1, BalancerInvariant, PTL DEF Spec, Sticky
=============================================================================
