--------------------------- MODULE AcceptLimiter ---------------------------
(***************************************************************************)
(* The connection limit of the gRPC server.  One goroutine accepts; the    *)
(* goroutines of a connection may each close it, and only the first close  *)
(* gives its place back.                                                   *)
(***************************************************************************)
EXTENDS Integers, FiniteSets

CONSTANTS
  Clients,           \* what connects: one connection at a time each
  ConnectionCount    \* the limit

ASSUME LimiterAssumption == ConnectionCount \in Nat /\ IsFiniteSet(Clients)

NoClient == "none"

VARIABLES
  apc, incoming,     \* the accepting goroutine and the connection it has
  ActiveConnection,
  conn,              \* the connection of each client
  closers,           \* calls of Close that have not reached closeOnce yet
  closeOnce

limiter == <<apc, incoming, ActiveConnection, conn, closers, closeOnce>>

Accept(c) ==
  /\ apc = "accept" /\ conn[c] = "none"
  /\ apc' = "check" /\ incoming' = c
  /\ conn' = [conn EXCEPT ![c] = "new"]
  /\ UNCHANGED <<ActiveConnection, closers, closeOnce>>

\* Accept closes the connection and returns the temporary error outOfLimit.
Refuse ==
  /\ apc' = "accept" /\ incoming' = NoClient
  /\ conn' = [conn EXCEPT ![incoming] = "none"]
  /\ UNCHANGED <<ActiveConnection, closers, closeOnce>>

\* The plain reads of CouldHandleConnection.  The goroutine of cpuUsage stores
\* a new CPU usage every five seconds: busy says whether it exceeds the limit.
CheckLimits(busy) ==
  /\ apc = "check"
  /\ IF busy \/ ActiveConnection >= ConnectionCount
     THEN Refuse
     ELSE /\ apc' = "add"
          /\ UNCHANGED <<incoming, ActiveConnection, conn, closers, closeOnce>>

\* The atomic increment, taken back when it went too far.
AddConnection ==
  /\ apc = "add"
  /\ IF ActiveConnection + 1 > ConnectionCount
     THEN Refuse
     ELSE /\ ActiveConnection' = ActiveConnection + 1
          /\ conn' = [conn EXCEPT ![incoming] = "open"]
          /\ closeOnce' = [closeOnce EXCEPT ![incoming] = FALSE]
          /\ apc' = "accept" /\ incoming' = NoClient
          /\ UNCHANGED closers

\* ConnectionWrapper.Close, called once or twice.
CloseConnection(c) ==
  /\ conn[c] = "open"
  /\ conn' = [conn EXCEPT ![c] = "closed"]
  /\ \E n \in 1 .. 2 : closers' = [closers EXCEPT ![c] = n]
  /\ UNCHANGED <<apc, incoming, ActiveConnection, closeOnce>>

\* Mutant: every close gives a place back.
CloseNotifyAlways(c) ==
  /\ closers[c] > 0
  /\ closers' = [closers EXCEPT ![c] = @ - 1]
  /\ ActiveConnection' = ActiveConnection - 1
  /\ closeOnce' = [closeOnce EXCEPT ![c] = TRUE]
  /\ conn' = [conn EXCEPT ![c] = IF closers[c] = 1 THEN "none" ELSE @]
  /\ UNCHANGED <<apc, incoming>>

CloseNotify(c) ==
  /\ closers[c] > 0
  /\ closers' = [closers EXCEPT ![c] = @ - 1]
  /\ ActiveConnection' = IF closeOnce[c] THEN ActiveConnection ELSE ActiveConnection - 1
  /\ closeOnce' = [closeOnce EXCEPT ![c] = TRUE]
  /\ conn' = [conn EXCEPT ![c] = IF closers[c] = 1 THEN "none" ELSE @]
  /\ UNCHANGED <<apc, incoming>>

LimiterInit ==
  /\ apc = "accept" /\ incoming = NoClient
  /\ ActiveConnection = 0
  /\ conn = [c \in Clients |-> "none"]
  /\ closers = [c \in Clients |-> 0] /\ closeOnce = [c \in Clients |-> FALSE]

LimiterNext ==
  \/ (\E busy \in BOOLEAN : CheckLimits(busy)) \/ AddConnection
  \/ \E c \in Clients : Accept(c) \/ CloseConnection(c) \/ CloseNotify(c)

LimiterSpec == LimiterInit /\ [][LimiterNext]_limiter

\* The connections that hold a place.
Counted == {c \in Clients : \/ conn[c] = "open"
                            \/ conn[c] = "closed" /\ ~closeOnce[c]}

(***************************************************************************)
(* However accepting and closing interleave, and however often a           *)
(* connection is closed: the count is the number of places taken, no more  *)
(* connections are open than the limit allows, and no place is lost.       *)
(***************************************************************************)
WithinLimit ==
  /\ ActiveConnection = Cardinality(Counted)
  /\ Cardinality({c \in Clients : conn[c] = "open"}) <= ConnectionCount
=============================================================================
