--------------------------- MODULE MmapQueueFifo ---------------------------
(***************************************************************************)
(* The memory mapped queue shown to implement the queue its clients see.   *)
(***************************************************************************)
EXTENDS MmapQueue, FiniteSets

\* The payload an event carries: its own bytes, in order.
Payload(ev, len) == [j \in 1 .. len |-> <<ev, j>>]

\* The payloads of a set of records, in the order of their events.
InOrder(records) ==
  LET older(e) == {d \in records : d.ev < e.ev}
      nth(i) == CHOOSE e \in records : Cardinality(older(e)) = i - 1
  IN [i \in 1 .. Cardinality(records) |-> Payload(nth(i).ev, nth(i).len)]

(***************************************************************************)
(* The queue as its clients see it, while the process lives: the records   *)
(* from the reading offset on.                                             *)
(***************************************************************************)
Unread == {e \in accepted : AtOrBefore(reading, e.start)}
Undelivered == InOrder(Unread)

Fifo == INSTANCE EventQueue
          WITH queue <- Undelivered, delivered <- out,
               Events <- {Payload(n, l) : n \in 1 .. MaxEvents, l \in Lengths}

\* The ring of segment files implements the unbounded FIFO queue.
ImplementsFifo == Fifo!Spec
=============================================================================
