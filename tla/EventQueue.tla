----------------------------- MODULE EventQueue -----------------------------
(***************************************************************************)
(* What plugins/queue/api/queue.go promises the gatherer about a queue     *)
(* with one publisher and one consumer: an accepted event is delivered     *)
(* once, unchanged, in the order of acceptance.                            *)
(***************************************************************************)
EXTENDS Sequences

CONSTANT Events    \* the events a publisher may offer

VARIABLES
  queue,      \* the accepted events not delivered yet, oldest first
  delivered   \* the event the last Dequeue returned

Init == queue = <<>> /\ delivered = <<>>

Accept(e) == queue' = Append(queue, e) /\ UNCHANGED delivered

Deliver ==
  /\ queue # <<>>
  /\ delivered' = Head(queue)
  /\ queue' = Tail(queue)

Next == (\E e \in Events : Accept(e)) \/ Deliver

Spec == Init /\ [][Next]_<<queue, delivered>>
=============================================================================
