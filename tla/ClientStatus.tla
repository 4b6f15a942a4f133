---------------------------- MODULE ClientStatus ----------------------------
(***************************************************************************)
(* How a sharing client tells the senders of all pipes that its connection *)
(* was lost or is back, and what that does to them.                        *)
(*                                                                         *)
(* The gRPC client's updateStatus runs in its sniffer goroutine and, by    *)
(* way of the stream interceptor, in any goroutine that forwards.  The     *)
(* field c.status has no lock, so its reads and writes are separate steps. *)
(* The Kafka client has the same structure with no reporting goroutine.    *)
(***************************************************************************)
EXTENDS Integers

CONSTANTS
  ListenerCount,   \* registered senders
  Reporters,       \* goroutines whose Forward may fail
  Cancels,         \* whether a close signal may arrive
  MaxFlaps,        \* bound: changes of the connection
  MaxReports       \* bound: errors reported by forwarders

ASSUME ClientAssumption ==
  /\ ListenerCount \in Nat \ {0}
  /\ Cancels \in BOOLEAN
  /\ MaxFlaps \in Nat /\ MaxReports \in Nat

Listeners == 1 .. ListenerCount
Sniffer == "sniffer"
Callers == Reporters \cup {Sniffer}
Connected == "Connected"
Disconnect == "Disconnect"

VARIABLES
  conn,        \* whether the connection is ready
  status,      \* c.status
  blocking,    \* s.blocking of every sender
  lpc,         \* listen of every sender
  pc, arg,     \* updateStatus of every caller and its argument
  i, val,      \* the listener it notifies next, and the value it sends
  cancelled, flaps, reports,
  raced        \* history: opposite statuses were announced at the same time,
               \* and no call has announced one with nobody else at it since

update == <<pc, arg, i, val>>
bounds == <<flaps, reports>>
rest == <<cancelled, bounds, raced>>
vars == <<conn, status, blocking, lpc, update, rest>>

Flap ==
  /\ flaps < MaxFlaps
  /\ conn' = ~conn /\ flaps' = flaps + 1
  /\ UNCHANGED <<status, blocking, lpc, update, cancelled, reports, raced>>

Call(g, s) ==
  /\ pc' = [pc EXCEPT ![g] = "check"] /\ arg' = [arg EXCEPT ![g] = s]
  /\ UNCHANGED <<conn, status, blocking, lpc, i, val, cancelled, flaps, raced>>

\* Mutant: only the loss of the connection is reported.
SniffLoss ==
  /\ pc[Sniffer] = "idle" /\ ~conn
  /\ Call(Sniffer, Disconnect)
  /\ UNCHANGED reports

\* A turn of the sniffer: GetState, and a call for the states that matter.
Sniff ==
  /\ pc[Sniffer] = "idle"
  /\ Call(Sniffer, IF conn THEN Connected ELSE Disconnect)
  /\ UNCHANGED reports

\* A stream could not be opened; the server may refuse one on a connection
\* that is ready (Unavailable, ResourceExhausted, ...).
ReportError(g) ==
  /\ pc[g] = "idle" /\ reports < MaxReports
  /\ Call(g, Disconnect)
  /\ reports' = reports + 1

\* The call is past its check.
Announcing(g) == pc[g] \in {"set", "load", "send"}

\* if c.status != clientStatus
CheckStatus(g) ==
  /\ pc[g] = "check"
  /\ pc' = [pc EXCEPT ![g] = IF status # arg[g] THEN "set" ELSE "idle"]
  /\ raced' = IF status = arg[g] THEN raced
              ELSE \E h \in Callers \ {g} : Announcing(h) /\ (raced \/ arg[h] # arg[g])
  /\ UNCHANGED <<conn, status, blocking, lpc, arg, i, val, cancelled, bounds>>

SetStatus(g) ==
  /\ pc[g] = "set"
  /\ status' = arg[g]
  /\ pc' = [pc EXCEPT ![g] = "load"] /\ i' = [i EXCEPT ![g] = 1]
  /\ UNCHANGED <<conn, blocking, lpc, arg, val, rest>>

\* The send evaluates c.status before the channel takes the value.
LoadStatus(g) ==
  /\ pc[g] = "load"
  /\ val' = [val EXCEPT ![g] = status]
  /\ pc' = [pc EXCEPT ![g] = "send"]
  /\ UNCHANGED <<conn, status, blocking, lpc, arg, i, rest>>

\* Mutants: one listener too many; only the first one; only while it sends.
NotifyOffByOne(g) ==
  /\ pc[g] = "send" /\ lpc[i[g]] = "run"
  /\ blocking' = [blocking EXCEPT ![i[g]] = (val[g] = Disconnect)]
  /\ IF i[g] > ListenerCount
     THEN pc' = [pc EXCEPT ![g] = "idle"] /\ UNCHANGED i
     ELSE pc' = [pc EXCEPT ![g] = "load"] /\ i' = [i EXCEPT ![g] = @ + 1]
  /\ UNCHANGED <<conn, status, lpc, arg, val, rest>>

NotifyFirst(g) ==
  /\ pc[g] = "send" /\ lpc[i[g]] = "run"
  /\ blocking' = [blocking EXCEPT ![i[g]] = (val[g] = Disconnect)]
  /\ pc' = [pc EXCEPT ![g] = "idle"]
  /\ UNCHANGED <<conn, status, lpc, arg, i, val, rest>>

NotifyUnblocked(g) ==
  /\ pc[g] = "send" /\ lpc[i[g]] = "run" /\ ~blocking[i[g]]
  /\ blocking' = [blocking EXCEPT ![i[g]] = (val[g] = Disconnect)]
  /\ IF i[g] = ListenerCount
     THEN pc' = [pc EXCEPT ![g] = "idle"] /\ UNCHANGED i
     ELSE pc' = [pc EXCEPT ![g] = "load"] /\ i' = [i EXCEPT ![g] = @ + 1]
  /\ UNCHANGED <<conn, status, lpc, arg, val, rest>>

\* The rendezvous with the sender's listen.
Notify(g) ==
  /\ pc[g] = "send" /\ lpc[i[g]] = "run"
  /\ blocking' = [blocking EXCEPT ![i[g]] = (val[g] = Disconnect)]
  /\ IF i[g] = ListenerCount
     THEN pc' = [pc EXCEPT ![g] = "idle"] /\ UNCHANGED i
     ELSE pc' = [pc EXCEPT ![g] = "load"] /\ i' = [i EXCEPT ![g] = @ + 1]
  /\ UNCHANGED <<conn, status, lpc, arg, val, rest>>

ListenDone(l) ==
  /\ lpc[l] = "run" /\ cancelled
  /\ lpc' = [lpc EXCEPT ![l] = "exit"]
  /\ UNCHANGED <<conn, status, blocking, update, rest>>

Cancel ==
  /\ Cancels /\ ~cancelled
  /\ cancelled' = TRUE
  /\ UNCHANGED <<conn, status, blocking, lpc, update, bounds, raced>>

Init ==
  /\ conn = TRUE /\ status = Connected
  /\ blocking = [l \in Listeners |-> FALSE]
  /\ lpc = [l \in Listeners |-> "run"]
  /\ pc = [g \in Callers |-> "idle"] /\ arg = [g \in Callers |-> Connected]
  /\ i = [g \in Callers |-> 1] /\ val = [g \in Callers |-> Connected]
  /\ cancelled = FALSE /\ flaps = 0 /\ reports = 0 /\ raced = FALSE

Update(g) == CheckStatus(g) \/ SetStatus(g) \/ LoadStatus(g) \/ Notify(g)

Next ==
  \/ Flap \/ Sniff \/ Cancel
  \/ \E g \in Reporters : ReportError(g)
  \/ \E g \in Callers : Update(g)
  \/ \E l \in Listeners : ListenDone(l)

Spec == Init /\ [][Next]_vars

\* The sniffer's ticker keeps ticking, and calls and listeners keep running.
Fairness ==
  /\ WF_vars(Sniff)
  /\ \A g \in Callers : WF_vars(Update(g))
  /\ \A l \in Listeners : WF_vars(ListenDone(l))

FairSpec == Spec /\ Fairness

-----------------------------------------------------------------------------
(***************************************************************************)
(* The types of the status, the senders and the calls of updateStatus; the *)
(* index over the listeners stays inside the slice.                        *)
(***************************************************************************)
TypeOK ==
  LET Status == {Connected, Disconnect}
  IN /\ conn \in BOOLEAN /\ status \in Status
     /\ blocking \in [Listeners -> BOOLEAN]
     /\ lpc \in [Listeners -> {"run", "exit"}]
     /\ pc \in [Callers -> {"idle", "check", "set", "load", "send"}]
     /\ arg \in [Callers -> Status] /\ val \in [Callers -> Status]
     /\ i \in [Callers -> Listeners]
     /\ cancelled \in BOOLEAN /\ flaps \in 0 .. MaxFlaps
     /\ reports \in 0 .. MaxReports /\ raced \in BOOLEAN

(***************************************************************************)
(* When no announcement is under way, every sender acts on the status the  *)
(* client has, whatever goroutines announced the same status at the same   *)
(* time.  Opposite statuses announced at the same time may leave senders   *)
(* wrong, and updateStatus, which does nothing when the status has not     *)
(* changed, does not correct them: the next announcement made with nobody  *)
(* else at it does.                                                        *)
(***************************************************************************)
SendersAgree ==
  (~raced /\ \A g \in Callers : ~Announcing(g)) =>
    \A l \in Listeners : lpc[l] = "run" => (blocking[l] <=> status = Disconnect)

(***************************************************************************)
(* Once the connection stays ready, every sender goes on fetching,         *)
(* although forwarders reported errors before, some of them at the same    *)
(* time, and although opposite announcements overlapped, provided one was  *)
(* made with nobody else at it since.                                      *)
(***************************************************************************)
SendersRecover ==
  (<>[](conn /\ ~raced) /\ []~cancelled) => <>[](\A l \in Listeners : ~blocking[l])

\* The same whatever the callers do at the same time.
SendersAlwaysRecover ==
  (<>[]conn /\ []~cancelled) => <>[](\A l \in Listeners : ~blocking[l])

(***************************************************************************)
(* Until the close signal, sniffer and forwarders that notify the same     *)
(* senders over unbuffered channels all get out of updateStatus.           *)
(***************************************************************************)
UpdateReturns ==
  \A g \in Callers : (pc[g] = "send") ~> (pc[g] # "send" \/ cancelled)
=============================================================================
