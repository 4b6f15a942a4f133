------------------------- MODULE ClientStatus_proof -------------------------
(***************************************************************************)
(* Unless opposite statuses were announced at the same time and none was   *)
(* announced alone since, the senders agree with the client whenever       *)
(* nobody announces, for any number of senders and of reporting goroutines.*)
(***************************************************************************)
EXTENDS ClientStatus, TLAPS

\* Sender l, if it still listens, acts on the client's status.
Agrees(l) == lpc[l] = "run" => (blocking[l] <=> status = Disconnect)

\* Nobody announces, and then all senders agree.
Quiet ==
  (\A g \in Callers : ~Announcing(g)) => \A l \in Listeners : Agrees(l)

\* The calls past their check all announce the same status.
OneStatus ==
  \A g, h \in Callers : Announcing(g) /\ Announcing(h) => arg[g] = arg[h]

\* A call that has set the status has told the senders before the one it is
\* at, and sends the status that everybody announces.
Announced ==
  \A g \in Callers :
    /\ pc[g] \in {"load", "send"} =>
         status = arg[g] /\ \A l \in 1 .. i[g] - 1 : Agrees(l)
    /\ pc[g] = "send" => val[g] = status

ClientInv == TypeOK /\ (~raced => Quiet /\ OneStatus /\ Announced)

-----------------------------------------------------------------------------
\* Nothing is connected at first.
LEMMA ClientInit == Init => ClientInv
  <1> SUFFICES ASSUME Init PROVE ClientInv
    OBVIOUS
  <1> USE ClientAssumption DEF Init
  <1>1. TypeOK
    <2>1. 1 \in Listeners /\ Connected \in {Connected, Disconnect}
      BY DEF Listeners
    <2>2. blocking \in [Listeners -> BOOLEAN] /\ conn \in BOOLEAN
          /\ cancelled \in BOOLEAN /\ raced \in BOOLEAN
      OBVIOUS
    <2> QED
      BY <2>1, <2>2 DEF TypeOK
  <1>2. Quiet
    BY DEF Quiet, Agrees, Connected, Disconnect
  <1>3. OneStatus /\ Announced
    BY DEF OneStatus, Announced, Announcing
  <1> QED
    BY <1>1, <1>2, <1>3 DEF ClientInv

\* The steps of a call, and of everybody else, keep the types.
LEMMA ClientTypes == TypeOK /\ [Next]_vars => TypeOK'
  <1> SUFFICES ASSUME TypeOK, [Next]_vars PROVE TypeOK'
    OBVIOUS
  <1> USE ClientAssumption DEF TypeOK
  <1>1. CASE Flap
    BY <1>1 DEF Flap, update
  <1>2. CASE Sniff
    BY <1>2 DEF Sniff, Call, Connected, Disconnect
  <1>3. CASE Cancel
    BY <1>3 DEF Cancel, update, bounds
  <1>4. ASSUME NEW g \in Reporters, ReportError(g) PROVE TypeOK'
    <2>1. g \in Callers
      BY DEF Callers
    <2> QED
      BY <1>4, <2>1 DEF ReportError, Call, Connected, Disconnect
  <1>5. ASSUME NEW g \in Callers, CheckStatus(g) PROVE TypeOK'
    BY <1>5 DEF CheckStatus, bounds
  <1>6. ASSUME NEW g \in Callers, SetStatus(g) PROVE TypeOK'
    BY <1>6 DEF SetStatus, rest, bounds, Listeners
  <1>7. ASSUME NEW g \in Callers, LoadStatus(g) PROVE TypeOK'
    BY <1>7 DEF LoadStatus, rest, bounds
  <1>8. ASSUME NEW g \in Callers, Notify(g) PROVE TypeOK'
    <2>1. i' \in [Callers -> Listeners]
      BY <1>8, SMTT(40) DEF Notify, Listeners
    <2>2. pc' \in [Callers -> {"idle", "check", "set", "load", "send"}]
      BY <1>8 DEF Notify
    <2>3. blocking' \in [Listeners -> BOOLEAN]
      BY <1>8 DEF Notify
    <2> QED
      BY <1>8, <2>1, <2>2, <2>3 DEF Notify, rest, bounds
  <1>9. ASSUME NEW l \in Listeners, ListenDone(l) PROVE TypeOK'
    BY <1>9 DEF ListenDone, update, rest, bounds
  <1>10. CASE UNCHANGED vars
    BY <1>10 DEF vars, update, rest, bounds
  <1> QED
    BY <1>1, <1>2, <1>3, <1>4, <1>5, <1>6, <1>7, <1>8, <1>9, <1>10
    DEF Next, Update

\* A step that touches neither the status, nor the senders' flags, nor a call
\* past its check, keeps what was announced.
LEMMA ClientFrame ==
  ASSUME TypeOK, Quiet, OneStatus, Announced,
         UNCHANGED <<status, blocking, i, val>>,
         \A l \in Listeners : lpc'[l] = "run" => lpc[l] = "run",
         \A g \in Callers :
           (pc'[g] = pc[g] /\ arg'[g] = arg[g]) \/ (~Announcing(g) /\ ~Announcing(g)')
  PROVE  (Quiet /\ OneStatus /\ Announced)'
  <1>1. \A g \in Callers : Announcing(g)' <=> Announcing(g)
    BY DEF Announcing
  <1>2. \A l \in Listeners : Agrees(l) => Agrees(l)'
    BY DEF Agrees
  <1>3. Quiet'
    BY <1>1, <1>2 DEF Quiet
  <1>4. OneStatus'
    BY <1>1 DEF OneStatus
  <1>5. ASSUME NEW g \in Callers, Announcing(g)'
        PROVE pc'[g] = pc[g] /\ arg'[g] = arg[g]
    BY <1>1, <1>5
  <1>7. \A g \in Callers : 1 .. i[g] - 1 \subseteq Listeners
    BY ClientAssumption DEF TypeOK, Listeners
  <1>8. Announced'
    BY <1>2, <1>5, <1>7 DEF Announced, Announcing
  <1> QED
    BY <1>3, <1>4, <1>8

\* A call that finds another status than its own, with nobody at a different
\* one, begins an announcement that agrees with all others.
LEMMA ClientBegins ==
  ASSUME TypeOK, TypeOK', ~raced => Quiet /\ OneStatus /\ Announced,
         NEW g \in Callers, CheckStatus(g), status # arg[g], ~raced'
  PROVE  (Quiet /\ OneStatus /\ Announced)'
  <1>1. /\ pc'[g] = "set"
        /\ \A h \in Callers \ {g} : pc'[h] = pc[h]
        /\ UNCHANGED <<status, blocking, lpc, arg, i, val>>
    BY DEF TypeOK, CheckStatus
  <1>2. \A h \in Callers \ {g} : Announcing(h) => ~raced /\ arg[h] = arg[g]
    BY DEF CheckStatus
  <1>3. \A h \in Callers \ {g} : Announcing(h)' <=> Announcing(h)
    BY <1>1 DEF Announcing
  <1>4. Announcing(g)'
    BY <1>1 DEF Announcing
  <1>5. Quiet'
    BY <1>4 DEF Quiet
  <1>6. OneStatus'
    BY <1>1, <1>2, <1>3 DEF OneStatus
  <1>7. \A h \in Callers : 1 .. i[h] - 1 \subseteq Listeners
    BY ClientAssumption DEF TypeOK, Listeners
  <1>8. \A l : Agrees(l)' = Agrees(l)
    BY <1>1 DEF Agrees
  <1>9. Announced'
    <2> SUFFICES ASSUME NEW h \in Callers, pc'[h] \in {"load", "send"}
                 PROVE  /\ status' = arg'[h] /\ \A l \in 1 .. i'[h] - 1 : Agrees(l)'
                        /\ pc'[h] = "send" => val'[h] = status'
      BY DEF Announced
    <2>1. h \in Callers \ {g} /\ pc[h] = pc'[h] /\ Announcing(h)
      BY <1>1 DEF Announcing
    <2>2. Announced
      BY <1>2, <2>1
    <2> QED
      BY <1>1, <1>8, <2>1, <2>2 DEF Announced
  <1> QED
    BY <1>5, <1>6, <1>9

\* Every step keeps the invariant.
LEMMA ClientStep == ClientInv /\ [Next]_vars => ClientInv'
  <1> SUFFICES ASSUME ClientInv, [Next]_vars PROVE ClientInv'
    OBVIOUS
  <1> USE ClientAssumption
  <1>1. TypeOK /\ TypeOK'
    BY ClientTypes DEF ClientInv
  <1>2. \A g \in Callers : 1 .. i[g] - 1 \subseteq Listeners /\ i[g] \in Listeners
    BY <1>1 DEF TypeOK, Listeners
  <1> DEFINE Good == Quiet /\ OneStatus /\ Announced
  <1> SUFFICES ASSUME ~raced' PROVE Good'
    BY <1>1 DEF ClientInv
  <1>3. ~raced => Good
    BY DEF ClientInv
  <1>4. ~raced \/ \E g \in Callers : CheckStatus(g) /\ status # arg[g]
    BY DEF Next, Update, Flap, Sniff, Call, Cancel, ReportError, CheckStatus,
           SetStatus, LoadStatus, Notify, ListenDone, vars, rest
  <1>5. ASSUME NEW g \in Callers, CheckStatus(g), status # arg[g] PROVE Good'
    BY <1>1, <1>3, <1>5, ClientBegins
  <1> SUFFICES ASSUME ~raced PROVE Good'
    BY <1>4, <1>5
  <1>6. Quiet /\ OneStatus /\ Announced
    BY <1>3
  <1> HIDE DEF Good
  <1>7. CASE Flap
    BY <1>1, <1>6, <1>7, ClientFrame DEF Flap, update, Good
  <1>8. ASSUME NEW g \in Callers, NEW s, pc[g] = "idle", Call(g, s) PROVE Good'
    <2>1. \A h \in Callers :
            (pc'[h] = pc[h] /\ arg'[h] = arg[h]) \/ (~Announcing(h) /\ ~Announcing(h)')
      BY <1>1, <1>8 DEF TypeOK, Call, Announcing
    <2> QED
      BY <1>1, <1>6, <1>8, <2>1, ClientFrame DEF Call, Good
  <1>9. CASE Sniff
    BY <1>8, <1>9 DEF Sniff, Callers
  <1>10. CASE Cancel
    BY <1>1, <1>6, <1>10, ClientFrame DEF Cancel, update, Good
  <1>11. ASSUME NEW g \in Reporters, ReportError(g) PROVE Good'
    BY <1>8, <1>11 DEF ReportError, Callers
  <1>12. ASSUME NEW l \in Listeners, ListenDone(l) PROVE Good'
    <2>1. \A m \in Listeners : lpc'[m] = "run" => lpc[m] = "run"
      BY <1>1, <1>12 DEF TypeOK, ListenDone
    <2> QED
      BY <1>1, <1>6, <1>12, <2>1, ClientFrame DEF ListenDone, update, Good
  <1>13. ASSUME NEW g \in Callers, CheckStatus(g), status = arg[g] PROVE Good'
    <2>1. \A h \in Callers :
            (pc'[h] = pc[h] /\ arg'[h] = arg[h]) \/ (~Announcing(h) /\ ~Announcing(h)')
      BY <1>1, <1>13 DEF TypeOK, CheckStatus, Announcing
    <2> QED
      BY <1>1, <1>6, <1>13, <2>1, ClientFrame DEF CheckStatus, Good
  <1>14. ASSUME NEW g \in Callers, SetStatus(g) PROVE Good'
    <2>1. /\ pc[g] = "set" /\ pc'[g] = "load" /\ i'[g] = 1
          /\ \A h \in Callers \ {g} : pc'[h] = pc[h] /\ i'[h] = i[h]
          /\ status' = arg[g] /\ UNCHANGED <<blocking, lpc, arg, val>>
      BY <1>1, <1>14 DEF TypeOK, SetStatus
    <2>2. \A h \in Callers : Announcing(h)' <=> Announcing(h)
      BY <2>1 DEF Announcing
    <2>3. \A h \in Callers : Announcing(h) => arg[h] = arg[g]
      BY <1>6, <2>1 DEF OneStatus, Announcing
    <2>4. Quiet' /\ OneStatus'
      BY <1>6, <2>1, <2>2 DEF Quiet, OneStatus, Announcing
    <2>5. ASSUME NEW h \in Callers \ {g}, pc[h] \in {"load", "send"}
          PROVE  status' = status
      BY <1>6, <2>1, <2>3, <2>5 DEF Announced, Announcing
    <2>6. ASSUME NEW h \in Callers \ {g}, pc[h] \in {"load", "send"}
          PROVE  \A l \in 1 .. i[h] - 1 : Agrees(l)'
      BY <1>6, <2>1, <2>5, <2>6 DEF Announced, Agrees
    <2>7. Announced'
      BY <1>6, <2>1, <2>5, <2>6 DEF Announced
    <2> QED
      BY <2>4, <2>7 DEF Good
  <1>15. ASSUME NEW g \in Callers, LoadStatus(g) PROVE Good'
    <2>1. /\ pc[g] = "load" /\ pc'[g] = "send" /\ val'[g] = status
          /\ \A h \in Callers \ {g} : pc'[h] = pc[h] /\ val'[h] = val[h]
          /\ UNCHANGED <<status, blocking, lpc, arg, i>>
      BY <1>1, <1>15 DEF TypeOK, LoadStatus
    <2>2. \A h \in Callers : Announcing(h)' <=> Announcing(h)
      BY <2>1 DEF Announcing
    <2>3. \A l : Agrees(l)' = Agrees(l)
      BY <2>1 DEF Agrees
    <2>4. Quiet' /\ OneStatus'
      BY <1>6, <2>1, <2>2 DEF Quiet, OneStatus, Announcing
    <2>5. Announced'
      BY <1>6, <2>1, <2>3 DEF Announced
    <2> QED
      BY <2>4, <2>5 DEF Good
  <1>16. ASSUME NEW g \in Callers, Notify(g) PROVE Good'
    <2>1. /\ pc[g] = "send" /\ \A h \in Callers \ {g} : pc'[h] = pc[h] /\ i'[h] = i[h]
          /\ UNCHANGED <<status, lpc, arg, val>>
      BY <1>1, <1>16 DEF TypeOK, Notify
    <2>2. PICK at \in Listeners : at = i[g]
      BY <1>2
    <2>3. /\ blocking'[at] = (val[g] = Disconnect) /\ val[g] = status
          /\ \A l \in Listeners \ {at} : blocking'[l] = blocking[l]
      BY <1>1, <1>6, <1>16, <2>2 DEF TypeOK, Notify, Announced
    <2>4. Agrees(at)' /\ \A l \in Listeners : Agrees(l) => Agrees(l)'
      BY <2>1, <2>3 DEF Agrees
    <2>5. \A l \in 1 .. at - 1 : Agrees(l)
      BY <1>6, <2>1, <2>2 DEF Announced
    <2>6. \A l \in 1 .. at : Agrees(l)'
      BY <2>4, <2>5 DEF Listeners
    <2>7. \A h \in Callers : 1 .. i[h] - 1 \subseteq Listeners
      BY <1>2
    <2>8. \A h \in Callers : Announcing(h)' => Announcing(h)
      BY <2>1 DEF Announcing
    <2>9. OneStatus'
      BY <1>6, <2>1, <2>8 DEF OneStatus
    <2>10. \A h \in Callers \ {g} : pc'[h] \in {"load", "send"} =>
             /\ status' = arg'[h] /\ \A l \in 1 .. i'[h] - 1 : Agrees(l)'
             /\ pc'[h] = "send" => val'[h] = status'
      BY <1>6, <2>1, <2>4, <2>7 DEF Announced
    <2>11. CASE at = ListenerCount
      <3>1. pc'[g] = "idle"
        BY <1>1, <1>16, <2>2, <2>11 DEF TypeOK, Notify
      <3>2. \A l \in Listeners : Agrees(l)'
        BY <2>6, <2>11 DEF Listeners
      <3> QED
        BY <2>9, <2>10, <3>1, <3>2 DEF Quiet, Announced, Good
    <2>12. CASE at # ListenerCount
      <3>1. pc'[g] = "load" /\ i'[g] = at + 1
        BY <1>1, <1>16, <2>2, <2>12 DEF TypeOK, Notify
      <3>2. \A l \in 1 .. i'[g] - 1 : Agrees(l)'
        BY <2>6, <3>1 DEF Listeners
      <3>3. status' = arg'[g]
        BY <1>6, <2>1 DEF Announced
      <3> QED
        BY <2>9, <2>10, <3>1, <3>2, <3>3 DEF Quiet, Announced, Announcing, Good
    <2> QED
      BY <2>11, <2>12
  <1>17. CASE UNCHANGED vars
    BY <1>1, <1>6, <1>17, ClientFrame DEF vars, update, Good
  <1> QED
    BY <1>5, <1>7, <1>9, <1>10, <1>11, <1>12, <1>13, <1>14, <1>15, <1>16, <1>17
    DEF Next, Update

-----------------------------------------------------------------------------
(***************************************************************************)
(* The invariant of updateStatus and the senders' listeners, for any       *)
(* number of senders and of goroutines whose Forward may fail.             *)
(***************************************************************************)
THEOREM ClientInvariant == Spec => []ClientInv
  <1>1. Init => ClientInv
    BY ClientInit
  <1>2. ClientInv /\ [Next]_vars => ClientInv'
    BY ClientStep
  <1> QED
    BY <1>1, <1>2, PTL DEF Spec

(***************************************************************************)
(* The types of the status, the senders and the calls of updateStatus; its *)
(* index never leaves the slice of listeners.                              *)
(***************************************************************************)
THEOREM ClientTypeCorrect == Spec => []TypeOK
  <1>1. ClientInv => TypeOK
    BY DEF ClientInv
  <1> QED
    BY <1>1, ClientInvariant, PTL

(***************************************************************************)
(* Every sender acts on the client's status whenever no announcement is    *)
(* under way, although the field c.status has no lock and any number of    *)
(* goroutines announce the same status at the same time; after opposite    *)
(* announcements overlapped, the next one made alone restores it.          *)
(***************************************************************************)
THEOREM ClientSendersAgree == Spec => []SendersAgree
  <1>1. ClientInv => SendersAgree
    BY DEF ClientInv, Quiet, Agrees, SendersAgree
  <1> QED
    BY <1>1, ClientInvariant, PTL
=============================================================================
