----------------------------- MODULE Pipe_proof -----------------------------
(***************************************************************************)
(* The pipe's safety for every number of partitions, buffer size, list of  *)
(* forwarders and number of events.                                        *)
(***************************************************************************)
EXTENDS Pipe, SequenceTheorems, WellFoundedInduction, TLAPS

-----------------------------------------------------------------------------
(***************************************************************************)
(* The inductive invariant, in four parts.                                 *)
(***************************************************************************)

\* Where buffer i of the buffers q goes on from buffer i - 1.
FirstOf(q, i) == IF i = 1 THEN 1 ELSE Last(q[i - 1]) + 1

\* The buffers q hold the events 1 .. n, one after the other, and only the
\* last of them may be empty.
IsRun(q, n) ==
  /\ q # <<>>
  /\ \A i \in 1 .. Len(q) :
       /\ i # Len(q) => q[i] # <<>>
       /\ FirstOf(q, i) \in Nat \ {0} /\ FirstOf(q, i) + Len(q[i]) - 1 <= n
       /\ \A j \in 1 .. Len(q[i]) : q[i][j] = FirstOf(q, i) + j - 1
  /\ n = FirstOf(q, Len(q)) + Len(q[Len(q)]) - 1

\* How many events have reached the buffers: the others are on their way.
One(e) == IF e = NoEvent THEN 0 ELSE 1
Stored(p) == taken[p] - One(sev[p]) - One(work[p]) - One(hand[p])

\* The events of a partition between its queue and its buffers.
Flow(p) ==
  /\ IsRun(batches[p], Stored(p))
  /\ gpc[p] = "send" => hand[p] # NoEvent
  /\ ppc[p] = "send" => work[p] # NoEvent
  /\ spc[p] = "add" => sev[p] # NoEvent
  /\ hand[p] # NoEvent =>
       gpc[p] \in {"send", "dead"} /\ hand[p] = taken[p]
  /\ work[p] # NoEvent =>
       ppc[p] \in {"send", "dead"} /\ work[p] = taken[p] - One(hand[p])
  /\ sev[p] # NoEvent =>
       spc[p] \in {"add", "dead"} /\ sev[p] = Stored(p) + 1

\* The size of the buffers: Add never finds a full one.
Sizes(p) ==
  /\ \A i \in 1 .. Current(p) : Len(batches[p][i]) <= MaxBufferSize
  /\ spc[p] \in {"top", "select", "add"} => Len(Buffer(p)) < MaxBufferSize
  /\ spc[p] \in {"send", "renew"} => Len(Buffer(p)) > 0

\* A running consume is on a buffer that is not empty, and what it has passed
\* is settled.
Running(c) ==
  LET k == call[c]
  IN /\ k.f \in 1 .. Len(Forwarders) + 1
     /\ k.i \in 1 .. Current(k.part) /\ Len(batches[k.part][k.i]) > 0
     /\ c[1] = "flush" =>
          \/ fpc[c[2]] = "consume" /\ k.part = c[2]
          \/ fpc[c[2]] = "again" /\ again[c[2]] \in Partitions
     /\ c[1] = "drain" => dpc[c[2]] = "consume" /\ k.part = c[2]
     /\ \A e \in k.got : \A g \in 1 .. k.f - 1 :
          Forwarders[g] = TypeOf[e] => e \in sent[k.part] \cup failed[k.part]

Idle(c) ==
  /\ call[c] = NoCall
  /\ c[1] = "flush" => fpc[c[2]] # "consume"
  /\ c[1] = "drain" => dpc[c[2]] # "consume"

\* flush consumes the buffer store gave it, which store no longer changes.
Flushed(p) ==
  LET k == call[Flusher(p)]
  IN fpc[p] = "consume" =>
       /\ k.i = IF spc[p] = "renew" THEN Current(p) ELSE Current(p) - 1
       /\ k.got = ToSet(batches[p][k.i])

\* The first buffer of partition p that is not acknowledged.
Unacked(p) ==
  IF fpc[p] = "consume" THEN call[Flusher(p)].i
  ELSE IF spc[p] = "renew" THEN Current(p) + 1 ELSE Current(p)

\* Before the close signal the acknowledged offset is the end of the buffers
\* that have been consumed, and these are settled.
InTurn(p) ==
  /\ acked[p] = FirstOf(batches[p], Unacked(p)) - 1
  /\ \A e \in 1 .. FirstOf(batches[p], Unacked(p)) - 1 : Settled(p, e)

Undisturbed ==
  /\ once = "new" /\ ~inputsClosed /\ ~closed
  /\ \A p \in Partitions :
       fpc[p] \in {"select", "consume"} /\ dpc[p] = "none" /\ spc[p] # "dead"

\* The shutdown: which goroutine runs it, and what has been done when it ends.
Shutdown ==
  /\ \A p \in Partitions :
       /\ fpc[p] \in {"wait", "again"} => once = "running"
       /\ fpc[p] = "exit" => once = "done"
       /\ again[p] # 0 => fpc[p] \in {"again", "exit", "dead"}
       /\ once = "new" => fpc[p] # "dead" /\ dpc[p] = "none"
  /\ inputsClosed => once # "new"
  /\ \A p, q \in Partitions :
       fpc[p] \in {"wait", "again"} /\ fpc[q] \in {"wait", "again"} => p = q
  /\ (once = "done" /\ \E p \in Partitions : fpc[p] # "dead") =>
       \/ \A q \in Partitions : dpc[q] = "done"
       \/ \E p \in Partitions : again[p] = PartitionCount

PipeInv ==
  /\ TypeOK
  /\ \A p \in Partitions : Flow(p) /\ Sizes(p) /\ Flushed(p) /\ acked[p] <= Stored(p)
  /\ \A c \in Consumers : Running(c) \/ Idle(c)
  /\ ~cancelled => Undisturbed /\ \A p \in Partitions : InTurn(p)
  /\ Shutdown

-----------------------------------------------------------------------------
\* What Add and Renew do to the buffers of a partition.

\* The buffer store is filling is one of the buffers.
LEMMA LastBuffer ==
  ASSUME NEW q \in Seq(Seq(Events)), q # <<>>
  PROVE  /\ Len(q) \in Nat \ {0} /\ Len(q) \in 1 .. Len(q)
         /\ \A i \in 1 .. Len(q) : q[i] \in Seq(Events) /\ Len(q[i]) \in Nat
OBVIOUS

\* Events appended in order keep the run.
LEMMA RunAdd ==
  ASSUME NEW q \in Seq(Seq(Events)), NEW n \in Nat, IsRun(q, n), n + 1 \in Events
  PROVE  LET r == [q EXCEPT ![Len(q)] = Append(@, n + 1)]
         IN  /\ r \in Seq(Seq(Events)) /\ Len(r) = Len(q) /\ IsRun(r, n + 1)
             /\ \A i \in 1 .. Len(q) : FirstOf(r, i) = FirstOf(q, i)
             /\ \A i \in 1 .. Len(q) - 1 : r[i] = q[i]
             /\ Len(r[Len(q)]) = Len(q[Len(q)]) + 1
<1> DEFINE m == Len(q)
           b == Append(q[m], n + 1)
           r == [q EXCEPT ![m] = b]
<1>1. /\ m \in Nat \ {0} /\ m \in 1 .. m
      /\ \A i \in 1 .. m : q[i] \in Seq(Events) /\ Len(q[i]) \in Nat
  BY LastBuffer DEF IsRun
<1>2. /\ \A i \in 1 .. m :
           /\ i # m => q[i] # <<>>
           /\ FirstOf(q, i) \in Nat \ {0} /\ FirstOf(q, i) + Len(q[i]) - 1 <= n
           /\ \A j \in 1 .. Len(q[i]) : q[i][j] = FirstOf(q, i) + j - 1
      /\ n = FirstOf(q, m) + Len(q[m]) - 1
  BY DEF IsRun
<1>3. /\ b \in Seq(Events) /\ Len(b) = Len(q[m]) + 1 /\ b[Len(q[m]) + 1] = n + 1
      /\ \A j \in 1 .. Len(q[m]) : b[j] = q[m][j]
  BY <1>1, AppendProperties
<1> HIDE DEF b
<1>4. /\ r \in Seq(Seq(Events)) /\ Len(r) = m /\ r[m] = b
      /\ \A i \in 1 .. m : i # m => r[i] = q[i]
  BY <1>1, <1>3, ExceptSeq
<1> HIDE DEF r, m
<1>5. ASSUME NEW i \in 1 .. m  PROVE FirstOf(r, i) = FirstOf(q, i)
  <2>1. i # 1 => i - 1 \in 1 .. m /\ i - 1 # m
    BY <1>1
  <2> QED BY <1>4, <2>1 DEF FirstOf, Last
<1>6. ASSUME NEW i \in 1 .. m, i # m
      PROVE  /\ r[i] # <<>>
             /\ FirstOf(r, i) \in Nat \ {0} /\ FirstOf(r, i) + Len(r[i]) - 1 <= n + 1
             /\ \A j \in 1 .. Len(r[i]) : r[i][j] = FirstOf(r, i) + j - 1
  <2>1. r[i] = q[i] /\ FirstOf(r, i) = FirstOf(q, i) /\ Len(q[i]) \in Nat
    BY <1>1, <1>4, <1>5, <1>6
  <2> QED BY <1>2, <1>6, <2>1, SMTT(40)
<1>7. /\ FirstOf(r, m) \in Nat \ {0} /\ n + 1 = FirstOf(r, m) + Len(r[m]) - 1
  <2>1. Len(r[m]) = Len(q[m]) + 1 /\ FirstOf(r, m) = FirstOf(q, m)
    BY <1>1, <1>3, <1>4, <1>5
  <2>2. FirstOf(q, m) \in Nat \ {0} /\ Len(q[m]) \in Nat
    BY <1>1, <1>2
  <2>3. n = FirstOf(q, m) + Len(q[m]) - 1
    BY <1>2
  <2> QED BY <2>1, <2>2, <2>3
<1>8. ASSUME NEW j \in 1 .. Len(r[m])
      PROVE  r[m][j] = FirstOf(r, m) + j - 1
  <2>1. CASE j \in 1 .. Len(q[m])
    BY <1>1, <1>2, <1>3, <1>4, <1>5, <2>1
  <2>2. CASE j = Len(q[m]) + 1
    BY <1>1, <1>2, <1>3, <1>4, <1>5, <2>2
  <2> QED BY <1>1, <1>3, <1>4, <2>1, <2>2
<1>9. r # <<>>
  BY <1>1, <1>4, EmptySeq
<1>10. IsRun(r, n + 1)
  BY <1>1, <1>4, <1>6, <1>7, <1>8, <1>9, SMTT(40) DEF IsRun
<1>11. \A i \in 1 .. m - 1 : r[i] = q[i]
  BY <1>1, <1>4
<1> QED BY <1>3, <1>4, <1>5, <1>10, <1>11 DEF r, b, m

\* A new buffer after one that is not empty keeps the run.
LEMMA RunRenew ==
  ASSUME NEW q \in Seq(Seq(Events)), NEW n \in Nat, IsRun(q, n),
         q[Len(q)] # <<>>
  PROVE  LET r == Append(q, <<>>)
         IN  /\ r \in Seq(Seq(Events)) /\ Len(r) = Len(q) + 1 /\ IsRun(r, n)
             /\ \A i \in 1 .. Len(q) : FirstOf(r, i) = FirstOf(q, i)
             /\ \A i \in 1 .. Len(q) : r[i] = q[i]
             /\ r[Len(q) + 1] = <<>>
             /\ FirstOf(r, Len(q) + 1) = n + 1
<1> DEFINE m == Len(q)
           r == Append(q, <<>>)
<1>1. /\ m \in Nat \ {0} /\ m \in 1 .. m
      /\ \A i \in 1 .. m : q[i] \in Seq(Events) /\ Len(q[i]) \in Nat
  BY LastBuffer DEF IsRun
<1>2. /\ \A i \in 1 .. m :
           /\ q[i] # <<>>
           /\ FirstOf(q, i) \in Nat \ {0} /\ FirstOf(q, i) + Len(q[i]) - 1 <= n
           /\ \A j \in 1 .. Len(q[i]) : q[i][j] = FirstOf(q, i) + j - 1
      /\ n = FirstOf(q, m) + Len(q[m]) - 1
  BY DEF IsRun
<1>3. /\ r \in Seq(Seq(Events)) /\ Len(r) = m + 1 /\ r[m + 1] = <<>>
      /\ \A i \in 1 .. m : r[i] = q[i]
  BY <1>1, AppendProperties
<1> HIDE DEF r, m
<1>4. ASSUME NEW i \in 1 .. m  PROVE FirstOf(r, i) = FirstOf(q, i)
  <2>1. i # 1 => i - 1 \in 1 .. m
    BY <1>1
  <2> QED BY <1>3, <2>1 DEF FirstOf, Last
<1>5. Len(q[m]) \in 1 .. Len(q[m])
  BY <1>1, <1>2, EmptySeq
<1>6. Last(r[m]) = n
  BY <1>1, <1>2, <1>3, <1>5 DEF Last
<1>7. FirstOf(r, m + 1) = n + 1
  BY <1>1, <1>6 DEF FirstOf
<1>8. ASSUME NEW i \in 1 .. m
      PROVE  /\ r[i] # <<>>
             /\ FirstOf(r, i) \in Nat \ {0} /\ FirstOf(r, i) + Len(r[i]) - 1 <= n
             /\ \A j \in 1 .. Len(r[i]) : r[i][j] = FirstOf(r, i) + j - 1
  BY <1>2, <1>3, <1>4
<1>9. /\ r # <<>> /\ Len(r[m + 1]) = 0
      /\ FirstOf(r, m + 1) \in Nat \ {0} /\ n = FirstOf(r, m + 1) + Len(r[m + 1]) - 1
  <2>1. r # <<>> /\ Len(r[m + 1]) = 0
    BY <1>1, <1>3
  <2> QED BY <1>7, <2>1
<1>10. IsRun(r, n)
  <2>1. \A i \in 1 .. m + 1 : i # m + 1 => i \in 1 .. m
    BY <1>1
  <2>2. \A j \in 1 .. Len(r[m + 1]) : r[m + 1][j] = FirstOf(r, m + 1) + j - 1
    BY <1>9
  <2>3. FirstOf(r, m + 1) + Len(r[m + 1]) - 1 <= n
    BY <1>9
  <2>4. \A i \in 1 .. m + 1 :
           /\ i # m + 1 => r[i] # <<>>
           /\ FirstOf(r, i) \in Nat \ {0} /\ FirstOf(r, i) + Len(r[i]) - 1 <= n
           /\ \A j \in 1 .. Len(r[i]) : r[i][j] = FirstOf(r, i) + j - 1
    BY <1>8, <1>9, <2>1, <2>2, <2>3
  <2> QED BY <1>3, <1>9, <2>4 DEF IsRun
<1> QED BY <1>3, <1>4, <1>7, <1>10 DEF r, m

\* Where the buffers of a run begin and end.
LEMMA RunFacts ==
  ASSUME NEW q \in Seq(Seq(Events)), NEW n \in Nat, IsRun(q, n),
         NEW i \in 1 .. Len(q), q[i] # <<>>
  PROVE  /\ Len(q[i]) \in Nat \ {0} /\ FirstOf(q, i) \in Nat \ {0}
         /\ Last(q[i]) = FirstOf(q, i) + Len(q[i]) - 1
         /\ Last(q[i]) <= n /\ FirstOf(q, i + 1) = Last(q[i]) + 1
         /\ \A e \in FirstOf(q, i) .. Last(q[i]) : e \in ToSet(q[i])
<1>1. /\ q[i] \in Seq(Events) /\ FirstOf(q, i) \in Nat \ {0}
      /\ FirstOf(q, i) + Len(q[i]) - 1 <= n
      /\ \A j \in 1 .. Len(q[i]) : q[i][j] = FirstOf(q, i) + j - 1
  BY LastBuffer DEF IsRun
<1>2. Len(q[i]) \in Nat \ {0}
  BY <1>1, EmptySeq
<1>3. Last(q[i]) = FirstOf(q, i) + Len(q[i]) - 1
  BY <1>1, <1>2 DEF Last
<1>4. FirstOf(q, i + 1) = Last(q[i]) + 1
  <2>1. i + 1 # 1 /\ i + 1 - 1 = i
    OBVIOUS
  <2> QED BY <2>1 DEF FirstOf
<1>5. ASSUME NEW e \in FirstOf(q, i) .. Last(q[i])  PROVE e \in ToSet(q[i])
  <2> DEFINE j == e - FirstOf(q, i) + 1
  <2>1. j \in 1 .. Len(q[i]) /\ FirstOf(q, i) + j - 1 = e
    BY <1>1, <1>2, <1>3
  <2>2. q[i][j] = e /\ j \in DOMAIN q[i]
    BY <1>1, <2>1, SMTT(40)
  <2> QED BY <2>2 DEF ToSet
<1> QED BY <1>1, <1>2, <1>3, <1>4, <1>5

\* A set of numbers that is not empty has a least element.
LEMMA LeastNumber ==
  ASSUME NEW T \in SUBSET Nat, T # {}
  PROVE \E x \in T : \A y \in T : x <= y
<1> DEFINE R == OpToRel(<, Nat)
<1>1. IsWellFoundedOn(R, Nat)
  BY NatLessThanWellFounded
<1>2. \A x, y \in Nat : <<y, x>> \in R <=> y < x
  BY DEF OpToRel
<1> HIDE DEF R
<1>3. PICK x \in T : \A y \in T : ~(<<y, x>> \in R)
  BY <1>1, WFMin
<1>4. ASSUME NEW y \in T  PROVE x <= y
  <2>1. x \in Nat /\ y \in Nat /\ ~(<<y, x>> \in R)
    BY <1>3
  <2>2. ~(y < x)
    BY <1>2, <2>1
  <2> QED BY <2>1, <2>2
<1> QED BY <1>4

\* Induction, for a set of numbers.
LEMMA Counting ==
  ASSUME NEW S \in SUBSET Nat, 0 \in S, \A n \in S : n + 1 \in S
  PROVE  S = Nat
<1> SUFFICES ASSUME Nat \ S # {} PROVE FALSE
  OBVIOUS
<1>1. PICK x \in Nat \ S : \A y \in Nat \ S : x <= y
  BY LeastNumber
<1>2. x # 0
  OBVIOUS
<1>3. x - 1 \in S
  BY <1>1, <1>2
<1> QED BY <1>3

\* The events 1 .. a in order, as a sequence.
LEMMA UptoIs ==
  ASSUME NEW a \in Nat
  PROVE  Upto(a) \in Seq(Nat) /\ Len(Upto(a)) = a /\ \A j \in 1 .. a : Upto(a)[j] = j
BY DEF Upto

\* The events that go on where Upto(a) ends.
LEMMA UptoConcat ==
  ASSUME NEW a \in Nat, NEW s \in Seq(Nat), \A j \in 1 .. Len(s) : s[j] = a + j
  PROVE  Upto(a) \o s = Upto(a + Len(s))
<1> DEFINE c == Upto(a) \o s
           l == Len(s)
<1>1. Upto(a) \in Seq(Nat) /\ Len(Upto(a)) = a /\ \A j \in 1 .. a : Upto(a)[j] = j
  BY UptoIs
<1>2. /\ c \in Seq(Nat) /\ Len(c) = a + l
      /\ \A j \in 1 .. a + l : c[j] = IF j <= a THEN Upto(a)[j] ELSE s[j - a]
  <2> DEFINE u == Upto(a)
  <2>1. u \in Seq(Nat) /\ Len(u) = a
    BY <1>1
  <2> HIDE DEF u
  <2>2. /\ u \o s \in Seq(Nat) /\ Len(u \o s) = Len(u) + Len(s)
        /\ \A j \in 1 .. Len(u) + Len(s) :
             (u \o s)[j] = IF j <= Len(u) THEN u[j] ELSE s[j - Len(u)]
    BY <2>1, ConcatProperties, Zenon
  <2>3. /\ u \o s \in Seq(Nat) /\ Len(u \o s) = a + Len(s)
        /\ \A j \in 1 .. a + Len(s) :
             (u \o s)[j] = IF j <= a THEN u[j] ELSE s[j - a]
    BY <2>1, <2>2, Zenon
  <2> QED BY <2>3, Zenon DEF u
<1>3. l \in Nat /\ \A j \in 1 .. l : s[j] = a + j
  OBVIOUS
<1>4. /\ Upto(a + l) \in Seq(Nat) /\ Len(Upto(a + l)) = a + l
      /\ \A j \in 1 .. a + l : Upto(a + l)[j] = j
  <2>1. a + l \in Nat
    BY <1>3
  <2> QED BY <2>1, UptoIs
<1> HIDE DEF c, l
<1>5. ASSUME NEW j \in 1 .. a + l  PROVE c[j] = j
  <2>1. CASE j \in 1 .. a
    BY <1>1, <1>2, <1>3, <2>1
  <2>2. CASE j - a \in 1 .. l
    <3>1. s[j - a] = a + (j - a) /\ ~(j <= a)
      BY <1>3, <2>2
    <3> QED BY <1>2, <1>3, <3>1
  <2> QED BY <1>3, <2>1, <2>2
<1>6. c = Upto(a + l)
  BY <1>2, <1>3, <1>4, <1>5, SeqEqual
<1> QED BY <1>6 DEF c, l

\* The buffers of a run, one after the other, are the events 1 .. n.
LEMMA RunFlatten ==
  ASSUME NEW q \in Seq(Seq(Events)), NEW n \in Nat, IsRun(q, n)
  PROVE  FlattenSeq(q) = Upto(n)
<1> DEFINE m == Len(q)
           end(i) == FirstOf(q, i) + Len(q[i]) - 1
           U == [i \in 1 .. m |-> Upto(end(i))]
           isFlat(g) == g = [i \in 1 .. m |-> IF i = 1 THEN q[i] ELSE g[i - 1] \o q[i]]
<1>1. /\ m \in Nat \ {0} /\ m \in 1 .. m /\ n = end(m)
      /\ \A i \in 1 .. m : q[i] \in Seq(Events) /\ Len(q[i]) \in Nat
      /\ \A i \in 1 .. m : FirstOf(q, i) \in Nat \ {0} /\ end(i) \in Nat
      /\ \A i \in 1 .. m : \A j \in 1 .. Len(q[i]) : q[i][j] = FirstOf(q, i) + j - 1
  BY LastBuffer, SMTT(40) DEF IsRun
<1>2. ASSUME NEW i \in 1 .. m, i # 1 
      PROVE i - 1 \in 1 .. m /\ FirstOf(q, i) = end(i - 1) + 1
  <2>1. i - 1 \in 1 .. m /\ i - 1 # m /\ i - 1 + 1 = i
    BY <1>1, <1>2
  <2>2. q[i - 1] # <<>>
    BY <2>1 DEF IsRun
  <2> QED BY <2>1, <2>2, RunFacts
<1>3. ASSUME NEW i \in 1 .. m
      PROVE  Upto(end(i)) = IF i = 1 THEN q[i] ELSE Upto(end(i - 1)) \o q[i]
  <2>1. CASE i = 1
    <3>1. FirstOf(q, i) = 1
      BY <2>1 DEF FirstOf
    <3>2. end(i) = Len(q[i]) /\ q[i] \in Seq(Events)
      BY <1>1, <3>1
    <3>3. \A j \in 1 .. Len(q[i]) : q[i][j] = j
      BY <1>1, <3>1
    <3>4. q[i] = [j \in 1 .. Len(q[i]) |-> q[i][j]]
      BY <3>2
    <3> QED BY <2>1, <3>2, <3>3, <3>4 DEF Upto
  <2>2. CASE i # 1
    <3>1. i - 1 \in 1 .. m /\ FirstOf(q, i) = end(i - 1) + 1
      BY <1>2, <2>2
    <3>2. end(i - 1) \in Nat /\ FirstOf(q, i) \in Nat /\ Len(q[i]) \in Nat
      BY <1>1, <3>1
    <3>3. q[i] \in Seq(Nat)
      <4>1. q[i] \in Seq(Events) /\ Events \subseteq Nat
        BY <1>1 DEF Events
      <4> QED BY <4>1, SeqMonotonic
    <3>4. end(i) = FirstOf(q, i) + Len(q[i]) - 1
      OBVIOUS
    <3>5. \A j \in 1 .. Len(q[i]) : q[i][j] = FirstOf(q, i) + j - 1
      BY <1>1
    <3> HIDE DEF end
    <3>a. PICK a \in Nat : a = end(i - 1)
      BY <3>2
    <3>l. PICK l \in Nat : l = Len(q[i])
      BY <3>2
    <3>6. FirstOf(q, i) = a + 1 /\ end(i) = a + l
      BY <3>1, <3>4, <3>a, <3>l, SMTT(40)
    <3>7. \A j \in 1 .. l : q[i][j] = a + j
      BY <3>5, <3>6, <3>l
    <3>8. Upto(end(i - 1)) \o q[i] = Upto(end(i))
      BY <3>3, <3>6, <3>7, <3>a, <3>l, UptoConcat
    <3> QED BY <2>2, <3>8
  <2> QED BY <2>1, <2>2
<1> HIDE DEF end
<1>4. isFlat(U)
  BY <1>2, <1>3
<1>5. ASSUME NEW g, isFlat(g)
      PROVE  g[m] = Upto(n)
  <2> DEFINE S == {k \in Nat : k + 1 \in 1 .. m => g[k + 1] = Upto(end(k + 1))}
  <2>1. \A i \in 1 .. m : g[i] = IF i = 1 THEN q[i] ELSE g[i - 1] \o q[i]
    BY <1>5
  <2> HIDE DEF isFlat
  <2>2. 0 \in S
    <3>1. 0 + 1 = 1 /\ 1 \in 1 .. m
      BY <1>1
    <3>2. Upto(end(1)) = q[1] /\ g[1] = q[1]
      BY <1>3, <2>1, <3>1
    <3> QED BY <3>1, <3>2
  <2>3. ASSUME NEW k \in S  PROVE k + 1 \in S
    <3>1. k \in Nat /\ (k + 1 \in 1 .. m => g[k + 1] = Upto(end(k + 1)))
      OBVIOUS
    <3> HIDE DEF S
    <3>2. ASSUME k + 1 + 1 \in 1 .. m
          PROVE  g[k + 1 + 1] = Upto(end(k + 1 + 1))
      <4> DEFINE i == k + 1 + 1
      <4>1. k + 1 \in 1 .. m /\ i # 1 /\ i - 1 = k + 1 /\ i \in 1 .. m
        BY <3>1, <3>2, <1>1
      <4> HIDE DEF i
      <4>2. g[i] = g[k + 1] \o q[i]
        BY <2>1, <4>1
      <4>3. Upto(end(i)) = Upto(end(k + 1)) \o q[i]
        BY <1>3, <4>1
      <4>4. g[i] = Upto(end(i))
        BY <3>1, <4>1, <4>2, <4>3
      <4> QED BY <4>4 DEF i
    <3> QED BY <3>1, <3>2 DEF S
  <2>4. S \in SUBSET Nat
    OBVIOUS
  <2> HIDE DEF S
  <2>5. S = Nat
    BY <2>2, <2>3, <2>4, Counting
  <2>6. m - 1 \in Nat /\ m - 1 + 1 = m
    BY <1>1
  <2> QED BY <1>1, <2>5, <2>6 DEF S
<1>6. PICK g : isFlat(g) /\ FlattenSeq(q) = g[m]
  <2> DEFINE h == CHOOSE g : isFlat(g)
  <2>1. isFlat(h)
    BY <1>4
  <2>2. FlattenSeq(q) = h[m]
    BY <1>1 DEF FlattenSeq
  <2> QED BY <2>1, <2>2
<1> QED BY <1>5, <1>6

-----------------------------------------------------------------------------
\* What the actions do, given the invariant.

USE DEF Set, queue, gatherer, processor, storing, listening, flushing, stopping,
        history, vars

\* What the invariant says of a partition, in the form its users need.
LEMMA PartFacts ==
  ASSUME PipeInv, NEW p \in Partitions
  PROVE  /\ TypeOK /\ Flow(p) /\ Sizes(p) /\ Flushed(p)
         /\ Stored(p) \in Nat /\ acked[p] \in Nat /\ acked[p] <= Stored(p)
         /\ Stored(p) <= taken[p] /\ taken[p] \in 0 .. MaxEvents
         /\ batches[p] \in Seq(Seq(Events)) /\ IsRun(batches[p], Stored(p))
         /\ Current(p) \in Nat \ {0} /\ Current(p) = Len(batches[p])
         /\ Buffer(p) \in Seq(Events) /\ Len(Buffer(p)) \in Nat
         /\ Buffer(p) = batches[p][Current(p)]
<1>1. TypeOK /\ Flow(p) /\ Sizes(p) /\ Flushed(p) /\ acked[p] <= Stored(p)
  BY DEF PipeInv
<1>2. taken[p] \in 0 .. MaxEvents /\ acked[p] \in 0 .. MaxEvents
  BY <1>1 DEF TypeOK
<1>3. Stored(p) \in Int /\ Stored(p) <= taken[p]
  BY <1>2 DEF Stored, One
<1>4. batches[p] \in Seq(Seq(Events)) /\ batches[p] # <<>>
  BY <1>1 DEF TypeOK
<1>5. Current(p) \in Nat \ {0} /\ Buffer(p) \in Seq(Events) /\ Len(Buffer(p)) \in Nat
  BY <1>4, LastBuffer DEF Current, Buffer
<1> QED BY <1>1, <1>2, <1>3, <1>4, <1>5, PipeAssumption DEF Flow, Current, Buffer

\* Add appends the event store holds, which is the next of the run.
LEMMA AddDoes ==
  ASSUME PipeInv, NEW p \in Partitions, Add(p),
         NEW q, q = batches[p], NEW m, m = Current(p), NEW r, r = batches'[p]
  PROVE  /\ spc[p] = "add" /\ sev[p] = Stored(p) + 1 /\ sev[p] \in Events
         /\ batches' \in [Partitions -> Seq(Seq(Events))]
         /\ \A s \in Partitions : s # p => batches'[s] = batches[s]
         /\ r \in Seq(Seq(Events)) /\ Len(r) = m /\ IsRun(r, Stored(p) + 1)
         /\ \A i \in 1 .. m : FirstOf(r, i) = FirstOf(q, i)
         /\ \A i \in 1 .. m - 1 : r[i] = q[i]
         /\ Len(r[m]) = Len(q[m]) + 1
         /\ Len(r[m]) <= MaxBufferSize
         /\ spc' = Set(spc, p, IF Len(r[m]) = MaxBufferSize THEN "send" ELSE "top")
<1>1. /\ TypeOK /\ Flow(p) /\ Sizes(p) /\ q \in Seq(Seq(Events))
      /\ IsRun(q, Stored(p)) /\ Stored(p) \in Nat
      /\ m \in Nat \ {0} /\ m = Len(q) /\ q[m] \in Seq(Events) /\ Len(q[m]) \in Nat
      /\ Buffer(p) = q[m]
  BY PartFacts
<1>2. spc[p] = "add"
  BY DEF Add
<1>3. sev[p] = Stored(p) + 1 /\ sev[p] \in Events
  BY <1>1, <1>2 DEF Flow, TypeOK, NoEvent
<1>4. Len(q[m]) < MaxBufferSize
  BY <1>1, <1>2 DEF Sizes
<1>0. PICK n \in Nat : n = Stored(p)
  BY <1>1
<1> DEFINE t == [q EXCEPT ![Len(q)] = Append(@, n + 1)]
<1>a. Len(Buffer(p)) # MaxBufferSize
  BY <1>1, <1>4, PipeAssumption
<1>b. /\ batches' = [batches EXCEPT ![p][Current(p)] = Append(Buffer(p), sev[p])]
      /\ spc' = Set(spc, p, IF Len(Append(Buffer(p), sev[p])) = MaxBufferSize
                            THEN "send" ELSE "top")
  BY <1>a DEF Add
<1>5. batches' = [batches EXCEPT ![p] = t]
  BY <1>0, <1>1, <1>3, <1>b DEF TypeOK
<1>6. r = t /\ t[m] = Append(q[m], sev[p])
  BY <1>0, <1>1, <1>3, <1>5 DEF TypeOK
<1>7. /\ t \in Seq(Seq(Events)) /\ Len(t) = Len(q) /\ IsRun(t, n + 1)
      /\ \A i \in 1 .. Len(q) : FirstOf(t, i) = FirstOf(q, i)
      /\ \A i \in 1 .. Len(q) - 1 : t[i] = q[i]
      /\ Len(t[Len(q)]) = Len(q[Len(q)]) + 1
  <2>1. q \in Seq(Seq(Events)) /\ IsRun(q, n) /\ n + 1 \in Events
    BY <1>0, <1>1, <1>3
  <2> QED BY <2>1, RunAdd, ZenonT(40)
<1>8. spc' = Set(spc, p, IF Len(t[m]) = MaxBufferSize THEN "send" ELSE "top")
  BY <1>1, <1>6, <1>b
<1> HIDE DEF t
<1>9. /\ batches' \in [Partitions -> Seq(Seq(Events))]
      /\ \A s \in Partitions : s # p => batches'[s] = batches[s]
  BY <1>1, <1>5, <1>7 DEF TypeOK
<1>10. Len(r[m]) = Len(q[m]) + 1 /\ Len(r[m]) <= MaxBufferSize
  BY <1>1, <1>4, <1>6, <1>7, PipeAssumption
<1> QED BY <1>0, <1>1, <1>2, <1>3, <1>6, <1>7, <1>8, <1>9, <1>10

\* Renew begins a buffer after one that is not empty.
LEMMA RenewDoes ==
  ASSUME PipeInv, NEW p \in Partitions, Renew(p),
         NEW q, q = batches[p], NEW m, m = Current(p), NEW r, r = batches'[p]
  PROVE  /\ spc[p] = "renew" /\ q[m] # <<>>
         /\ batches' \in [Partitions -> Seq(Seq(Events))]
         /\ \A s \in Partitions : s # p => batches'[s] = batches[s]
         /\ r \in Seq(Seq(Events)) /\ Len(r) = m + 1 /\ IsRun(r, Stored(p))
         /\ \A i \in 1 .. m + 1 : FirstOf(r, i) = FirstOf(q, i)
         /\ \A i \in 1 .. m : r[i] = q[i]
         /\ r[m + 1] = <<>> /\ FirstOf(r, m + 1) = Stored(p) + 1
<1>1. /\ TypeOK /\ Sizes(p) /\ q \in Seq(Seq(Events))
      /\ IsRun(q, Stored(p)) /\ Stored(p) \in Nat
      /\ m \in Nat \ {0} /\ m = Len(q) /\ q[m] \in Seq(Events) /\ Len(q[m]) \in Nat
      /\ Buffer(p) = q[m]
  BY PartFacts
<1>2. spc[p] = "renew"
  BY DEF Renew
<1>3. q[m] # <<>>
  BY <1>1, <1>2, EmptySeq DEF Sizes
<1> DEFINE t == Append(q, <<>>)
<1>4. batches' = [batches EXCEPT ![p] = t]
  BY DEF Renew
<1>5. /\ t \in Seq(Seq(Events)) /\ Len(t) = Len(q) + 1 /\ IsRun(t, Stored(p))
      /\ \A i \in 1 .. Len(q) : FirstOf(t, i) = FirstOf(q, i)
      /\ \A i \in 1 .. Len(q) : t[i] = q[i]
      /\ t[Len(q) + 1] = <<>>
      /\ FirstOf(t, Len(q) + 1) = Stored(p) + 1
  BY <1>1, <1>3, RunRenew
<1> HIDE DEF t
<1>6. /\ batches' \in [Partitions -> Seq(Seq(Events))] /\ r = t
      /\ \A s \in Partitions : s # p => batches'[s] = batches[s]
  BY <1>1, <1>4, <1>5 DEF TypeOK
<1>7. FirstOf(q, m + 1) = Stored(p) + 1
  <2>1. m \in 1 .. Len(q)
    BY <1>1
  <2>2. FirstOf(q, m + 1) = Last(q[m]) + 1 /\ Last(q[m]) = FirstOf(q, m) + Len(q[m]) - 1
    BY <1>1, <1>3, <2>1, RunFacts
  <2>3. Stored(p) = FirstOf(q, m) + Len(q[m]) - 1
    BY <1>1 DEF IsRun
  <2> QED BY <2>2, <2>3
<1>8. \A i \in 1 .. m + 1 : i = m + 1 \/ i \in 1 .. m
  BY <1>1
<1> QED BY <1>1, <1>2, <1>3, <1>5, <1>6, <1>7, <1>8

\* What an attempt changes in the running call of c.
LEMMA CallMoves ==
  ASSUME TypeOK, NEW c \in Consumers
  PROVE  /\ NextForwarder(c) \in [Consumers -> CallType]
         /\ NextForwarder(c) =
              [call EXCEPT ![c] = [call[c] EXCEPT !.f = call[c].f + 1, !.n = 1]]
         /\ [call EXCEPT ![c].n = @ + 1] \in [Consumers -> CallType]
         /\ [call EXCEPT ![c].n = @ + 1] =
              [call EXCEPT ![c] = [call[c] EXCEPT !.n = call[c].n + 1]]
<1>1. call \in [Consumers -> CallType] /\ call[c] \in CallType
  BY DEF TypeOK
<1>2. [call[c] EXCEPT !.f = call[c].f + 1, !.n = 1] \in CallType
  <2>1. PICK r \in CallType : r = call[c]
    BY <1>1
  <2>2. r.f + 1 \in Nat
    BY DEF CallType
  <2>3. [r EXCEPT !.f = r.f + 1] \in CallType
    BY <2>2 DEF CallType
  <2>4. PICK u \in CallType : u = [r EXCEPT !.f = r.f + 1]
    BY <2>3
  <2>5. [u EXCEPT !.n = 1] \in CallType
    BY DEF CallType
  <2>6. [r EXCEPT !.f = r.f + 1, !.n = 1] = [u EXCEPT !.n = 1]
    BY <2>4
  <2> QED BY <2>1, <2>5, <2>6
<1>3. [call[c] EXCEPT !.n = call[c].n + 1] \in CallType
  BY <1>1 DEF CallType
<1>4. NextForwarder(c) =
              [call EXCEPT ![c] = [call[c] EXCEPT !.f = call[c].f + 1, !.n = 1]]
  BY <1>1 DEF NextForwarder
<1>5. [call EXCEPT ![c].n = @ + 1] =
              [call EXCEPT ![c] = [call[c] EXCEPT !.n = call[c].n + 1]]
  BY <1>1
<1> QED BY <1>1, <1>2, <1>3, <1>4, <1>5

\* What is forwarded are events.
LEMMA BatchType ==
  ASSUME TypeOK, NEW c \in Consumers
  PROVE BatchEvents(c) \in SUBSET Events
BY DEF TypeOK, BatchEvents, CallType

\* The call a flush or drain goroutine begins.
LEMMA NewCallType ==
  ASSUME PipeInv, NEW p \in Partitions, NEW c \in Consumers
  PROVE  /\ NewCall(p, Current(p)) \in CallType
         /\ Set(call, c, NewCall(p, Current(p))) \in [Consumers -> CallType]
<1>1. /\ Current(p) \in Nat /\ Buffer(p) \in Seq(Events)
      /\ Buffer(p) = batches[p][Current(p)] /\ TypeOK
  BY PartFacts
<1>2. ToSet(batches[p][Current(p)]) \in SUBSET Events
  BY <1>1 DEF ToSet
<1>3. NewCall(p, Current(p)) \in CallType
  BY <1>1, <1>2 DEF NewCall, CallType
<1> QED BY <1>1, <1>3 DEF TypeOK

\* consume returns from a call that is running, on a buffer that is not empty;
\* its last event is one the buffers hold.
LEMMA AckDoes ==
  ASSUME PipeInv, NEW c \in Consumers, Ack(c),
         NEW p, p = call[c].part, NEW i, i = call[c].i
  PROVE  /\ p \in Partitions /\ Running(c) /\ call[c].f = Len(Forwarders) + 1
         /\ i \in 1 .. Current(p) /\ batches[p][i] # <<>>
         /\ Last(batches[p][i]) \in 1 .. Stored(p)
         /\ Last(batches[p][i]) \in 0 .. MaxEvents
         /\ acked' = IF closed THEN acked ELSE Set(acked, p, Last(batches[p][i]))
<1>1. /\ call[c].f = Len(Forwarders) + 1 /\ TypeOK /\ (Running(c) \/ Idle(c))
      /\ acked' = IF closed THEN acked ELSE Set(acked, p, Last(batches[p][i]))
  BY DEF Ack, Return, PipeInv
<1>2. call[c] # NoCall
  <2>1. Len(Forwarders) \in Nat
    BY PipeAssumption
  <2>2. NoCall.f = 0
    BY DEF NoCall
  <2> QED BY <1>1, <2>1, <2>2
<1>3. Running(c) /\ p \in Partitions
  BY <1>1, <1>2 DEF Idle, TypeOK, CallType
<1>4. i \in 1 .. Current(p) /\ Len(batches[p][i]) > 0
  BY <1>3 DEF Running
<1>5. /\ batches[p] \in Seq(Seq(Events)) /\ IsRun(batches[p], Stored(p))
      /\ Stored(p) \in Nat /\ Stored(p) <= taken[p] /\ taken[p] \in 0 .. MaxEvents
      /\ Current(p) = Len(batches[p])
  BY <1>3, PartFacts
<1>6. batches[p][i] # <<>>
  BY <1>4
<1>7. Last(batches[p][i]) \in 1 .. Stored(p)
  <2>1. /\ Len(batches[p][i]) \in Nat \ {0} /\ FirstOf(batches[p], i) \in Nat \ {0}
        /\ Last(batches[p][i]) = FirstOf(batches[p], i) + Len(batches[p][i]) - 1
        /\ Last(batches[p][i]) <= Stored(p)
    BY <1>4, <1>5, <1>6, RunFacts
  <2>2. Stored(p) \in Nat
    BY <1>5
  <2> QED BY <2>1, <2>2, SMTT(40)
<1>8. Last(batches[p][i]) \in 0 .. MaxEvents
  BY <1>5, <1>7, PipeAssumption
<1> QED BY <1>1, <1>3, <1>4, <1>6, <1>7, <1>8

-----------------------------------------------------------------------------
\* Types.

\* Every step keeps the types.
LEMMA TypeStep ==
  ASSUME PipeInv, Next
  PROVE  TypeOK'
<1> USE PipeAssumption DEF NoEvent
<1>t. TypeOK
  BY DEF PipeInv
<1> USE <1>t
<1>1. CASE EnqueueDone \/ ListenDone \/ Cancel
  BY <1>1, ZenonT(40) DEF TypeOK, EnqueueDone, ListenDone, Cancel
<1>2. CASE Listen
  <2>1. blocking' \in BOOLEAN
    BY <1>2 DEF Listen
  <2> QED BY <1>2, <2>1 DEF TypeOK, Listen
<1>3. ASSUME NEW p \in Partitions, Receive(p)  PROVE TypeOK'
  <2>1. enqueued[p] + 1 \in 0 .. MaxEvents
    BY <1>3 DEF TypeOK, Receive
  <2> QED BY <1>3, <2>1 DEF TypeOK, Receive
<1>4. ASSUME NEW p \in Partitions, Gather(p)  PROVE TypeOK'
  <2>1. CASE StartConsumer(p)
    BY <2>1 DEF TypeOK, StartConsumer
  <2>2. CASE Dequeue(p)
    <3>1. taken[p] + 1 \in 0 .. MaxEvents /\ taken[p] + 1 \in Events
      BY <2>2 DEF TypeOK, Dequeue, Events
    <3> QED BY <2>2, <3>1 DEF TypeOK, Dequeue
  <2>3. CASE CloseQueue(p)
    BY <2>3 DEF TypeOK, CloseQueue
  <2> QED BY <1>4, <2>1, <2>2, <2>3 DEF Gather
<1>5. ASSUME NEW p \in Partitions, Process(p)  PROVE TypeOK'
  <2>1. CASE Output(p)
    BY <2>1 DEF TypeOK, Output
  <2>2. CASE ProcessDone(p)
    BY <2>2 DEF TypeOK, ProcessDone
  <2>3. CASE SendPanics(p)
    <3>1. NoCall \in CallType
      BY DEF CallType, NoCall, Partitions
    <3>2. call' \in [Consumers -> CallType]
      BY <2>3, <3>1 DEF SendPanics
    <3> QED BY <2>3, <3>2 DEF TypeOK, SendPanics
  <2> QED BY <1>5, <2>1, <2>2, <2>3 DEF Process
<1>6. ASSUME NEW p \in Partitions, Store(p)  PROVE TypeOK'
  <2>1. CASE CheckBlocking(p)
    BY <2>1 DEF TypeOK, CheckBlocking
  <2>2. CASE Input(p)
    BY <2>2 DEF TypeOK, Input
  <2>3. CASE Add(p)
    <3>1. /\ batches' \in [Partitions -> Seq(Seq(Events))]
          /\ \A q \in Partitions : q # p => batches'[q] = batches[q]
          /\ batches'[p] # <<>>
          /\ spc' \in [Partitions -> {"top", "select", "add", "send", "renew",
                                      "exit", "dead"}]
      <4>1. /\ batches' \in [Partitions -> Seq(Seq(Events))]
            /\ \A q \in Partitions : q # p => batches'[q] = batches[q]
            /\ Len(batches'[p]) = Current(p) /\ Current(p) \in Nat \ {0}
        BY <2>3, AddDoes, PartFacts
      <4>2. batches'[p] # <<>>
        BY <4>1
      <4>3. spc' \in [Partitions -> {"top", "select", "add", "send", "renew",
                                     "exit", "dead"}]
        BY <2>3 DEF TypeOK, Add
      <4> QED BY <4>1, <4>2, <4>3
    <3>2. \A q \in Partitions : batches'[q] # <<>>
      BY <3>1 DEF TypeOK
    <3>3. UNCHANGED <<queue, gatherer, processor, listening, flushing, stopping,
                      history>> /\ sev' = Set(sev, p, NoEvent)
      BY <2>3 DEF Add
    <3> QED BY <3>1, <3>2, <3>3, SMTT(40) DEF TypeOK
  <2>4. CASE Tick(p)
    BY <2>4, SMTT(40) DEF TypeOK, Tick
  <2>5. CASE InputClosed(p)
    BY <2>5 DEF TypeOK, InputClosed
  <2>6. CASE StoreDone(p)
    BY <2>6 DEF TypeOK, StoreDone
  <2>7. CASE Renew(p)
    <3>1. /\ batches' \in [Partitions -> Seq(Seq(Events))]
          /\ \A q \in Partitions : q # p => batches'[q] = batches[q]
          /\ Len(batches'[p]) = Current(p) + 1 /\ Current(p) \in Nat \ {0}
      BY <2>7, RenewDoes, PartFacts, SMTT(40)
    <3>2. batches'[p] # <<>>
      BY <3>1
    <3>3. \A q \in Partitions : batches'[q] # <<>>
      BY <3>1, <3>2 DEF TypeOK
    <3>4. UNCHANGED <<queue, gatherer, processor, sev, listening, flushing,
                      stopping, history>> /\ spc' = Set(spc, p, "top")
      BY <2>7 DEF Renew
    <3> QED BY <3>1, <3>3, <3>4, SMTT(40) DEF TypeOK
  <2> QED BY <1>6, <2>1, <2>2, <2>3, <2>4, <2>5, <2>6, <2>7 DEF Store
<1>7. ASSUME NEW p \in Partitions, Flushing(p)  PROVE TypeOK'
  <2>0. Flusher(p) \in Consumers /\ Drainer(p) \in Consumers
    BY DEF Flusher, Drainer, Consumers
  <2>1. CASE Flush(p)
    <3>1. call' \in [Consumers -> CallType]
      BY <2>0, <2>1, NewCallType DEF Flush
    <3> QED BY <2>1, <3>1 DEF TypeOK, Flush
  <2>2. CASE FlushDone(p)
    BY <2>2, ZenonT(40) DEF TypeOK, FlushDone
  <2>3. CASE Drain(p)
    <3>1. call' \in [Consumers -> CallType]
      BY <2>0, <2>3, NewCallType, ZenonT(40) DEF Drain, TypeOK
    <3> QED BY <2>3, <3>1, ZenonT(40) DEF TypeOK, Drain
  <2>4. CASE DrainTimeout(p)
    BY <2>4, SMTT(40) DEF TypeOK, DrainTimeout
  <2>5. CASE DrainAgain(p)
    <3>1. call' \in [Consumers -> CallType]
      BY <2>0, <2>5, NewCallType DEF DrainAgain, TypeOK
    <3>2. again' \in [Partitions -> 0 .. PartitionCount]
      <4>1. again[p] + 1 \in 0 .. PartitionCount
        BY <2>5 DEF DrainAgain, Partitions
      <4> QED BY <2>5, <4>1 DEF TypeOK, DrainAgain
    <3>3. UNCHANGED <<queue, gatherer, processor, storing, listening, fpc, dpc,
                      once, stopping, history>>
      BY <2>5 DEF DrainAgain
    <3> QED BY <3>1, <3>2, <3>3 DEF TypeOK
  <2>6. CASE ShutdownDone(p)
    BY <2>6 DEF TypeOK, ShutdownDone
  <2>7. CASE OnceReturns(p)
    BY <2>7 DEF TypeOK, OnceReturns
  <2> QED BY <1>7, <2>1, <2>2, <2>3, <2>4, <2>5, <2>6, <2>7 DEF Flushing
<1>8. ASSUME NEW c \in Consumers, Consume(c)  PROVE TypeOK'
  <2>0. call[c].part \in Partitions
    BY DEF TypeOK, CallType
  <2>1. CASE Forward(c)
    <3>1. call' \in [Consumers -> CallType]
      BY <2>1, CallMoves DEF Forward
    <3>2. sent' \in [Partitions -> SUBSET Events]
      BY <2>0, <2>1, BatchType DEF Forward, TypeOK
    <3> QED BY <2>1, <3>1, <3>2 DEF TypeOK, Forward
  <2>2. CASE FallBack(c)
    <3>1. call' \in [Consumers -> CallType]
      BY <2>2, CallMoves DEF FallBack
    <3> QED BY <2>2, <3>1 DEF TypeOK, FallBack
  <2>3. CASE GiveUp(c)
    <3>1. call' \in [Consumers -> CallType]
      BY <2>3, CallMoves DEF GiveUp
    <3>2. failed' \in [Partitions -> SUBSET Events]
      BY <2>0, <2>3, BatchType DEF GiveUp, TypeOK
    <3> QED BY <2>3, <3>1, <3>2, SMTT(40) DEF TypeOK, GiveUp
  <2>4. CASE Ack(c)
    <3>1. acked' \in [Partitions -> 0 .. MaxEvents]
      <4> DEFINE o == Last(batches[call[c].part][call[c].i])
      <4>1. o \in 0 .. MaxEvents
            /\ acked' = IF closed THEN acked ELSE Set(acked, call[c].part, o)
        BY <2>4, AckDoes
      <4> HIDE DEF o
      <4> QED BY <2>0, <4>1 DEF TypeOK
    <3>2. call' \in [Consumers -> CallType]
      <4>1. NoCall \in CallType
        BY DEF CallType, NoCall, Partitions
      <4> QED BY <2>4, <4>1 DEF TypeOK, Ack, Return
    <3>3. /\ fpc' \in [Partitions -> {"select", "consume", "wait", "again", "once",
                                      "exit", "dead"}]
          /\ dpc' \in [Partitions -> {"none", "start", "consume", "done", "dead"}]
      BY <2>4 DEF TypeOK, Ack, Return
    <3>4. again' \in [Partitions -> 0 .. PartitionCount]
      <4>1. Running(c) /\ c[2] \in Partitions
        BY <2>4, AckDoes DEF Consumers
      <4>2. CASE c[1] = "flush" /\ fpc[c[2]] # "consume"
        <5>1. again[c[2]] + 1 \in 0 .. PartitionCount
          BY <4>1, <4>2 DEF Running, Partitions
        <5> QED BY <2>4, <4>1, <4>2, <5>1 DEF TypeOK, Ack, Return
      <4>3. CASE ~(c[1] = "flush" /\ fpc[c[2]] # "consume")
        BY <2>4, <4>3 DEF TypeOK, Ack, Return
      <4> QED BY <4>2, <4>3
    <3>5. UNCHANGED <<enqueued, taken, closed, gatherer, processor, storing,
                      listening, once, stopping, history>>
      BY <2>4 DEF Ack, Return
    <3> QED BY <3>1, <3>2, <3>3, <3>4, <3>5, SMTT(40) DEF TypeOK
  <2> QED BY <1>8, <2>1, <2>2, <2>3, <2>4 DEF Consume
<1> QED BY <1>1, <1>2, <1>3, <1>4, <1>5, <1>6, <1>7, <1>8 DEF Next

-----------------------------------------------------------------------------
\* The events between the queue and the buffers.

\* A step that moves no event of partition q, and leaves its goroutines where
\* an event is not in their hands.
FlowSame(q) ==
  /\ taken'[q] = taken[q] /\ batches'[q] = batches[q]
  /\ hand'[q] = hand[q] /\ work'[q] = work[q] /\ sev'[q] = sev[q]
  /\ gpc'[q] \in {gpc[q], "dead"} \/ (hand[q] = NoEvent /\ gpc'[q] # "send")
  /\ ppc'[q] \in {ppc[q], "dead"} \/ (work[q] = NoEvent /\ ppc'[q] # "send")
  /\ spc'[q] \in {spc[q], "dead"} \/ (sev[q] = NoEvent /\ spc'[q] # "add")

\* Such a step keeps Flow.
LEMMA FlowFrame ==
  ASSUME NEW q, Flow(q), FlowSame(q)
  PROVE  Flow(q)' /\ Stored(q)' = Stored(q)
BY DEF Flow, FlowSame, Stored

\* Every step keeps Flow, and takes no event out of the buffers.
LEMMA FlowStep ==
  ASSUME PipeInv, Next, NEW q \in Partitions
  PROVE  Flow(q)' /\ Stored(q)' >= Stored(q)
<1>t. TypeOK /\ Flow(q) /\ Stored(q) \in Nat
  BY PartFacts
<1>f. ASSUME FlowSame(q)  PROVE Flow(q)' /\ Stored(q)' >= Stored(q)
  BY <1>t, <1>f, FlowFrame
<1>1. CASE EnqueueDone \/ Listen \/ ListenDone \/ Cancel
  BY <1>1, <1>f DEF FlowSame, EnqueueDone, Listen, ListenDone, Cancel
<1>2. ASSUME NEW p \in Partitions, Receive(p)  PROVE FlowSame(q)
  BY <1>2 DEF FlowSame, Receive
<1>3. ASSUME NEW c \in Consumers, Consume(c)  PROVE FlowSame(q)
  BY <1>3 DEF FlowSame, Consume, Forward, FallBack, GiveUp, Ack, Return
<1>4. ASSUME NEW p \in Partitions, Flushing(p)  PROVE FlowSame(q)
  <2>1. CASE Flush(p)
    BY <1>t, <2>1 DEF FlowSame, Flush, Flow, TypeOK
  <2> QED BY <1>4, <2>1
          DEF FlowSame, Flushing, FlushDone, Drain, DrainTimeout, DrainAgain,
              ShutdownDone, OnceReturns
<1>5. ASSUME NEW p \in Partitions, Gather(p), ~(q = p /\ Dequeue(p))
      PROVE  FlowSame(q)
  <2>1. CASE StartConsumer(p)
    BY <1>t, <2>1 DEF FlowSame, StartConsumer, Flow, TypeOK
  <2>2. CASE Dequeue(p)
    BY <1>t, <1>5, <2>2 DEF FlowSame, Dequeue, Flow, TypeOK
  <2>3. CASE CloseQueue(p)
    BY <1>t, <2>3 DEF FlowSame, CloseQueue, Flow, TypeOK
  <2> QED BY <1>5, <2>1, <2>2, <2>3 DEF Gather
<1>6. ASSUME NEW p \in Partitions, Process(p), ~(q = p /\ Output(p))
      PROVE  FlowSame(q)
  <2>1. CASE Output(p)
    BY <1>t, <1>6, <2>1 DEF FlowSame, Output, Flow, TypeOK
  <2>2. CASE ProcessDone(p)
    BY <1>t, <2>2 DEF FlowSame, ProcessDone, Flow, TypeOK
  <2>3. CASE SendPanics(p)
    BY <1>t, <2>3 DEF FlowSame, SendPanics, Flow, TypeOK
  <2> QED BY <1>6, <2>1, <2>2, <2>3 DEF Process
<1>7. ASSUME NEW p \in Partitions, Store(p),
             ~(q = p /\ (Input(p) \/ Add(p) \/ Renew(p)))
      PROVE  FlowSame(q)
  <2>1. CASE CheckBlocking(p) \/ Tick(p) \/ InputClosed(p) \/ StoreDone(p)
    BY <1>t, <2>1
       DEF FlowSame, CheckBlocking, Tick, InputClosed, StoreDone, Flow, TypeOK
  <2>2. CASE Input(p)
    BY <1>t, <1>7, <2>2 DEF FlowSame, Input, Flow, TypeOK
  <2>3. CASE Add(p)
    <3>1. batches'[q] = batches[q]
      BY <1>7, <2>3, AddDoes
    <3> QED BY <1>t, <1>7, <2>3, <3>1 DEF FlowSame, Add, Flow, TypeOK
  <2>4. CASE Renew(p)
    BY <1>t, <1>7, <2>4 DEF FlowSame, Renew, Flow, TypeOK
  <2> QED BY <1>7, <2>1, <2>2, <2>3, <2>4 DEF Store
<1>8. ASSUME Dequeue(q)  PROVE Flow(q)' /\ Stored(q)' = Stored(q)
  BY <1>t, <1>8, PipeAssumption, SMTT(40) DEF Dequeue, Flow, TypeOK, Stored, One, NoEvent
<1>9. ASSUME Output(q)  PROVE Flow(q)' /\ Stored(q)' = Stored(q)
  BY <1>t, <1>9, PipeAssumption DEF Output, Flow, TypeOK, Stored, One, NoEvent
<1>10. ASSUME Input(q)  PROVE Flow(q)' /\ Stored(q)' = Stored(q)
  BY <1>t, <1>10, PipeAssumption DEF Input, Flow, TypeOK, Stored, One, NoEvent
<1>11. ASSUME Add(q)  PROVE Flow(q)' /\ Stored(q)' = Stored(q) + 1
  <2>1. /\ spc[q] = "add" /\ sev[q] = Stored(q) + 1 /\ sev[q] \in Events
        /\ IsRun(batches'[q], Stored(q) + 1)
        /\ spc' = Set(spc, q, IF Len(batches'[q][Current(q)]) = MaxBufferSize
                              THEN "send" ELSE "top")
    BY <1>11, AddDoes
  <2>2. /\ sev'[q] = NoEvent /\ sev[q] # NoEvent /\ taken' = taken
        /\ hand' = hand /\ work' = work /\ gpc' = gpc /\ ppc' = ppc
        /\ taken[q] \in Nat
    BY <1>t, <1>11, <2>1, PipeAssumption DEF Add, TypeOK, NoEvent, Events
  <2>3. Stored(q)' = Stored(q) + 1
    BY <2>2 DEF Stored, One, NoEvent
  <2>4. spc'[q] # "add"
    BY <1>t, <2>1 DEF TypeOK
  <2> QED BY <1>t, <2>1, <2>2, <2>3, <2>4 DEF Flow
<1>12. ASSUME Renew(q)  PROVE Flow(q)' /\ Stored(q)' = Stored(q)
  <2>1. IsRun(batches'[q], Stored(q)) /\ spc[q] = "renew"
    BY <1>12, RenewDoes
  <2> QED BY <1>t, <1>12, <2>1 DEF Renew, Flow, TypeOK, Stored, One, NoEvent
<1> QED BY <1>t, <1>f, <1>1, <1>2, <1>3, <1>4, <1>5, <1>6, <1>7, <1>8, <1>9, <1>10,
           <1>11, <1>12 DEF Next

\* Where a step that leaves the buffers of q alone may take its store.
SizesSame(q) ==
  /\ batches'[q] = batches[q]
  /\ \/ spc'[q] \in {spc[q], "dead", "exit"}
     \/ {spc[q], spc'[q]} \subseteq {"top", "select", "add"}
     \/ {spc[q], spc'[q]} \subseteq {"send", "renew"}
     \/ (spc'[q] = "send" /\ Len(Buffer(q)) > 0)

\* Such a step keeps Sizes.
LEMMA SizesFrame ==
  ASSUME NEW q, Sizes(q), SizesSame(q)
  PROVE  Sizes(q)'
BY DEF Sizes, SizesSame, Current, Buffer

\* Every step keeps Sizes.
LEMMA SizesStep ==
  ASSUME PipeInv, Next, NEW q \in Partitions
  PROVE  Sizes(q)'
<1>t. /\ TypeOK /\ Sizes(q) /\ Len(Buffer(q)) \in Nat /\ Current(q) \in Nat \ {0}
      /\ Buffer(q) = batches[q][Current(q)]
  BY PartFacts
<1>f. ASSUME SizesSame(q)  PROVE Sizes(q)'
  BY <1>t, <1>f, SizesFrame
<1>1. CASE EnqueueDone \/ Listen \/ ListenDone \/ Cancel
  BY <1>1, <1>f DEF SizesSame, EnqueueDone, Listen, ListenDone, Cancel
<1>2. ASSUME NEW p \in Partitions, Receive(p) \/ Gather(p)  PROVE SizesSame(q)
  BY <1>2 DEF SizesSame, Receive, Gather, StartConsumer, Dequeue, CloseQueue
<1>3. ASSUME NEW c \in Consumers, Consume(c)  PROVE SizesSame(q)
  BY <1>3 DEF SizesSame, Consume, Forward, FallBack, GiveUp, Ack, Return
<1>4. ASSUME NEW p \in Partitions, Flushing(p)  PROVE SizesSame(q)
  <2>1. CASE Flush(p)
    BY <1>t, <2>1 DEF SizesSame, Flush, TypeOK
  <2> QED BY <1>4, <2>1
          DEF SizesSame, Flushing, FlushDone, Drain, DrainTimeout, DrainAgain,
              ShutdownDone, OnceReturns
<1>5. ASSUME NEW p \in Partitions, Process(p)  PROVE SizesSame(q)
  BY <1>5 DEF SizesSame, Process, Output, ProcessDone, SendPanics
<1>6. ASSUME NEW p \in Partitions, Store(p), ~(q = p /\ (Add(p) \/ Renew(p)))
      PROVE  SizesSame(q)
  <2>1. CASE CheckBlocking(p) \/ InputClosed(p) \/ StoreDone(p) \/ Input(p)
    BY <1>t, <2>1
       DEF SizesSame, CheckBlocking, InputClosed, StoreDone, Input, TypeOK
  <2>2. CASE Tick(p)
    BY <1>t, <2>2, PipeAssumption DEF SizesSame, Tick, TypeOK
  <2>3. CASE Add(p)
    <3>1. batches'[q] = batches[q]
      BY <1>6, <2>3, AddDoes
    <3> QED BY <1>t, <1>6, <2>3, <3>1 DEF SizesSame, Add, TypeOK
  <2>4. CASE Renew(p)
    BY <1>t, <1>6, <2>4 DEF SizesSame, Renew, TypeOK
  <2> QED BY <1>6, <2>1, <2>2, <2>3, <2>4 DEF Store
<1>7. ASSUME Add(q)  PROVE Sizes(q)'
  <2> DEFINE m == Current(q)
             r == batches'[q]
  <2>1. /\ Len(r) = m /\ \A i \in 1 .. m - 1 : r[i] = batches[q][i]
        /\ Len(r[m]) = Len(batches[q][m]) + 1 /\ Len(r[m]) <= MaxBufferSize
        /\ spc' = Set(spc, q, IF Len(r[m]) = MaxBufferSize THEN "send" ELSE "top")
    BY <1>7, AddDoes
  <2>2. Current(q)' = m /\ Buffer(q)' = r[m]
    BY <2>1 DEF Current, Buffer
  <2>3. \A i \in 1 .. m : Len(batches[q][i]) <= MaxBufferSize
    BY <1>t DEF Sizes
  <2>4. spc'[q] = IF Len(r[m]) = MaxBufferSize THEN "send" ELSE "top"
    BY <1>t, <2>1 DEF TypeOK
  <2> HIDE DEF m, r
  <2>5. m \in Nat /\ Len(r[m]) \in Nat \ {0}
    BY <1>t, <2>1 DEF m
  <2>6. \A i \in 1 .. m : Len(r[i]) <= MaxBufferSize
    BY <2>1, <2>3, <2>5
  <2> QED BY <2>2, <2>4, <2>5, <2>6, <2>1, PipeAssumption DEF Sizes, r
<1>8. ASSUME Renew(q)  PROVE Sizes(q)'
  <2> DEFINE m == Current(q)
             r == batches'[q]
  <2>1. /\ Len(r) = m + 1 /\ \A i \in 1 .. m : r[i] = batches[q][i]
        /\ r[m + 1] = <<>>
    BY <1>8, RenewDoes
  <2>2. spc'[q] = "top"
    BY <1>t, <1>8 DEF TypeOK, Renew
  <2>3. Current(q)' = m + 1 /\ Buffer(q)' = <<>>
    BY <2>1 DEF Current, Buffer
  <2>4. \A i \in 1 .. m : Len(batches[q][i]) <= MaxBufferSize
    BY <1>t DEF Sizes
  <2> HIDE DEF m, r
  <2>5. m \in Nat /\ Len(<<>>) = 0
    BY <1>t DEF m
  <2>6. \A i \in 1 .. m + 1 : Len(r[i]) <= MaxBufferSize
    BY <2>1, <2>4, <2>5, PipeAssumption
  <2> QED BY <2>2, <2>3, <2>5, <2>6, PipeAssumption DEF Sizes, r
<1> QED BY <1>f, <1>1, <1>2, <1>3, <1>4, <1>5, <1>6, <1>7, <1>8 DEF Next

-----------------------------------------------------------------------------
\* The running calls of consume.

\* The buffers of q and the history only grow.
Grows(q) ==
  /\ Current(q)' \in Nat /\ Current(q) <= Current(q)'
  /\ \A i \in 1 .. Current(q) :
       Len(batches'[q][i]) \in Nat /\ Len(batches[q][i]) <= Len(batches'[q][i])
  /\ sent[q] \subseteq sent'[q] /\ failed[q] \subseteq failed'[q]

\* Every step does so.
LEMMA GrowsStep ==
  ASSUME PipeInv, Next, NEW q \in Partitions
  PROVE  Grows(q)
<1>t. /\ TypeOK /\ Current(q) \in Nat \ {0} /\ Current(q) = Len(batches[q])
      /\ \A i \in 1 .. Current(q) : Len(batches[q][i]) \in Nat
  BY PartFacts, LastBuffer DEF TypeOK
<1>f. ASSUME batches'[q] = batches[q], 
             sent[q] \subseteq sent'[q], failed[q] \subseteq failed'[q]
      PROVE  Grows(q)
  BY <1>t, <1>f DEF Grows, Current
<1>1. CASE EnqueueDone \/ Listen \/ ListenDone \/ Cancel
  BY <1>1, <1>f DEF EnqueueDone, Listen, ListenDone, Cancel
<1>2. ASSUME NEW p \in Partitions, Receive(p) \/ Gather(p) \/ Process(p)
      PROVE  Grows(q)
  BY <1>2, <1>f DEF Receive, Gather, StartConsumer, Dequeue, CloseQueue,
                    Process, Output, ProcessDone, SendPanics
<1>3. ASSUME NEW p \in Partitions, Flushing(p)  PROVE Grows(q)
  BY <1>3, <1>f DEF Flushing, Flush, FlushDone, Drain, DrainTimeout, DrainAgain,
                    ShutdownDone, OnceReturns
<1>4. ASSUME NEW c \in Consumers, Consume(c)  PROVE Grows(q)
  <2>1. call[c].part \in Partitions
    BY <1>t DEF TypeOK, CallType
  <2>2. CASE Forward(c)
    BY <1>t, <1>f, <2>1, <2>2 DEF TypeOK, Forward
  <2>3. CASE GiveUp(c)
    BY <1>t, <1>f, <2>1, <2>3 DEF TypeOK, GiveUp
  <2>4. CASE FallBack(c) \/ Ack(c)
    BY <1>f, <2>4 DEF FallBack, Ack, Return
  <2> QED BY <1>4, <2>2, <2>3, <2>4 DEF Consume
<1>5. ASSUME NEW p \in Partitions, Store(p), ~(q = p /\ (Add(p) \/ Renew(p)))
      PROVE  Grows(q)
  <2>1. CASE CheckBlocking(p) \/ InputClosed(p) \/ StoreDone(p) \/ Input(p) \/ Tick(p)
    BY <1>f, <2>1 DEF CheckBlocking, InputClosed, StoreDone, Input, Tick
  <2>2. CASE Add(p)
    <3>1. batches'[q] = batches[q]
      BY <1>5, <2>2, AddDoes
    <3> QED BY <1>f, <2>2, <3>1 DEF Add
  <2>3. CASE Renew(p)
    <3>1. batches'[q] = batches[q]
      BY <1>5, <2>3, RenewDoes
    <3> QED BY <1>f, <2>3, <3>1 DEF Renew
  <2> QED BY <1>5, <2>1, <2>2, <2>3 DEF Store
<1>6. ASSUME Add(q)  PROVE Grows(q)
  <2> DEFINE m == Current(q)
             r == batches'[q]
  <2>1. /\ Len(r) = m /\ \A i \in 1 .. m - 1 : r[i] = batches[q][i]
        /\ Len(r[m]) = Len(batches[q][m]) + 1
    BY <1>6, AddDoes
  <2>2. Current(q)' = m /\ sent' = sent /\ failed' = failed
    BY <1>6, <2>1 DEF Current, Add
  <2>3. m \in Nat \ {0} /\ \A i \in 1 .. m : Len(batches[q][i]) \in Nat
    BY <1>t
  <2>4. ASSUME NEW i \in 1 .. m 
        PROVE  Len(r[i]) \in Nat /\ Len(batches[q][i]) <= Len(r[i])
    <3> HIDE DEF m, r
    <3>1. CASE i = m
      BY <2>1, <2>3, <3>1
    <3>2. CASE i # m
      <4>1. i \in 1 .. m - 1
        BY <2>3, <3>2
      <4> QED BY <2>1, <2>3, <4>1
    <3> QED BY <3>1, <3>2
  <2> QED BY <2>2, <2>3, <2>4 DEF Grows
<1>7. ASSUME Renew(q)  PROVE Grows(q)
  <2> DEFINE m == Current(q)
             r == batches'[q]
  <2>1. Len(r) = m + 1 /\ \A i \in 1 .. m : r[i] = batches[q][i]
    BY <1>7, RenewDoes
  <2>2. Current(q)' = m + 1 /\ sent' = sent /\ failed' = failed
    BY <1>7, <2>1 DEF Current, Renew
  <2>3. m \in Nat \ {0} /\ \A i \in 1 .. m : Len(batches[q][i]) \in Nat
    BY <1>t
  <2>4. \A i \in 1 .. m : Len(r[i]) \in Nat /\ Len(batches[q][i]) <= Len(r[i])
    BY <2>1, <2>3
  <2> QED BY <2>2, <2>3, <2>4 DEF Grows
<1> QED BY <1>1, <1>2, <1>3, <1>4, <1>5, <1>6, <1>7 DEF Next

\* A step that leaves the consume of c alone.
ConsumerSame(c) ==
  /\ call'[c] = call[c]
  /\ c[1] = "flush" => fpc'[c[2]] = fpc[c[2]] /\ again'[c[2]] = again[c[2]]
  /\ c[1] = "drain" => dpc'[c[2]] = dpc[c[2]]

\* Such a step keeps what the invariant says of c.
LEMMA ConsumerFrame ==
  ASSUME PipeInv, Next, NEW c \in Consumers, ConsumerSame(c)
  PROVE  (Running(c) \/ Idle(c))'
<1>1. TypeOK /\ (Running(c) \/ Idle(c)) /\ call[c].part \in Partitions
  BY DEF PipeInv, TypeOK, CallType
<1>2. CASE Idle(c)
  BY <1>2 DEF Idle, ConsumerSame
<1>3. CASE Running(c)
  <2> DEFINE p == call[c].part
             i == call[c].i
  <2>1. Grows(p) /\ Current(p) \in Nat /\ Len(batches[p][i]) \in Nat
    BY <1>1, <1>3, GrowsStep, PartFacts, LastBuffer DEF Running, TypeOK
  <2>2. i \in 1 .. Current(p) /\ Len(batches[p][i]) > 0
    BY <1>3 DEF Running
  <2>3. call'[c] = call[c]
    BY DEF ConsumerSame
  <2>4. i \in 1 .. Current(p)' /\ Len(batches'[p][i]) > 0
    BY <2>1, <2>2 DEF Grows
  <2>5. sent[p] \subseteq sent'[p] /\ failed[p] \subseteq failed'[p]
    BY <2>1 DEF Grows
  <2>6. \A e \in call[c].got : \A g \in 1 .. call[c].f - 1 :
          Forwarders[g] = TypeOf[e] => e \in sent'[p] \cup failed'[p]
    BY <1>3, <2>5 DEF Running
  <2>7. /\ call[c].f \in 1 .. Len(Forwarders) + 1
        /\ c[1] = "flush" =>
             \/ fpc'[c[2]] = "consume" /\ p = c[2]
             \/ fpc'[c[2]] = "again" /\ again'[c[2]] \in Partitions
        /\ c[1] = "drain" => dpc'[c[2]] = "consume" /\ p = c[2]
    BY <1>3 DEF Running, ConsumerSame
  <2> QED BY <2>3, <2>4, <2>6, <2>7 DEF Running, Current
<1> QED BY <1>1, <1>2, <1>3

\* The goroutines that run consume, one by one.
LEMMA PairsAre ==
  ASSUME NEW c \in Consumers
  PROVE  /\ c[2] \in Partitions /\ c[1] \in {"flush", "drain"}
         /\ c[1] = "flush" => c = Flusher(c[2])
         /\ c[1] = "drain" => c = Drainer(c[2])
BY DEF Consumers, Flusher, Drainer

\* The same from the partition.
LEMMA FlusherIs ==
  ASSUME NEW p \in Partitions
  PROVE  /\ Flusher(p) \in Consumers /\ Drainer(p) \in Consumers
         /\ Flusher(p)[1] = "flush" /\ Flusher(p)[2] = p
         /\ Drainer(p)[1] = "drain" /\ Drainer(p)[2] = p
BY DEF Consumers, Flusher, Drainer

\* A consume that begins on the buffer of partition p.
LEMMA NewRunning ==
  ASSUME PipeInv, NEW p \in Partitions, Buffer(p) # <<>>, batches' = batches,
         NEW c \in Consumers, call'[c] = NewCall(p, Current(p)),
         c[1] = "flush" => \/ fpc'[c[2]] = "consume" /\ p = c[2]
                           \/ fpc'[c[2]] = "again" /\ again'[c[2]] \in Partitions,
         c[1] = "drain" => dpc'[c[2]] = "consume" /\ p = c[2]
  PROVE  Running(c)'
<1>1. /\ Current(p) \in Nat \ {0} /\ Buffer(p) = batches[p][Current(p)]
      /\ Buffer(p) \in Seq(Events)
  BY PartFacts
<1>2. Len(Buffer(p)) > 0
  BY <1>1, EmptySeq
<1>3. /\ call'[c].part = p /\ call'[c].i = Current(p) /\ call'[c].f = 1
  BY DEF NewCall
<1>4. call'[c].f \in 1 .. Len(Forwarders) + 1 /\ 1 .. call'[c].f - 1 = {}
  BY <1>3, PipeAssumption
<1>5. Current(p)' = Current(p)
  BY DEF Current
<1> QED BY <1>1, <1>2, <1>3, <1>4, <1>5 DEF Running

\* An attempt changes only the counters of the call of c.
LEMMA CallKeeps ==
  ASSUME TypeOK, NEW c \in Consumers, Forward(c) \/ FallBack(c) \/ GiveUp(c),
         NEW d \in Consumers
  PROVE  /\ d # c => call'[d] = call[d]
         /\ call'[d].part = call[d].part /\ call'[d].i = call[d].i
         /\ call'[d].got = call[d].got
         /\ FallBack(c) => call'[c].f = call[c].f
         /\ Forward(c) \/ GiveUp(c) => call'[c].f = call[c].f + 1
<1>1. call \in [Consumers -> CallType] /\ call[c] \in CallType /\ call[d] \in CallType
  BY DEF TypeOK
<1> DEFINE keeps == /\ d # c => call'[d] = call[d]
                    /\ call'[d].part = call[d].part /\ call'[d].i = call[d].i
                    /\ call'[d].got = call[d].got
<1>2. ASSUME FallBack(c)  PROVE keeps /\ call'[c].f = call[c].f
  <2>1. call' = [call EXCEPT ![c] = [call[c] EXCEPT !.n = call[c].n + 1]]
    BY <1>2, CallMoves DEF FallBack
  <2>2. PICK k \in CallType : k = call[c]
    BY <1>1
  <2>3. PICK u : u = [k EXCEPT !.n = k.n + 1]
    OBVIOUS
  <2>4. u.part = k.part /\ u.i = k.i /\ u.f = k.f /\ u.got = k.got
    BY <2>3 DEF CallType
  <2>5. call'[c] = u /\ (d # c => call'[d] = call[d])
    BY <1>1, <2>1, <2>2, <2>3
  <2> QED BY <2>2, <2>4, <2>5
<1>3. ASSUME Forward(c) \/ GiveUp(c)  PROVE keeps /\ call'[c].f = call[c].f + 1
  <2>1. call' = [call EXCEPT ![c] = [call[c] EXCEPT !.f = call[c].f + 1, !.n = 1]]
    BY <1>3, CallMoves DEF Forward, GiveUp
  <2>2. PICK k \in CallType : k = call[c]
    BY <1>1
  <2>3. PICK u : u = [k EXCEPT !.f = k.f + 1]
    OBVIOUS
  <2>4. /\ u.part = k.part /\ u.i = k.i /\ u.f = k.f + 1 /\ u.got = k.got
        /\ DOMAIN u = {"part", "i", "got", "f", "n"}
    BY <2>3 DEF CallType
  <2>5. PICK v : v = [u EXCEPT !.n = 1]
    OBVIOUS
  <2>6. v.part = k.part /\ v.i = k.i /\ v.f = k.f + 1 /\ v.got = k.got
    BY <2>4, <2>5
  <2>7. call'[c] = v /\ (d # c => call'[d] = call[d])
    BY <1>1, <2>1, <2>2, <2>3, <2>5
  <2> QED BY <2>2, <2>6, <2>7
<1> QED BY <1>2, <1>3

\* Every step keeps what the invariant says of each call.
LEMMA ConsumerStep ==
  ASSUME PipeInv, Next, NEW c \in Consumers
  PROVE  (Running(c) \/ Idle(c))'
<1>t. TypeOK /\ (Running(c) \/ Idle(c)) /\ Shutdown
  BY DEF PipeInv
<1>c. /\ c[2] \in Partitions /\ c[1] \in {"flush", "drain"}
      /\ c[1] = "flush" => c = Flusher(c[2])
      /\ c[1] = "drain" => c = Drainer(c[2])
  BY PairsAre
<1>f. ASSUME ConsumerSame(c)  PROVE (Running(c) \/ Idle(c))'
  BY <1>f, ConsumerFrame
<1>1. CASE EnqueueDone \/ Listen \/ ListenDone \/ Cancel
  BY <1>1, <1>f DEF ConsumerSame, EnqueueDone, Listen, ListenDone, Cancel
<1>2. ASSUME NEW p \in Partitions, Receive(p) \/ Gather(p) \/ Output(p) \/ ProcessDone(p)
      PROVE  ConsumerSame(c)
  BY <1>2 DEF ConsumerSame, Receive, Gather, StartConsumer, Dequeue, CloseQueue,
              Output, ProcessDone
<1>3. ASSUME NEW p \in Partitions, Store(p)  PROVE ConsumerSame(c)
  BY <1>3 DEF ConsumerSame, Store, CheckBlocking, Input, Add, Tick, InputClosed,
              StoreDone, Renew
<1>4. ASSUME NEW p \in Partitions, SendPanics(p)  PROVE Idle(c)'
  BY <1>c, <1>4 DEF SendPanics, Idle
<1>5. ASSUME NEW p \in Partitions, Flush(p)  PROVE (Running(c) \/ Idle(c))'
  <2>1. CASE c = Flusher(p)
    <3>1. call'[c] = NewCall(p, Current(p)) /\ batches' = batches
          /\ fpc'[c[2]] = "consume" /\ p = c[2] /\ c[1] = "flush"
      BY <1>t, <1>5, <2>1, FlusherIs DEF Flush, TypeOK
    <3>2. Buffer(p) # <<>>
      <4>1. Sizes(p)
        BY DEF PipeInv
      <4> QED BY <1>5, <4>1 DEF Flush, Sizes
    <3> QED BY <3>1, <3>2, NewRunning
  <2>2. CASE c # Flusher(p)
    BY <1>t, <1>c, <1>5, <1>f, <2>2 DEF ConsumerSame, Flush, TypeOK
  <2> QED BY <2>1, <2>2
<1>6. ASSUME NEW p \in Partitions, FlushDone(p)  PROVE (Running(c) \/ Idle(c))'
  <2>1. CASE c = Flusher(p)
    <3>1. Idle(c) /\ c[1] = "flush" /\ c[2] = p
      BY <1>t, <1>6, <2>1, FlusherIs DEF FlushDone, Running
    <3> QED BY <1>t, <1>6, <3>1 DEF Idle, FlushDone, TypeOK
  <2>2. CASE c # Flusher(p) /\ (c[1] = "flush" \/ once # "new")
    BY <1>t, <1>c, <1>6, <1>f, <2>2, ZenonT(40) DEF ConsumerSame, FlushDone, TypeOK
  <2>3. CASE c[1] = "drain" /\ once = "new"
    <3>1. Idle(c)
      BY <1>t, <1>c, <2>3 DEF Running, Shutdown
    <3> QED BY <1>t, <1>c, <1>6, <2>3, <3>1 DEF Idle, FlushDone, TypeOK
  <2> QED BY <1>c, <2>1, <2>2, <2>3
<1>7. ASSUME NEW p \in Partitions, Drain(p)  PROVE (Running(c) \/ Idle(c))'
  <2>1. CASE c = Drainer(p)
    <3>1. Idle(c) /\ c[1] = "drain" /\ c[2] = p
      BY <1>t, <1>7, <2>1, FlusherIs DEF Drain, Running
    <3>2. CASE Buffer(p) = <<>>
      BY <1>t, <1>7, <3>1, <3>2 DEF Idle, Drain, TypeOK
    <3>3. CASE Buffer(p) # <<>>
      <4>1. call'[c] = NewCall(p, Current(p)) /\ batches' = batches
            /\ dpc'[c[2]] = "consume"
        BY <1>t, <1>7, <2>1, <3>1, <3>3 DEF Drain, TypeOK
      <4> QED BY <3>1, <3>3, <4>1, NewRunning
    <3> QED BY <3>2, <3>3
  <2>2. CASE c # Drainer(p)
    BY <1>t, <1>c, <1>7, <1>f, <2>2, SMTT(40) DEF ConsumerSame, Drain, TypeOK
  <2> QED BY <2>1, <2>2
<1>8. ASSUME NEW p \in Partitions, DrainAgain(p)  PROVE (Running(c) \/ Idle(c))'
  <2>1. CASE c = Flusher(p)
    <3>1. c[1] = "flush" /\ c[2] = p /\ call[c] = NoCall
      BY <1>8, <2>1, FlusherIs DEF DrainAgain
    <3>2. CASE Buffer(again[p]) = <<>>
      BY <1>t, <1>8, <3>1, <3>2 DEF Idle, DrainAgain, TypeOK
    <3>3. CASE Buffer(again[p]) # <<>>
      <4>1. /\ call'[c] = NewCall(again[p], Current(again[p])) /\ batches' = batches
            /\ fpc'[c[2]] = "again" /\ again'[c[2]] \in Partitions
            /\ again[p] \in Partitions
        BY <1>t, <1>8, <2>1, <3>1, <3>3 DEF DrainAgain, TypeOK
      <4> QED BY <3>1, <3>3, <4>1, NewRunning
    <3> QED BY <3>2, <3>3
  <2>2. CASE c # Flusher(p)
    BY <1>t, <1>c, <1>8, <1>f, <2>2 DEF ConsumerSame, DrainAgain, TypeOK
  <2> QED BY <2>1, <2>2
<1>9. ASSUME NEW p \in Partitions, DrainTimeout(p) \/ ShutdownDone(p) \/ OnceReturns(p)
      PROVE  (Running(c) \/ Idle(c))'
  <2>1. CASE c = Flusher(p)
    <3>1. c[1] = "flush" /\ c[2] = p
      BY <2>1, FlusherIs
    <3>2. PartitionCount \notin Partitions
      BY PipeAssumption DEF Partitions
    <3>3. Idle(c)
      BY <1>t, <1>9, <3>1, <3>2 DEF Running, DrainTimeout, ShutdownDone, OnceReturns
    <3> QED BY <1>t, <1>9, <3>1, <3>3
            DEF Idle, DrainTimeout, ShutdownDone, OnceReturns, TypeOK
  <2>2. CASE c # Flusher(p)
    BY <1>t, <1>c, <1>9, <1>f, <2>2, SMTT(40)
       DEF ConsumerSame, DrainTimeout, ShutdownDone, OnceReturns, TypeOK
  <2> QED BY <2>1, <2>2
<1>10. ASSUME NEW d \in Consumers, Consume(d), d # c  PROVE ConsumerSame(c)
  <2>1. /\ d[2] \in Partitions
        /\ d[1] = "flush" => d = Flusher(d[2])
        /\ d[1] = "drain" => d = Drainer(d[2])
    BY PairsAre
  <2>2. CASE Ack(d)
    BY <1>t, <1>c, <1>10, <2>1, <2>2, ZenonT(40) DEF ConsumerSame, Ack, Return, TypeOK
  <2>3. CASE Forward(d) \/ GiveUp(d) \/ FallBack(d)
    <3>1. call'[c] = call[c]
      BY <1>t, <1>10, <2>3, CallKeeps
    <3> QED BY <2>3, <3>1 DEF ConsumerSame, Forward, GiveUp, FallBack
  <2> QED BY <1>10, <2>2, <2>3 DEF Consume
<1>11. ASSUME Consume(c), ~Ack(c)  PROVE Running(c)'
  <2> DEFINE p == call[c].part
             i == call[c].i
  <2>1. call[c] \in CallType /\ p \in Partitions
    BY <1>t DEF TypeOK, CallType
  <2>2. call[c].f \in 1 .. Len(Forwarders) /\ UNCHANGED <<batches, fpc, again, dpc>>
    <3>1. DOMAIN Forwarders = 1 .. Len(Forwarders)
      BY PipeAssumption
    <3> QED BY <1>11, <3>1 DEF Consume, Forward, FallBack, GiveUp
  <2>3. Running(c)
    <3>1. NoCall.f = 0
      BY DEF NoCall
    <3> QED BY <1>t, <2>2, <3>1 DEF Idle
  <2>4. /\ call[c].f + 1 \in 1 .. Len(Forwarders) + 1
        /\ call[c].f \in 1 .. Len(Forwarders) + 1
    BY <2>2, PipeAssumption
  <2>5. CASE FallBack(c)
    <3>1. /\ call'[c].part = p /\ call'[c].i = i /\ call'[c].f = call[c].f
          /\ call'[c].got = call[c].got
      BY <1>t, <2>5, CallKeeps
    <3>2. sent' = sent /\ failed' = failed
      BY <2>5 DEF FallBack
    <3> QED BY <2>2, <2>3, <3>1, <3>2 DEF Running, Current
  <2>6. CASE Forward(c) \/ GiveUp(c)
    <3>1. /\ call'[c].part = p /\ call'[c].i = i /\ call'[c].f = call[c].f + 1
          /\ call'[c].got = call[c].got
      BY <1>t, <2>6, CallKeeps
    <3>2. /\ sent[p] \subseteq sent'[p] /\ failed[p] \subseteq failed'[p]
          /\ BatchEvents(c) \subseteq sent'[p] \cup failed'[p]
      BY <1>t, <2>1, <2>6 DEF Forward, GiveUp, TypeOK
    <3>3. ASSUME NEW e \in call[c].got, NEW g \in 1 .. call[c].f,
                 Forwarders[g] = TypeOf[e]
          PROVE  e \in sent'[p] \cup failed'[p]
      <4>1. CASE g = call[c].f
        BY <3>2, <3>3, <4>1 DEF BatchEvents
      <4>2. CASE g # call[c].f
        <5>1. g \in 1 .. call[c].f - 1
          BY <2>2, <4>2
        <5> QED BY <2>3, <3>2, <3>3, <5>1 DEF Running
      <4> QED BY <4>1, <4>2
    <3>4. 1 .. call'[c].f - 1 = 1 .. call[c].f
      BY <2>2, <3>1
    <3> QED BY <2>2, <2>3, <2>4, <3>1, <3>3, <3>4 DEF Running, Current
  <2> QED BY <1>11, <2>5, <2>6 DEF Consume
<1>12. ASSUME Ack(c)  PROVE Idle(c)'
  <2>1. Running(c)
    BY <1>12, AckDoes
  <2>2. call'[c] = NoCall
    BY <1>t, <1>12 DEF Ack, Return, TypeOK
  <2>3. CASE c[1] = "flush"
    BY <1>t, <1>c, <1>12, <2>1, <2>2, <2>3 DEF Ack, Return, Running, Idle, TypeOK
  <2>4. CASE c[1] = "drain"
    BY <1>t, <1>c, <1>12, <2>1, <2>2, <2>4 DEF Ack, Return, Running, Idle, TypeOK
  <2> QED BY <1>c, <2>3, <2>4
<1> QED
  <2>1. ASSUME NEW p \in Partitions, Process(p) \/ Flushing(p)
        PROVE  (Running(c) \/ Idle(c))'
    BY <1>f, <1>2, <1>4, <1>5, <1>6, <1>7, <1>8, <1>9, <2>1 DEF Process, Flushing
  <2>2. ASSUME NEW p \in Partitions, Receive(p) \/ Gather(p) \/ Store(p)
        PROVE  (Running(c) \/ Idle(c))'
    BY <1>f, <1>2, <1>3, <2>2
  <2>3. ASSUME NEW d \in Consumers, Consume(d)  PROVE (Running(c) \/ Idle(c))'
    BY <1>f, <1>10, <1>11, <1>12, <2>3 DEF Consume
  <2> QED BY <1>1, <2>1, <2>2, <2>3 DEF Next

\* A step that leaves the flush of q and the buffers it reads alone.
FlushedSame(q) ==
  /\ batches'[q] = batches[q]
  /\ \/ fpc'[q] # "consume"
     \/ /\ fpc[q] = "consume"
        /\ call'[Flusher(q)].i = call[Flusher(q)].i
        /\ call'[Flusher(q)].got = call[Flusher(q)].got
        /\ (spc'[q] = "renew") <=> (spc[q] = "renew")

\* Every step keeps Flushed.
LEMMA FlushedStep ==
  ASSUME PipeInv, Next, NEW q \in Partitions
  PROVE  Flushed(q)'
<1>t. /\ TypeOK /\ Flushed(q) /\ Current(q) \in Nat \ {0}
      /\ Current(q) = Len(batches[q])
  BY PartFacts
<1>q. /\ Flusher(q) \in Consumers /\ Flusher(q)[1] = "flush" /\ Flusher(q)[2] = q
      /\ (Running(Flusher(q)) \/ Idle(Flusher(q)))
      /\ call[Flusher(q)] \in CallType
  BY <1>t, FlusherIs DEF PipeInv, TypeOK
<1>f. ASSUME FlushedSame(q)  PROVE Flushed(q)'
  BY <1>t, <1>f DEF Flushed, FlushedSame, Current
<1>1. CASE EnqueueDone \/ Listen \/ ListenDone \/ Cancel
  BY <1>1, <1>f DEF FlushedSame, EnqueueDone, Listen, ListenDone, Cancel
<1>2. ASSUME NEW p \in Partitions, Receive(p) \/ Gather(p) \/ Process(p)
      PROVE  FlushedSame(q)
  BY <1>2 DEF FlushedSame, Receive, Gather, StartConsumer, Dequeue, CloseQueue,
              Process, Output, ProcessDone, SendPanics
<1>3. ASSUME NEW p \in Partitions, Store(p), ~(q = p /\ (Add(p) \/ Renew(p)))
      PROVE  FlushedSame(q)
  <2>1. CASE CheckBlocking(p) \/ InputClosed(p) \/ StoreDone(p) \/ Input(p) \/ Tick(p)
    BY <1>t, <2>1
       DEF FlushedSame, CheckBlocking, InputClosed, StoreDone, Input, Tick, TypeOK
  <2>2. CASE Add(p)
    <3>1. batches'[q] = batches[q]
      BY <1>3, <2>2, AddDoes
    <3> QED BY <1>t, <1>3, <2>2, <3>1 DEF FlushedSame, Add, TypeOK
  <2>3. CASE Renew(p)
    BY <1>t, <1>3, <2>3 DEF FlushedSame, Renew, TypeOK
  <2> QED BY <1>3, <2>1, <2>2, <2>3 DEF Store
<1>4. ASSUME Add(q)  PROVE Flushed(q)'
  <2> DEFINE i == call[Flusher(q)].i
  <2>1. /\ spc[q] = "add" /\ Len(batches'[q]) = Current(q)
        /\ \A j \in 1 .. Current(q) - 1 : batches'[q][j] = batches[q][j]
    BY <1>4, AddDoes
  <2>2. fpc' = fpc /\ call' = call /\ spc'[q] # "renew"
    BY <1>t, <1>4 DEF Add, TypeOK
  <2>3. ASSUME fpc[q] = "consume"
        PROVE  i = Current(q) - 1 /\ call[Flusher(q)].got = ToSet(batches'[q][i])
    <3>1. i = Current(q) - 1 /\ call[Flusher(q)].got = ToSet(batches[q][i])
      BY <1>t, <2>1, <2>3 DEF Flushed
    <3>2. i \in 1 .. Current(q)
      BY <1>q, <2>3, <1>t DEF Running, Idle, Flushed
    <3> QED BY <1>t, <2>1, <3>1, <3>2
  <2>4. Current(q)' = Current(q)
    BY <2>1 DEF Current
  <2> QED BY <2>2, <2>3, <2>4 DEF Flushed
<1>5. ASSUME Renew(q)  PROVE Flushed(q)'
  <2> DEFINE i == call[Flusher(q)].i
  <2>1. /\ spc[q] = "renew" /\ Len(batches'[q]) = Current(q) + 1
        /\ \A j \in 1 .. Current(q) : batches'[q][j] = batches[q][j]
    BY <1>5, RenewDoes
  <2>2. fpc' = fpc /\ call' = call /\ spc'[q] # "renew"
    BY <1>t, <1>5 DEF Renew, TypeOK
  <2>3. Current(q)' = Current(q) + 1
    BY <2>1 DEF Current
  <2>4. ASSUME fpc[q] = "consume"
        PROVE  i = Current(q)' - 1 /\ call[Flusher(q)].got = ToSet(batches'[q][i])
    <3>1. i = Current(q) /\ call[Flusher(q)].got = ToSet(batches[q][i])
      BY <1>t, <2>1, <2>4 DEF Flushed
    <3> QED BY <1>t, <2>1, <2>3, <3>1
  <2> QED BY <2>2, <2>4 DEF Flushed
<1>6. ASSUME Flush(q)  PROVE Flushed(q)'
  <2>1. /\ call'[Flusher(q)] = NewCall(q, Current(q)) /\ batches' = batches
        /\ spc'[q] = "renew"
    BY <1>t, <1>q, <1>6 DEF Flush, TypeOK
  <2> QED BY <2>1 DEF Flushed, NewCall, Current
<1>7. ASSUME NEW p \in Partitions, Flush(p), p # q  PROVE FlushedSame(q)
  <2>1. Flusher(p) # Flusher(q)
    BY <1>7 DEF Flusher
  <2> QED BY <1>t, <1>q, <1>7, <2>1 DEF FlushedSame, Flush, TypeOK
<1>8. ASSUME NEW p \in Partitions, FlushDone(p) \/ DrainTimeout(p) \/ ShutdownDone(p)
                                   \/ OnceReturns(p)
      PROVE  FlushedSame(q)
  BY <1>t, <1>8 DEF FlushedSame, FlushDone, DrainTimeout, ShutdownDone, OnceReturns,
                    TypeOK
<1>9. ASSUME NEW p \in Partitions, Drain(p)  PROVE FlushedSame(q)
  <2>1. Drainer(p) # Flusher(q)
    BY DEF Flusher, Drainer
  <2> QED BY <1>t, <1>q, <1>9, <2>1 DEF FlushedSame, Drain, TypeOK
<1>10. ASSUME NEW p \in Partitions, DrainAgain(p)  PROVE FlushedSame(q)
  <2>1. p # q => Flusher(p) # Flusher(q)
    BY DEF Flusher
  <2> QED BY <1>t, <1>q, <1>10, <2>1 DEF FlushedSame, DrainAgain, TypeOK
<1>11. ASSUME NEW c \in Consumers, Consume(c)  PROVE FlushedSame(q)
  <2>1. CASE Ack(c)
    <3>1. CASE c = Flusher(q)
      <4>1. Running(c)
        BY <2>1, AckDoes
      <4>2. fpc'[q] # "consume"
        BY <1>t, <1>q, <2>1, <3>1, <4>1 DEF Ack, Return, Running, TypeOK
      <4> QED BY <2>1, <4>2 DEF FlushedSame, Ack, Return
    <3>2. CASE c # Flusher(q)
      <4>1. call'[Flusher(q)] = call[Flusher(q)]
        BY <1>t, <1>q, <2>1, <3>2 DEF Ack, Return, TypeOK
      <4>2. fpc'[q] # "consume" \/ fpc'[q] = fpc[q]
        BY <1>t, <2>1 DEF Ack, Return, TypeOK
      <4> QED BY <2>1, <4>1, <4>2 DEF FlushedSame, Ack, Return
    <3> QED BY <3>1, <3>2
  <2>2. CASE ~Ack(c)
    <3>1. /\ call'[Flusher(q)].i = call[Flusher(q)].i
          /\ call'[Flusher(q)].got = call[Flusher(q)].got
      BY <1>t, <1>q, <1>11, <2>2, CallKeeps DEF Consume
    <3> QED BY <1>11, <2>2, <3>1 DEF FlushedSame, Consume, Forward, GiveUp, FallBack
  <2> QED BY <2>1, <2>2
<1> QED
  <2>1. ASSUME NEW p \in Partitions, Flushing(p)  PROVE Flushed(q)'
    BY <1>f, <1>6, <1>7, <1>8, <1>9, <1>10, <2>1 DEF Flushing
  <2>2. ASSUME NEW p \in Partitions, Store(p)  PROVE Flushed(q)'
    BY <1>f, <1>3, <1>4, <1>5, <2>2
  <2> QED BY <1>f, <1>1, <1>2, <1>11, <2>1, <2>2 DEF Next

-----------------------------------------------------------------------------
\* Acknowledgements.

\* Only the end of consume acknowledges.
LEMMA OnlyAcks ==
  ASSUME Next, ~\E c \in Consumers : Ack(c)
  PROVE  acked' = acked
<1>1. ASSUME NEW c \in Consumers, Forward(c) \/ FallBack(c) \/ GiveUp(c)
      PROVE  acked' = acked
  BY <1>1 DEF Forward, FallBack, GiveUp
<1>2. ASSUME NEW p \in Partitions, Receive(p) \/ Gather(p) \/ Process(p)
      PROVE  acked' = acked
  BY <1>2 DEF Receive, Gather, StartConsumer, Dequeue, CloseQueue,
              Process, Output, ProcessDone, SendPanics
<1>3. ASSUME NEW p \in Partitions, Store(p)  PROVE acked' = acked
  BY <1>3 DEF Store, CheckBlocking, Input, Add, Tick, InputClosed, StoreDone, Renew
<1>4. ASSUME NEW p \in Partitions, Flushing(p)  PROVE acked' = acked
  BY <1>4 DEF Flushing, Flush, FlushDone, Drain, DrainTimeout, DrainAgain,
              ShutdownDone, OnceReturns
<1>5. CASE EnqueueDone \/ Listen \/ ListenDone \/ Cancel
  BY <1>5 DEF EnqueueDone, Listen, ListenDone, Cancel
<1> QED BY <1>1, <1>2, <1>3, <1>4, <1>5 DEF Next, Consume

\* What is acknowledged has reached the buffers.
LEMMA AckedStep ==
  ASSUME PipeInv, Next, NEW q \in Partitions
  PROVE  acked'[q] <= Stored(q)'
<1>1. /\ TypeOK /\ acked[q] \in Nat /\ Stored(q) \in Nat /\ acked[q] <= Stored(q)
      /\ Stored(q)' >= Stored(q) /\ Stored(q)' \in Int
  <2>1. TypeOK'
    BY TypeStep
  <2>2. Stored(q)' \in Int
    BY <2>1 DEF TypeOK, Stored, One
  <2> QED BY <2>2, PartFacts, FlowStep
<1>2. CASE acked'[q] = acked[q]
  BY <1>1, <1>2
<1>3. ASSUME NEW c \in Consumers, Ack(c)  PROVE acked'[q] <= Stored(q)'
  <2> DEFINE p == call[c].part
             o == Last(batches[call[c].part][call[c].i])
  <2>1. p \in Partitions /\ o \in 1 .. Stored(p)
        /\ acked' = IF closed THEN acked ELSE Set(acked, p, o)
    BY <1>3, AckDoes
  <2> HIDE DEF p, o
  <2>2. CASE acked'[q] = o /\ p = q
    BY <1>1, <2>1, <2>2
  <2>3. acked'[q] = acked[q] \/ (acked'[q] = o /\ p = q)
    BY <1>1, <2>1 DEF TypeOK
  <2> QED BY <1>2, <2>2, <2>3
<1> QED BY <1>2, <1>3, OnlyAcks

\* The shutdown begins after the close signal.
LEMMA UndisturbedStep ==
  ASSUME PipeInv, Next, ~cancelled'
  PROVE  ~cancelled /\ Undisturbed /\ Undisturbed'
<1>0. TypeOK
  BY DEF PipeInv
<1>1. ~cancelled
  <2>1. CASE EnqueueDone \/ Listen \/ ListenDone \/ Cancel
    BY <2>1 DEF EnqueueDone, Listen, ListenDone, Cancel
  <2>2. CASE \E c \in Consumers : Consume(c)
    BY <2>2 DEF Consume, Forward, FallBack, GiveUp, Ack, Return
  <2>3. ASSUME NEW p \in Partitions, Receive(p) \/ Gather(p) \/ Process(p)
        PROVE  ~cancelled
    BY <2>3 DEF Receive, Gather, StartConsumer, Dequeue, CloseQueue,
                Process, Output, ProcessDone, SendPanics
  <2>4. ASSUME NEW p \in Partitions, Store(p)  PROVE ~cancelled
    BY <2>4 DEF Store, CheckBlocking, Input, Add, Tick, InputClosed, StoreDone, Renew
  <2>5. ASSUME NEW p \in Partitions, Flushing(p)  PROVE ~cancelled
    BY <2>5 DEF Flushing, Flush, FlushDone, Drain, DrainTimeout, DrainAgain,
                ShutdownDone, OnceReturns
  <2> QED BY <2>1, <2>2, <2>3, <2>4, <2>5 DEF Next
<1>2. Undisturbed
  BY <1>1 DEF PipeInv
<1>3. CASE EnqueueDone \/ Listen \/ ListenDone \/ Cancel
  BY <1>2, <1>3 DEF Undisturbed, EnqueueDone, Listen, ListenDone, Cancel
<1>4. ASSUME NEW p \in Partitions, Receive(p) \/ Gather(p) \/ Process(p)
      PROVE  Undisturbed'
  BY <1>0, <1>1, <1>2, <1>4
     DEF Undisturbed, Receive, Gather, StartConsumer, Dequeue, CloseQueue,
         Process, Output, ProcessDone, SendPanics
<1>5. ASSUME NEW p \in Partitions, Store(p)  PROVE Undisturbed'
  <2>1. \A q \in Partitions : spc'[q] # "dead"
    <3>1. CASE Add(p)
      BY <1>0, <1>2, <3>1 DEF Undisturbed, Add, TypeOK
    <3> QED BY <1>0, <1>1, <1>2, <1>5, <3>1
            DEF Undisturbed, Store, CheckBlocking, Input, Tick, InputClosed,
                StoreDone, Renew, TypeOK
  <2>2. UNCHANGED <<once, inputsClosed, closed, fpc, dpc>>
    BY <1>5 DEF Store, CheckBlocking, Input, Add, Tick, InputClosed, StoreDone, Renew
  <2> QED BY <1>2, <2>1, <2>2 DEF Undisturbed
<1>6. ASSUME NEW p \in Partitions, Flushing(p)  PROVE Undisturbed'
  <2>1. Flush(p)
    BY <1>0, <1>1, <1>2, <1>6
       DEF Undisturbed, Flushing, FlushDone, Drain, DrainTimeout, DrainAgain,
           ShutdownDone, OnceReturns
  <2> QED BY <1>0, <1>2, <2>1 DEF Undisturbed, Flush, TypeOK
<1>7. ASSUME NEW c \in Consumers, Consume(c)  PROVE Undisturbed'
  <2>1. CASE Ack(c)
    <3>1. Running(c) /\ c[2] \in Partitions
      BY <2>1, AckDoes, PairsAre
    <3>2. c[1] = "flush"
      BY <1>2, <3>1, PairsAre DEF Running, Undisturbed
    <3>3. fpc[c[2]] = "consume"
      BY <1>2, <3>1, <3>2 DEF Undisturbed, Running
    <3>4. /\ fpc' = Set(fpc, c[2], "select") /\ dpc' = dpc
          /\ UNCHANGED <<once, inputsClosed, closed, spc>>
      BY <2>1, <3>2, <3>3 DEF Ack, Return
    <3> QED BY <1>0, <1>2, <3>1, <3>4 DEF Undisturbed, TypeOK
  <2>2. CASE ~Ack(c)
    BY <1>2, <1>7, <2>2 DEF Undisturbed, Consume, Forward, FallBack, GiveUp
  <2> QED BY <2>1, <2>2
<1> QED BY <1>1, <1>2, <1>3, <1>4, <1>5, <1>6, <1>7 DEF Next

\* A step that leaves the acknowledgements and the buffers of q alone.
InTurnSame(q) ==
  /\ acked'[q] = acked[q] /\ batches'[q] = batches[q]
  /\ fpc'[q] = fpc[q]
  /\ call'[Flusher(q)].i = call[Flusher(q)].i
  /\ (spc'[q] = "renew") <=> (spc[q] = "renew")

\* Such a step keeps InTurn.
LEMMA InTurnFrame ==
  ASSUME PipeInv, Next, NEW q \in Partitions, InTurn(q), InTurnSame(q)
  PROVE  InTurn(q)'
<1>1. Unacked(q)' = Unacked(q)
  BY DEF Unacked, InTurnSame, Current
<1>2. sent[q] \subseteq sent'[q] /\ failed[q] \subseteq failed'[q]
  BY GrowsStep DEF Grows
<1> QED BY <1>1, <1>2 DEF InTurn, InTurnSame, Settled

\* Before the close signal every step keeps InTurn.
LEMMA InTurnStep ==
  ASSUME PipeInv, Next, ~cancelled', NEW q \in Partitions
  PROVE  InTurn(q)'
<1>t. /\ TypeOK /\ ~cancelled /\ InTurn(q) /\ Undisturbed /\ Flushed(q) /\ Sizes(q)
      /\ batches[q] \in Seq(Seq(Events)) /\ IsRun(batches[q], Stored(q))
      /\ Stored(q) \in Nat /\ Current(q) \in Nat \ {0} /\ Current(q) = Len(batches[q])
  BY UndisturbedStep, PartFacts DEF PipeInv
<1>q. /\ Flusher(q) \in Consumers /\ Flusher(q)[1] = "flush" /\ Flusher(q)[2] = q
      /\ (Running(Flusher(q)) \/ Idle(Flusher(q)))
  BY FlusherIs DEF PipeInv
<1>i. fpc[q] = "consume" => call[Flusher(q)].i \in 1 .. Current(q)
  BY <1>q DEF Running, Idle
<1>f. ASSUME InTurnSame(q)  PROVE InTurn(q)'
  BY <1>t, <1>f, InTurnFrame
<1>s. UNCHANGED <<sent, failed>> => \A e : Settled(q, e) => Settled(q, e)'
  BY DEF Settled
<1>1. CASE EnqueueDone \/ Listen \/ ListenDone \/ Cancel
  BY <1>1, <1>f DEF InTurnSame, EnqueueDone, Listen, ListenDone, Cancel
<1>2. ASSUME NEW p \in Partitions, Receive(p) \/ Gather(p) \/ Process(p)
      PROVE  InTurnSame(q)
  BY <1>t, <1>2 DEF InTurnSame, Receive, Gather, StartConsumer, Dequeue, CloseQueue,
                    Process, Output, ProcessDone, SendPanics, Undisturbed
<1>3. ASSUME NEW p \in Partitions, Store(p), ~(q = p /\ (Add(p) \/ Renew(p)))
      PROVE  InTurnSame(q)
  <2>1. CASE CheckBlocking(p) \/ InputClosed(p) \/ StoreDone(p) \/ Input(p) \/ Tick(p)
    BY <1>t, <2>1
       DEF InTurnSame, CheckBlocking, InputClosed, StoreDone, Input, Tick, TypeOK
  <2>2. CASE Add(p)
    <3>1. batches'[q] = batches[q]
      BY <1>3, <2>2, AddDoes
    <3> QED BY <1>t, <1>3, <2>2, <3>1 DEF InTurnSame, Add, TypeOK
  <2>3. CASE Renew(p)
    BY <1>t, <1>3, <2>3 DEF InTurnSame, Renew, TypeOK
  <2> QED BY <1>3, <2>1, <2>2, <2>3 DEF Store
<1>4. ASSUME Add(q)  PROVE InTurn(q)'
  <2>1. /\ spc[q] = "add" /\ Len(batches'[q]) = Current(q)
        /\ \A i \in 1 .. Current(q) : FirstOf(batches'[q], i) = FirstOf(batches[q], i)
    BY <1>4, AddDoes
  <2>2. UNCHANGED <<acked, fpc, call, sent, failed>> /\ spc'[q] # "renew"
    BY <1>t, <1>4 DEF Add, TypeOK
  <2>3. Unacked(q)' = Unacked(q) /\ Unacked(q) \in 1 .. Current(q)
    BY <1>t, <1>i, <2>1, <2>2 DEF Unacked, Current
  <2>4. FirstOf(batches'[q], Unacked(q)) = FirstOf(batches[q], Unacked(q))
    BY <2>1, <2>3
  <2> QED BY <1>t, <1>s, <2>2, <2>3, <2>4 DEF InTurn
<1>5. ASSUME Renew(q)  PROVE InTurn(q)'
  <2>1. /\ spc[q] = "renew" /\ Len(batches'[q]) = Current(q) + 1
        /\ \A i \in 1 .. Current(q) + 1 :
             FirstOf(batches'[q], i) = FirstOf(batches[q], i)
    BY <1>5, RenewDoes
  <2>2. UNCHANGED <<acked, fpc, call, sent, failed>> /\ spc'[q] # "renew"
    BY <1>t, <1>5 DEF Renew, TypeOK
  <2>3. Unacked(q)' = Unacked(q) /\ Unacked(q) \in 1 .. Current(q) + 1
    BY <1>t, <1>i, <2>1, <2>2 DEF Unacked, Current
  <2>4. FirstOf(batches'[q], Unacked(q)) = FirstOf(batches[q], Unacked(q))
    BY <2>1, <2>3
  <2> QED BY <1>t, <1>s, <2>2, <2>3, <2>4 DEF InTurn
<1>6. ASSUME NEW p \in Partitions, Flushing(p)  PROVE InTurn(q)'
  <2>1. Flush(p)
    BY <1>t, <1>6
       DEF Undisturbed, Flushing, FlushDone, Drain, DrainTimeout, DrainAgain,
           ShutdownDone, OnceReturns
  <2>2. CASE p # q
    <3>1. Flusher(p) # Flusher(q)
      BY <2>2 DEF Flusher
    <3> QED BY <1>t, <1>f, <1>q, <2>1, <2>2, <3>1 DEF InTurnSame, Flush, TypeOK
  <2>3. CASE p = q
    <3>1. /\ UNCHANGED <<acked, batches, sent, failed>>
          /\ fpc[q] = "select" /\ spc[q] = "send" /\ fpc'[q] = "consume"
          /\ call'[Flusher(q)].i = Current(q)
      BY <1>t, <1>q, <2>1, <2>3 DEF Flush, NewCall, TypeOK
    <3>2. Unacked(q)' = Unacked(q)
      BY <3>1 DEF Unacked
    <3> QED BY <1>t, <1>s, <3>1, <3>2 DEF InTurn
  <2> QED BY <2>2, <2>3
<1>7. ASSUME NEW c \in Consumers, Forward(c) \/ FallBack(c) \/ GiveUp(c)
      PROVE  InTurnSame(q)
  <2>1. call'[Flusher(q)].i = call[Flusher(q)].i
    BY <1>t, <1>q, <1>7, CallKeeps
  <2> QED BY <1>7, <2>1 DEF InTurnSame, Forward, FallBack, GiveUp
<1>8. ASSUME NEW c \in Consumers, Ack(c), c # Flusher(q)  PROVE InTurnSame(q)
  <2>1. Running(c) /\ c[2] \in Partitions
        /\ (c[1] = "flush" => c = Flusher(c[2]))
    BY <1>8, AckDoes, PairsAre
  <2>2. c[1] = "flush" /\ fpc[c[2]] = "consume" /\ call[c].part = c[2] /\ c[2] # q
    BY <1>t, <1>8, <2>1, PairsAre DEF Running, Undisturbed
  <2>3. call'[Flusher(q)] = call[Flusher(q)] /\ acked'[q] = acked[q] /\ fpc'[q] = fpc[q]
    BY <1>t, <1>q, <1>8, <2>1, <2>2 DEF Ack, Return, TypeOK
  <2> QED BY <1>8, <2>3 DEF InTurnSame, Ack, Return
<1>9. ASSUME Ack(Flusher(q))  PROVE InTurn(q)'
  <2> DEFINE k == call[Flusher(q)]
             b == batches[q]
  <2>1. Running(Flusher(q)) /\ k.f = Len(Forwarders) + 1
    BY <1>q, <1>9, AckDoes
  <2>2. fpc[q] = "consume" /\ k.part = q
    BY <1>t, <1>q, <2>1 DEF Running, Undisturbed
  <2>3. /\ k.i \in 1 .. Current(q) /\ b[k.i] # <<>>
        /\ k.i = (IF spc[q] = "renew" THEN Current(q) ELSE Current(q) - 1)
        /\ k.got = ToSet(b[k.i])
    BY <1>t, <1>q, <1>9, <2>2, AckDoes, SMTT(40) DEF Flushed
  <2>4. /\ acked'[q] = Last(b[k.i]) /\ fpc'[q] = "select"
        /\ UNCHANGED <<batches, spc, sent, failed>>
    BY <1>t, <1>q, <1>9, <2>2 DEF Ack, Return, TypeOK, Undisturbed
  <2>5. Unacked(q) = k.i /\ Unacked(q)' = k.i + 1
    BY <1>t, <2>2, <2>3, <2>4 DEF Unacked, Current
  <2>6. /\ Last(b[k.i]) \in Nat /\ FirstOf(b, k.i + 1) = Last(b[k.i]) + 1
        /\ FirstOf(b, k.i) \in Nat
        /\ \A e \in FirstOf(b, k.i) .. Last(b[k.i]) : e \in ToSet(b[k.i])
    BY <1>t, <2>3, RunFacts, SMTT(40)
  <2>7. ASSUME NEW e \in 1 .. Last(b[k.i])  PROVE Settled(q, e)
    <3>1. CASE e < FirstOf(b, k.i)
      BY <1>t, <2>5, <2>6, <3>1 DEF InTurn
    <3>2. CASE ~(e < FirstOf(b, k.i))
      <4>1. e \in k.got
        BY <2>3, <2>6, <3>2
      <4>2. \A g \in 1 .. Len(Forwarders) :
              Forwarders[g] = TypeOf[e] => e \in sent[q] \cup failed[q]
        BY <2>1, <2>2, <4>1, PipeAssumption DEF Running
      <4> QED BY <4>2, PipeAssumption DEF Settled, ToSet
    <3> QED BY <3>1, <3>2
  <2>9. FirstOf(b, k.i + 1) - 1 = Last(b[k.i])
    BY <2>6
  <2> QED BY <1>s, <2>4, <2>5, <2>7, <2>9 DEF InTurn
<1> QED
  <2>1. ASSUME NEW p \in Partitions,
               Receive(p) \/ Gather(p) \/ Process(p) \/ Store(p) \/ Flushing(p)
        PROVE  InTurn(q)'
    BY <1>f, <1>2, <1>3, <1>4, <1>5, <1>6, <2>1
  <2>2. ASSUME NEW c \in Consumers, Consume(c)  PROVE InTurn(q)'
    BY <1>f, <1>7, <1>8, <1>9, <2>2 DEF Consume
  <2> QED BY <1>1, <2>1, <2>2 DEF Next

-----------------------------------------------------------------------------
\* The shutdown.

\* Every step keeps Shutdown.
LEMMA ShutdownStep ==
  ASSUME PipeInv, Next
  PROVE  Shutdown'
<1>t. TypeOK /\ Shutdown
  BY DEF PipeInv
<1>n. PartitionCount \in Nat \ {0} /\ PartitionCount \notin Partitions
  BY PipeAssumption DEF Partitions
<1>f. ASSUME UNCHANGED <<fpc, again, dpc, once, inputsClosed>>  PROVE Shutdown'
  BY <1>t, <1>f DEF Shutdown
<1>1. CASE EnqueueDone \/ Listen \/ ListenDone \/ Cancel
  BY <1>1, <1>f DEF EnqueueDone, Listen, ListenDone, Cancel
<1>2. ASSUME NEW p \in Partitions, Receive(p) \/ Gather(p) \/ Output(p) \/ ProcessDone(p)
      PROVE  Shutdown'
  BY <1>2, <1>f DEF Receive, Gather, StartConsumer, Dequeue, CloseQueue, Output,
                    ProcessDone
<1>3. ASSUME NEW p \in Partitions, Store(p)  PROVE Shutdown'
  BY <1>3, <1>f DEF Store, CheckBlocking, Input, Add, Tick, InputClosed, StoreDone, Renew
<1>4. ASSUME NEW p \in Partitions, SendPanics(p)  PROVE Shutdown'
  BY <1>t, <1>4 DEF SendPanics, Shutdown
<1>5. ASSUME NEW c \in Consumers, Forward(c) \/ FallBack(c) \/ GiveUp(c)
      PROVE  Shutdown'
  BY <1>5, <1>f DEF Forward, FallBack, GiveUp
<1>6. ASSUME NEW c \in Consumers, Ack(c)  PROVE Shutdown'
  <2>1. Running(c) /\ c[2] \in Partitions /\ c[1] \in {"flush", "drain"}
        /\ UNCHANGED <<once, inputsClosed>>
    BY <1>6, AckDoes, PairsAre DEF Ack, Return
  <2>2. CASE c[1] = "flush" /\ fpc[c[2]] = "consume"
    <3>1. fpc' = Set(fpc, c[2], "select") /\ UNCHANGED <<again, dpc>>
      BY <1>6, <2>2 DEF Ack, Return
    <3> QED BY <1>t, <2>1, <2>2, <3>1, ZenonT(40) DEF Shutdown, TypeOK
  <2>3. CASE c[1] = "flush" /\ fpc[c[2]] # "consume"
    <3>1. again' = Set(again, c[2], again[c[2]] + 1) /\ UNCHANGED <<fpc, dpc>>
      BY <1>6, <2>3 DEF Ack, Return
    <3>2. fpc[c[2]] = "again"
      BY <2>1, <2>3 DEF Running
    <3> QED BY <1>t, <2>1, <3>1, <3>2 DEF Shutdown, TypeOK
  <2>4. CASE c[1] = "drain"
    <3>1. dpc' = Set(dpc, c[2], "done") /\ UNCHANGED <<fpc, again>>
      BY <1>6, <2>4 DEF Ack, Return
    <3>2. dpc[c[2]] = "consume"
      BY <2>1, <2>4 DEF Running
    <3> QED BY <1>t, <2>1, <3>1, <3>2 DEF Shutdown, TypeOK
  <2> QED BY <2>1, <2>2, <2>3, <2>4
<1>7. ASSUME NEW p \in Partitions, Flush(p)  PROVE Shutdown'
  BY <1>t, <1>7 DEF Shutdown, Flush, TypeOK
<1>8. ASSUME NEW p \in Partitions, FlushDone(p)  PROVE Shutdown'
  <2>1. CASE once = "new"
    <3>1. /\ once' = "running" /\ fpc' = Set(fpc, p, "wait") /\ inputsClosed' = TRUE
          /\ again' = again
      BY <1>8, <2>1 DEF FlushDone
    <3>2. \A q \in Partitions : fpc[q] \notin {"wait", "again", "exit"}
      BY <1>t, <2>1 DEF Shutdown
    <3> QED BY <1>t, <1>8, <3>1, <3>2 DEF Shutdown, FlushDone, TypeOK
  <2>2. CASE once # "new"
    <3>1. fpc' = Set(fpc, p, "once") /\ UNCHANGED <<once, inputsClosed, dpc, again>>
      BY <1>8, <2>2 DEF FlushDone
    <3>2. fpc[p] = "select"
      BY <1>8 DEF FlushDone
    <3> QED BY <1>t, <2>2, <3>1, <3>2 DEF Shutdown, TypeOK
  <2> QED BY <2>1, <2>2
<1>9. ASSUME NEW p \in Partitions, Drain(p)  PROVE Shutdown'
  BY <1>t, <1>9 DEF Shutdown, Drain, TypeOK
<1>10. ASSUME NEW p \in Partitions, DrainTimeout(p)  PROVE Shutdown'
  BY <1>t, <1>10 DEF Shutdown, DrainTimeout, TypeOK
<1>11. ASSUME NEW p \in Partitions, DrainAgain(p)  PROVE Shutdown'
  BY <1>t, <1>11 DEF Shutdown, DrainAgain, TypeOK
<1>12. ASSUME NEW p \in Partitions, ShutdownDone(p)  PROVE Shutdown'
  BY <1>t, <1>12 DEF Shutdown, ShutdownDone, TypeOK
<1>13. ASSUME NEW p \in Partitions, OnceReturns(p)  PROVE Shutdown'
  BY <1>t, <1>13 DEF Shutdown, OnceReturns, TypeOK
<1> QED BY <1>1, <1>2, <1>3, <1>4, <1>5, <1>6, <1>7, <1>8, <1>9, <1>10, <1>11, <1>12,
           <1>13 DEF Next, Process, Flushing, Consume

-----------------------------------------------------------------------------
\* The invariant, and what follows from it.

\* The first states satisfy the invariant: one empty buffer per partition.
LEMMA PipeInit ==
  ASSUME Init
  PROVE  PipeInv
<1> USE DEF Init, NoEvent
<1>1. NoCall \in CallType
  BY PipeAssumption DEF CallType, NoCall, Partitions
<1>2. << <<>> >> \in Seq(Seq(Events)) /\ << <<>> >> # <<>>
  OBVIOUS
<1>a. batches \in [Partitions -> Seq(Seq(Events))] /\ call \in [Consumers -> CallType]
      /\ \A p \in Partitions : batches[p] # <<>>
  BY <1>1, <1>2
<1>b. 0 \in 0 .. MaxEvents /\ 0 \in 0 .. PartitionCount
  BY PipeAssumption
<1>3. TypeOK
  BY <1>a, <1>b DEF TypeOK
<1>4. ASSUME NEW p \in Partitions
      PROVE  /\ batches[p] = << <<>> >> /\ Stored(p) = 0 /\ Current(p) = 1
             /\ Buffer(p) = <<>> /\ IsRun(batches[p], 0)
             /\ FirstOf(batches[p], 1) = 1
  BY DEF Stored, One, Current, Buffer, IsRun, FirstOf
<1>5. ASSUME NEW p \in Partitions
      PROVE  /\ Flow(p) /\ Sizes(p) /\ Flushed(p) /\ acked[p] <= Stored(p)
             /\ InTurn(p)
  BY <1>4, PipeAssumption DEF Flow, Sizes, Flushed, InTurn, Unacked
<1>6. \A c \in Consumers : Idle(c)
  BY DEF Idle, Consumers
<1>7. Undisturbed /\ Shutdown
  BY DEF Undisturbed, Shutdown
<1> QED BY <1>3, <1>5, <1>6, <1>7 DEF PipeInv

\* A step that changes nothing keeps the invariant.
LEMMA PipeStutter ==
  ASSUME PipeInv, UNCHANGED vars
  PROVE  PipeInv'
BY DEF PipeInv, TypeOK, Flow, Sizes, Flushed, Stored, Running, Idle, Undisturbed,
       InTurn, Unacked, Settled, Current, Buffer, Shutdown

\* Every step of every goroutine keeps the invariant.
LEMMA PipeStep ==
  ASSUME PipeInv, Next
  PROVE  PipeInv'
BY TypeStep, FlowStep, SizesStep, FlushedStep, AckedStep, ConsumerStep,
   UndisturbedStep, InTurnStep, ShutdownStep DEF PipeInv

(***************************************************************************)
(* The inductive invariant holds in every state the pipe reaches.          *)
(***************************************************************************)
THEOREM PipeInvariant == Spec => []PipeInv
<1>1. Init => PipeInv
  BY PipeInit
<1>2. PipeInv /\ [Next]_vars => PipeInv'
  BY PipeStep, PipeStutter
<1> QED BY <1>1, <1>2, PTL DEF Spec

(***************************************************************************)
(* The offsets, goroutines, buffers and calls of the pipe keep their types *)
(* for any number of partitions and any sizes.                             *)
(***************************************************************************)
THEOREM PipeTypeCorrect == Spec => []TypeOK
<1>1. PipeInv => TypeOK
  BY DEF PipeInv
<1> QED BY <1>1, PipeInvariant, PTL

\* An event in hand that is the next one continues the sequence of events.
LEMMA UptoHeld ==
  ASSUME NEW a \in Nat, NEW e \in Nat, e # NoEvent => e = a + 1
  PROVE  Upto(a) \o Held(e) = Upto(a + One(e)) /\ a + One(e) \in Nat
<1>1. CASE e = NoEvent
  <2>1. Upto(a) \in Seq(Nat)
    BY UptoIs
  <2> QED BY <1>1, <2>1, ConcatEmptySeq DEF Held, One
<1>2. CASE e # NoEvent
  <2>1. <<e>> \in Seq(Nat) /\ Len(<<e>>) = 1 /\ \A j \in 1 .. Len(<<e>>) : <<e>>[j] = a + j
    BY <1>2
  <2> QED BY <1>2, <2>1, UptoConcat DEF Held, One
<1> QED BY <1>1, <1>2

(***************************************************************************)
(* Nothing taken from a queue is lost, duplicated or reordered between the *)
(* queue and the buffers of the sender, whatever the goroutines' schedule, *)
(* during shutdown too.                                                    *)
(***************************************************************************)
THEOREM PipeConserves == Spec => []Conserved
<1>1. ASSUME PipeInv, NEW p \in Partitions
      PROVE  FlattenSeq(batches[p]) \o Held(sev[p]) \o Held(work[p]) \o Held(hand[p])
               = Upto(taken[p])
  <2>1. /\ batches[p] \in Seq(Seq(Events)) /\ IsRun(batches[p], Stored(p))
        /\ Stored(p) \in Nat /\ Flow(p) /\ TypeOK
    BY <1>1, PartFacts
  <2>2. sev[p] \in Nat /\ work[p] \in Nat /\ hand[p] \in Nat /\ taken[p] \in Nat
    BY <2>1, PipeAssumption DEF TypeOK, Events, NoEvent
  <2> DEFINE a == Stored(p) + One(sev[p])
             b == a + One(work[p])
  <2>3. b + One(hand[p]) = taken[p]
    BY <2>2 DEF Stored, One
  <2>4. /\ sev[p] # NoEvent => sev[p] = Stored(p) + 1
        /\ work[p] # NoEvent => work[p] = a + 1
        /\ hand[p] # NoEvent => hand[p] = b + 1
    BY <2>1, <2>2, <2>3 DEF Flow, Stored, One
  <2>5. FlattenSeq(batches[p]) = Upto(Stored(p))
    BY <2>1, RunFlatten
  <2>6. Upto(Stored(p)) \o Held(sev[p]) = Upto(a) /\ a \in Nat
    BY <2>1, <2>2, <2>4, UptoHeld
  <2> HIDE DEF a
  <2>7. Upto(a) \o Held(work[p]) = Upto(b) /\ b \in Nat
    BY <2>2, <2>4, <2>6, UptoHeld
  <2> HIDE DEF b
  <2>8. Upto(b) \o Held(hand[p]) = Upto(taken[p])
    BY <2>2, <2>3, <2>4, <2>7, UptoHeld
  <2> QED BY <2>5, <2>6, <2>7, <2>8
<1>2. PipeInv => Conserved
  BY <1>1 DEF Conserved
<1> QED BY <1>2, PipeInvariant, PTL

(***************************************************************************)
(* An event still in the hands of the gatherer, the processor or store is  *)
(* not acknowledged, so a shutdown that drops it there loses nothing.      *)
(***************************************************************************)
THEOREM PipeHoldsUnacked == Spec => []HeldNotAcked
<1>1. ASSUME PipeInv, NEW p \in Partitions,
             NEW e \in {sev[p], work[p], hand[p]} \ {NoEvent}
      PROVE  acked[p] < e
  <2>1. /\ Flow(p) /\ Stored(p) \in Nat /\ acked[p] \in Nat /\ acked[p] <= Stored(p)
        /\ taken[p] \in Nat
    BY <1>1, PartFacts, PipeAssumption
  <2>2. CASE e = sev[p]
    BY <2>1, <2>2 DEF Flow
  <2>3. CASE e = work[p]
    BY <2>1, <2>3 DEF Flow, Stored, One
  <2>4. CASE e = hand[p]
    BY <2>1, <2>4 DEF Flow, Stored, One
  <2> QED BY <2>2, <2>3, <2>4
<1>2. PipeInv => HeldNotAcked
  BY <1>1 DEF HeldNotAcked
<1> QED BY <1>2, PipeInvariant, PTL

(***************************************************************************)
(* Until the close signal an acknowledgement covers only events whose      *)
(* forwarding has ended, for any number of forwarders and attempts.        *)
(***************************************************************************)
THEOREM PipeAcksAfterForward == Spec => []AckedAfterForward
<1>1. ASSUME PipeInv, ~cancelled, NEW p \in Partitions, NEW e \in 1 .. acked[p]
      PROVE  Settled(p, e)
  BY <1>1 DEF PipeInv, InTurn
<1>2. PipeInv => AckedAfterForward
  BY <1>1 DEF AckedAfterForward, AllSettled
<1> QED BY <1>2, PipeInvariant, PTL

(***************************************************************************)
(* Until the close signal an acknowledgement never takes a queue's         *)
(* committed offset back.                                                  *)
(***************************************************************************)
THEOREM PipeAcksForward == Spec => AckMovesForward
<1> DEFINE Forth == ~cancelled => \A p \in Partitions : acked[p] <= acked'[p]
<1>1. ASSUME PipeInv, Next, ~cancelled, NEW q \in Partitions
      PROVE  acked[q] <= acked'[q]
  <2>1. /\ TypeOK /\ acked[q] \in Nat /\ Undisturbed /\ InTurn(q)
        /\ batches[q] \in Seq(Seq(Events)) /\ IsRun(batches[q], Stored(q))
        /\ Stored(q) \in Nat /\ Current(q) = Len(batches[q])
    BY <1>1, PartFacts DEF PipeInv
  <2>2. CASE \E c \in Consumers : Ack(c)
    <3>1. PICK c \in Consumers : Ack(c)
      BY <2>2
    <3> DEFINE p == call[c].part
               i == call[c].i
    <3>2. /\ p \in Partitions /\ Running(c) /\ i \in 1 .. Current(p)
          /\ batches[p][i] # <<>>
          /\ acked' = IF closed THEN acked ELSE Set(acked, p, Last(batches[p][i]))
      BY <1>1, <3>1, AckDoes
    <3>3. CASE p # q \/ closed
      <4>1. acked'[q] = acked[q]
        BY <2>1, <3>2, <3>3 DEF TypeOK
      <4> QED BY <2>1, <4>1
    <3>4. CASE p = q /\ ~closed
      <4>1. acked'[q] = Last(batches[q][i])
        BY <2>1, <3>2, <3>4 DEF TypeOK
      <4>2. c = Flusher(q) /\ fpc[q] = "consume"
        BY <2>1, <3>2, <3>4, PairsAre DEF Running, Undisturbed
      <4>3. acked[q] = FirstOf(batches[q], i) - 1
        BY <2>1, <4>2 DEF InTurn, Unacked
      <4>4. /\ Len(batches[q][i]) \in Nat \ {0} /\ FirstOf(batches[q], i) \in Nat \ {0}
            /\ Last(batches[q][i]) = FirstOf(batches[q], i) + Len(batches[q][i]) - 1
        BY <2>1, <3>2, <3>4, RunFacts
      <4> QED BY <4>1, <4>3, <4>4
    <3> QED BY <3>3, <3>4
  <2>3. CASE ~\E c \in Consumers : Ack(c)
    <3>1. acked' = acked
      BY <1>1, <2>3, OnlyAcks
    <3> QED BY <2>1, <3>1
  <2> QED BY <2>2, <2>3
<1>2. PipeInv /\ [Next]_vars => [Forth]_vars
  BY <1>1
<1>3. Spec => [][Forth]_vars
  BY <1>2, PipeInvariant, PTL DEF Spec
<1> QED BY <1>3 DEF AckMovesForward

(***************************************************************************)
(* Until the close signal at most two buffers and one event per channel    *)
(* are out of a queue and not acknowledged, for any buffer size.           *)
(***************************************************************************)
THEOREM PipeBoundsInFlight == Spec => []InFlightBound
<1>1. ASSUME PipeInv, ~cancelled, NEW p \in Partitions
      PROVE  taken[p] - acked[p] <= 2 * MaxBufferSize + 2
  <2> DEFINE b == batches[p]
             m == Current(p)
             n == Stored(p)
             l == Len(batches[p][Current(p)])
             first == FirstOf(batches[p], Current(p))
  <2>1. /\ TypeOK /\ Undisturbed /\ InTurn(p) /\ Flow(p) /\ Sizes(p) /\ Flushed(p)
        /\ b \in Seq(Seq(Events)) /\ IsRun(b, n) /\ n \in Nat
        /\ m = Len(b) /\ m \in Nat \ {0} /\ m \in 1 .. m
        /\ l = Len(Buffer(p)) /\ l \in Nat
    BY <1>1, PartFacts DEF PipeInv
  <2>2. first \in Nat \ {0} /\ n = first + l - 1 /\ l <= MaxBufferSize
    BY <2>1 DEF IsRun, Sizes
  <2>3. taken[p] <= n + One(sev[p]) + 2 /\ taken[p] \in Nat
        /\ One(sev[p]) \in {0, 1}
    BY <2>1, PipeAssumption, SMTT(40) DEF TypeOK, Stored, One
  <2>5. l + One(sev[p]) <= MaxBufferSize
    <3>1. CASE sev[p] = NoEvent
      BY <2>2, <3>1, PipeAssumption DEF One
    <3>2. CASE sev[p] # NoEvent
      <4>1. l < MaxBufferSize
        BY <2>1, <3>2 DEF Flow, Undisturbed, Sizes
      <4> QED BY <2>1, <3>2, <4>1, PipeAssumption DEF One
    <3> QED BY <3>1, <3>2
  <2>6. acked[p] = FirstOf(b, Unacked(p)) - 1
    BY <2>1 DEF InTurn
  <2> DEFINE u == FirstOf(batches[p], Unacked(p))
  <2>7. u \in Nat \ {0} /\ n + 1 - u <= MaxBufferSize + l
    <3>1. CASE Unacked(p) = m
      BY <2>1, <2>2, <3>1, PipeAssumption
    <3>2. CASE fpc[p] # "consume" /\ spc[p] = "renew"
      <4>1. Unacked(p) = m + 1
        BY <3>2 DEF Unacked
      <4>2. b[m] # <<>>
        BY <2>1, <3>2 DEF Sizes
      <4>3. FirstOf(b, m + 1) = Last(b[m]) + 1 /\ Last(b[m]) = first + l - 1
        BY <2>1, <4>2, RunFacts
      <4> QED BY <2>1, <2>2, <4>1, <4>3, PipeAssumption, SMTT(40)
    <3>3. CASE fpc[p] = "consume" /\ spc[p] # "renew"
      <4> DEFINE i == call[Flusher(p)].i
      <4>1. Unacked(p) = i /\ i = m - 1
        BY <2>1, <3>3 DEF Unacked, Flushed
      <4>2. i \in 1 .. m
        BY <1>1, <3>3, FlusherIs DEF PipeInv, Running, Idle
      <4>3. i \in 1 .. Len(b) /\ i # Len(b) /\ i + 1 = m
        BY <2>1, <4>1, <4>2
      <4>4. b[i] # <<>>
        BY <2>1, <4>3 DEF IsRun
      <4>5. /\ u \in Nat \ {0} /\ Len(b[i]) \in Nat
            /\ first = Last(b[i]) + 1 /\ Last(b[i]) = u + Len(b[i]) - 1
        BY <2>1, <4>1, <4>3, <4>4, RunFacts
      <4>6. Len(b[i]) <= MaxBufferSize
        BY <2>1, <4>2 DEF Sizes
      <4> HIDE DEF b, n, l, first, u
      <4>7. n = u + Len(b[i]) + l - 1
        BY <2>1, <2>2, <4>5
      <4> QED BY <2>1, <2>2, <4>5, <4>6, <4>7, PipeAssumption
    <3> QED BY <2>1, <3>1, <3>2, <3>3 DEF Unacked, Flushed
  <2> HIDE DEF b, m, n, l, first, u
  <2>8. acked[p] = u - 1
    BY <2>6 DEF u, b
  <2> QED BY <2>1, <2>2, <2>3, <2>5, <2>7, <2>8, PipeAssumption, SMTT(40)
<1>2. PipeInv => InFlightBound
  BY <1>1 DEF InFlightBound
<1> QED BY <1>2, PipeInvariant, PTL

(***************************************************************************)
(* No flush goroutine returns before every buffer was forwarded, or forced *)
(* once more after the timeout.                                            *)
(***************************************************************************)
THEOREM PipeDrains == Spec => []DrainedBeforeExit
<1>1. PipeInv => DrainedBeforeExit
  BY DEF PipeInv, Shutdown, DrainedBeforeExit
<1> QED BY <1>1, PipeInvariant, PTL
=============================================================================
