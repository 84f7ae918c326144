---------------------------- MODULE SerialIoProofs ----------------------------
(***************************************************************************)
(* Proofs about SerialIo, for every set of processes, characters and       *)
(* texts and every size of the input buffer.  The scheduler's part rests   *)
(* on the lemmas of SchedulerProofs: as the serial file does not keep the  *)
(* contract of the scheduler, the proof has to say where it does.          *)
(***************************************************************************)
EXTENDS SerialIo, SchedulerProofs

\* The readers in the queue that live wait on the blocked list, in the opposite
\* order.
ReadersBlocked(k, readers) ==
    /\ \A p \in k.scheduled : Contains(readers, p) => Contains(k.blocked, p)
    /\ \A p, q :
          Precedes(k.blocked, p, q) /\ Contains(readers, p) /\ Contains(readers, q) =>
              Precedes(readers, q, p)

\* The state of the scheduler: process 0 lives, and the machine halts only by a
\* resumed reader that was killed.
KeServes(k, readers) ==
    /\ k \in KeState
    /\ ~k.bugcheck => Healthy(k) /\ ReadersBlocked(k, readers) /\ IsInjective(readers)

\* The input buffer.
Clean(f) ==
    /\ f \in [buffer : [0 .. FIFO_SIZE - 1 -> Char \cup {NUL}],
              length : 0 .. FIFO_SIZE - 1]
    /\ \A i \in 0 .. FIFO_SIZE - 1 : f.buffer[i] = NUL <=> i >= f.length

\* The texts to be displayed.
OutputType(o) ==
    /\ o = [texts |-> o.texts, pointer |-> o.pointer]
    /\ o.texts \in Seq(Text)
    /\ IF o.texts = <<>>
       THEN o.pointer = NoPointer
       ELSE o.pointer \in 0 .. Len(Head(o.texts))

\* The inductive invariant.
IoInv ==
    /\ KeServes(ke, waiting)
    /\ waiting \in Seq(Process)
    /\ Clean(fifo)
    /\ OutputType(output)
-----------------------------------------------------------------------------
\* AddCharToBuffer keeps characters in front and NUL behind them, and a buffer
\* that was given a character has one.
LEMMA AddCharClean ==
    ASSUME NEW f, Clean(f), NEW c \in Char
    PROVE  Clean(AddCharToBuffer(f, c)) /\ AddCharToBuffer(f, c).buffer[0] # NUL
<1> DEFINE g == AddCharToBuffer(f, c)
           n == f.length
<1>1. /\ FIFO_SIZE \in Nat /\ FIFO_SIZE > 1 /\ c # NUL
      /\ n \in 0 .. FIFO_SIZE - 1
      /\ f.buffer \in [0 .. FIFO_SIZE - 1 -> Char \cup {NUL}]
    BY SerialIoAssumption DEF Clean
<1>2. CASE n + 1 < FIFO_SIZE
    <2>1. /\ g \in [buffer : [0 .. FIFO_SIZE - 1 -> Char \cup {NUL}],
                    length : 0 .. FIFO_SIZE - 1]
          /\ g.buffer = [f.buffer EXCEPT ![n] = c]
          /\ g.length = n + 1
        <3>1. [f.buffer EXCEPT ![n] = c] \in [0 .. FIFO_SIZE - 1 -> Char \cup {NUL}]
            BY <1>1
        <3>2. n + 1 \in 0 .. FIFO_SIZE - 1
            BY <1>1, <1>2
        <3>3. g = [f EXCEPT !.buffer = [f.buffer EXCEPT ![n] = c], !.length = n + 1]
            BY <1>2 DEF AddCharToBuffer, Clean
        <3> HIDE DEF g
        <3>4. QED
            BY <3>1, <3>2, <3>3 DEF Clean
    <2> HIDE DEF g
    <2>2. ASSUME NEW i \in 0 .. FIFO_SIZE - 1
          PROVE  g.buffer[i] = NUL <=> i >= g.length
        BY <1>1, <2>1 DEF Clean
    <2>3. Clean(g)
        BY <2>1, <2>2 DEF Clean
    <2>4. 0 \in 0 .. FIFO_SIZE - 1 /\ ~(0 >= g.length)
        BY <1>1, <2>1
    <2>5. QED
        BY <2>2, <2>3, <2>4 DEF g
<1>3. CASE ~(n + 1 < FIFO_SIZE)
    <2>1. g = f
        BY <1>3 DEF AddCharToBuffer
    <2>2. 0 \in 0 .. FIFO_SIZE - 1 /\ ~(0 >= n)
        BY <1>1, <1>3
    <2>3. QED
        BY <2>1, <2>2 DEF Clean
<1>4. QED
    BY <1>2, <1>3

\* GetFirstCharFromBuffer moves a NUL up behind the last character.
LEMMA WithoutFirstCharClean ==
    ASSUME NEW f, Clean(f)
    PROVE  Clean(WithoutFirstChar(f))
<1> DEFINE g == WithoutFirstChar(f)
           n == f.length
<1>1. /\ FIFO_SIZE \in Nat /\ FIFO_SIZE > 1
      /\ n \in 0 .. FIFO_SIZE - 1
      /\ f.buffer \in [0 .. FIFO_SIZE - 1 -> Char \cup {NUL}]
    BY SerialIoAssumption DEF Clean
<1>2. /\ g.length = IF n > 0 THEN n - 1 ELSE 0
      /\ \A i \in 0 .. FIFO_SIZE - 1 :
            g.buffer[i] = IF i < n THEN f.buffer[i + 1] ELSE f.buffer[i]
    BY DEF WithoutFirstChar
<1>3. ASSUME NEW i \in 0 .. FIFO_SIZE - 1
      PROVE  i < n => i + 1 \in 0 .. FIFO_SIZE - 1
    BY <1>1
<1>4. g \in [buffer : [0 .. FIFO_SIZE - 1 -> Char \cup {NUL}],
             length : 0 .. FIFO_SIZE - 1]
    BY <1>1, <1>3 DEF WithoutFirstChar
<1> HIDE DEF g
<1>5. ASSUME NEW i \in 0 .. FIFO_SIZE - 1
      PROVE  g.buffer[i] = NUL <=> i >= g.length
    <2>1. CASE i < n
        <3>1. g.buffer[i] = f.buffer[i + 1] /\ i + 1 \in 0 .. FIFO_SIZE - 1
            BY <1>2, <1>3, <2>1
        <3>2. f.buffer[i + 1] = NUL <=> i + 1 >= n
            BY <3>1 DEF Clean
        <3>3. QED
            BY <1>1, <1>2, <2>1, <3>1, <3>2
    <2>2. CASE ~(i < n)
        <3>1. g.buffer[i] = f.buffer[i]
            BY <1>2, <2>2
        <3>2. f.buffer[i] = NUL
            BY <1>1, <2>2 DEF Clean
        <3>3. QED
            BY <1>1, <1>2, <2>2, <3>1, <3>2
    <2>3. QED
        BY <2>1, <2>2
<1>6. QED
    BY <1>4, <1>5 DEF Clean, g
-----------------------------------------------------------------------------
\* The calls of the scheduler, as far as the serial file depends on them: that
\* the machine runs on is in SchedulerProofs, what follows is about the order of
\* the blocked list.
\*
\* The order of a list, and of one that was made from it.
LEMMA PrecedesContains ==
    ASSUME NEW P, NEW L \in Seq(P), NEW p, NEW q, Precedes(L, p, q)
    PROVE  Contains(L, p) /\ Contains(L, q)
BY DEF Precedes, Contains

LEMMA PrependPrecedes ==
    ASSUME NEW P, NEW L \in Seq(P), NEW x \in P, NEW p, NEW q, Precedes(<<x>> \o L, p, q)
    PROVE  (p = x /\ Contains(L, q)) \/ Precedes(L, p, q)
<1> DEFINE R == <<x>> \o L
<1>1. /\ Len(L) \in Nat /\ DOMAIN L = 1 .. Len(L)
      /\ R \in Seq(P) /\ Len(R) = Len(L) + 1 /\ DOMAIN R = 1 .. Len(R)
      /\ R[1] = x /\ \A i \in 1 .. Len(R) : i # 1 => R[i] = L[i - 1]
    OBVIOUS
<1> HIDE DEF R
<1>2. PICK i, j \in DOMAIN R : i < j /\ R[i] = p /\ R[j] = q
    BY DEF Precedes, R
<1>3. j - 1 \in 1 .. Len(L) /\ L[j - 1] = q
    BY <1>1, <1>2
<1>4. CASE i = 1
    BY <1>1, <1>2, <1>3, <1>4 DEF Contains
<1>5. CASE i # 1
    <2>1. i - 1 \in 1 .. Len(L) /\ L[i - 1] = p /\ i - 1 < j - 1
        BY <1>1, <1>2, <1>5
    <2> QED BY <1>1, <1>3, <2>1 DEF Precedes
<1> QED BY <1>4, <1>5

LEMMA AppendPrecedes ==
    ASSUME NEW P, NEW L \in Seq(P), NEW x \in P, NEW p, NEW q
    PROVE  /\ Precedes(L, p, q) => Precedes(Append(L, x), p, q)
           /\ Contains(L, p) => Precedes(Append(L, x), p, x)
<1> DEFINE R == Append(L, x)
<1>1. /\ Len(L) \in Nat /\ DOMAIN L = 1 .. Len(L)
      /\ Len(R) = Len(L) + 1 /\ DOMAIN R = 1 .. Len(L) + 1
      /\ R[Len(L) + 1] = x /\ \A i \in 1 .. Len(L) : R[i] = L[i]
    OBVIOUS
<1> HIDE DEF R
<1>2. ASSUME Precedes(L, p, q) PROVE Precedes(R, p, q)
    <2>1. PICK i, j \in DOMAIN L : i < j /\ L[i] = p /\ L[j] = q
        BY <1>2 DEF Precedes
    <2>2. i \in DOMAIN R /\ j \in DOMAIN R /\ R[i] = p /\ R[j] = q
        BY <1>1, <2>1
    <2> QED BY <2>1, <2>2 DEF Precedes
<1>3. ASSUME Contains(L, p) PROVE Precedes(R, p, x)
    <2>1. PICK i \in 1 .. Len(L) : L[i] = p
        BY <1>3 DEF Contains
    <2>2. i \in DOMAIN R /\ R[i] = p /\ Len(L) + 1 \in DOMAIN R /\ i < Len(L) + 1
        BY <1>1, <2>1
    <2> QED BY <1>1, <2>2 DEF Precedes
<1> QED BY <1>2, <1>3 DEF R

LEMMA TailPrecedes ==
    ASSUME NEW P, NEW L \in Seq(P), L # <<>>, NEW p, NEW q, Precedes(L, p, q), p # Head(L)
    PROVE  Precedes(Tail(L), p, q)
<1> DEFINE T == Tail(L)
<1>1. /\ Len(L) \in Nat /\ DOMAIN L = 1 .. Len(L) /\ Head(L) = L[1]
      /\ DOMAIN T = 1 .. Len(L) - 1 /\ \A i \in 1 .. Len(L) - 1 : T[i] = L[i + 1]
    OBVIOUS
<1> HIDE DEF T
<1>2. PICK i, j \in DOMAIN L : i < j /\ L[i] = p /\ L[j] = q
    BY DEF Precedes
<1>3. i # 1
    BY <1>1, <1>2
<1>4. /\ i - 1 \in 1 .. Len(L) - 1 /\ j - 1 \in 1 .. Len(L) - 1 /\ i - 1 < j - 1
      /\ (i - 1) + 1 = i /\ (j - 1) + 1 = j
    BY <1>1, <1>2, <1>3
<1>5. T[i - 1] = p /\ T[j - 1] = q
    BY <1>1, <1>2, <1>4
<1> QED BY <1>1, <1>4, <1>5 DEF Precedes, T

LEMMA RemoveAtPrecedes ==
    ASSUME NEW P, NEW L \in Seq(P), NEW n \in DOMAIN L, NEW p, NEW q,
           Precedes(RemoveAt(L, n), p, q)
    PROVE  Precedes(L, p, q)
<1> DEFINE R == RemoveAt(L, n)
<1>1. /\ R \in Seq(P) /\ Len(R) = Len(L) - 1
      /\ \A j \in 1 .. Len(L) - 1 : (j < n => R[j] = L[j]) /\ (j >= n => R[j] = L[j + 1])
    BY RemoveAtElements
<1> HIDE DEF R
<1>2. PICK i, j \in DOMAIN R : i < j /\ R[i] = p /\ R[j] = q
    BY DEF Precedes, R
<1>3. Len(L) \in Nat /\ DOMAIN L = 1 .. Len(L) /\ DOMAIN R = 1 .. Len(L) - 1
    BY <1>1
<1> DEFINE a == IF i < n THEN i ELSE i + 1
           b == IF j < n THEN j ELSE j + 1
<1>4. a \in 1 .. Len(L) /\ b \in 1 .. Len(L) /\ a < b
    BY <1>2, <1>3
<1>5. L[a] = p /\ L[b] = q
    BY <1>1, <1>2, <1>3
<1> QED BY <1>3, <1>4, <1>5 DEF Precedes

\* A call takes processes off the blocked list, and leaves the others in order.
KeepsOrder(k, r) == \A x, y : Precedes(r.blocked, x, y) => Precedes(k.blocked, x, y)

\* The process that blocks is the first on the blocked list.
LEMMA BlocksInFront ==
    ASSUME NEW k, Healthy(k), k.current # Idle
    PROVE  KeBlockProcess(k).blocked = <<k.current>> \o k.blocked
<1> DEFINE c == k.current
           B == <<c>> \o k.blocked
           m == [k EXCEPT !.state[c] = "blocked", !.method[c] = FALSE, !.blocked = B]
           r == KeBlockProcess(k)
<1>1. /\ k \in KeState /\ c \in Process /\ k.blocked \in Seq(Process)
      /\ IsInjective(k.blocked) /\ ~Contains(k.blocked, c)
    BY AliveFacts DEF Healthy
<1>2. B \in Seq(Process)
    BY <1>1, PrependFacts
<1>3. r = KepReschedule(m)
    BY DEF KeBlockProcess
<1> HIDE DEF B
<1>4. m \in KeState /\ m.blocked = B
    BY <1>1, <1>2 DEF KeState, States
<1> HIDE DEF m, r
<1>5. r.blocked = B
    BY <1>3, <1>4, RescheduleSameWaiters DEF SameWaiters
<1> QED BY <1>5 DEF r, B

LEMMA RemoveKeepsOrder ==
    ASSUME NEW k \in KeState, NEW p
    PROVE  KeepsOrder(k, RemoveFromBlockedLists(k, p))
<1> DEFINE L == RemoveAt(k.blocked, Position(k.blocked, p))
           u == RemoveFromBlockedLists(k, p)
<1>1. k.blocked \in Seq(Process)
    BY DEF KeState
<1>2. CASE Contains(k.timer, p) \/ ~Contains(k.blocked, p)
    <2>1. u.blocked = k.blocked
        BY <1>2 DEF RemoveFromBlockedLists, KeBugCheck, KeState
    <2> QED BY <2>1 DEF KeepsOrder
<1>3. CASE ~Contains(k.timer, p) /\ Contains(k.blocked, p)
    <2>1. u.blocked = L
        BY <1>3 DEF RemoveFromBlockedLists, KeState
    <2>2. Position(k.blocked, p) \in DOMAIN k.blocked
        BY <1>1, <1>3 DEF Position, Contains
    <2>3. \A x, y : Precedes(L, x, y) => Precedes(k.blocked, x, y)
        BY <1>1, <2>2, RemoveAtPrecedes
    <2> QED BY <2>1, <2>3 DEF KeepsOrder
<1> QED BY <1>2, <1>3

LEMMA ResumeKeepsOrder ==
    ASSUME NEW k, Alive(k), NEW p \in Process, p \in k.scheduled, k.state[p] = "blocked"
    PROVE  KeepsOrder(k, KeResumeProcess(k, p))
<1> DEFINE u == RemoveFromBlockedLists(k, p)
           e == KepEnqueueProcess(u, p)
           d == KepReschedule(e)
           r == KeResumeProcess(k, p)
<1>1. u \in KeState /\ ~u.bugcheck
    BY OffLists
<1>2. KeepsOrder(k, u)
    BY AliveFacts, RemoveKeepsOrder
<1> HIDE DEF u
<1>3. e \in KeState /\ SameWaiters(u, e)
    BY <1>1, EnqueueSameWaiters
<1> HIDE DEF e
<1>4. SameWaiters(e, d)
    BY <1>3, RescheduleSameWaiters
<1> HIDE DEF d
<1>5. r \in {e, d}
    BY <1>1 DEF KeResumeProcess, u, e, d
<1> HIDE DEF r
<1>6. r.blocked = u.blocked
    BY <1>3, <1>4, <1>5 DEF SameWaiters
<1> QED BY <1>2, <1>6 DEF KeepsOrder, r

LEMMA StopKeepsOrder ==
    ASSUME NEW k \in KeState, NEW p \in Process
    PROVE  KeepsOrder(k, KeStopSchedulingProcess(k, p))
<1> DEFINE b == [k EXCEPT !.state[p] = "blocked"]
           c == KeBugCheck(k)
           d == KepDequeueProcess(k, p)
           e == KepReschedule(b)
           v == RemoveFromBlockedLists(k, p)
           u == Unlisted(k, p)
           s == KeStopSchedulingProcess(k, p)
<1>1. b \in KeState /\ b.blocked = k.blocked
    BY DEF KeState, States
<1>2. c.blocked = k.blocked
    BY DEF KeBugCheck, KeState
<1>3. d.blocked = k.blocked
    BY DequeueSameWaiters DEF SameWaiters
<1> HIDE DEF b
<1>4. e.blocked = k.blocked
    BY <1>1, RescheduleSameWaiters DEF SameWaiters
<1>5. KeepsOrder(k, v)
    BY RemoveKeepsOrder
<1> HIDE DEF c, d, e, v
<1>6. u \in {c, d, e, v}
    BY DEF Unlisted, b, c, d, e, v
<1>7. KeepsOrder(k, u)
    BY <1>2, <1>3, <1>4, <1>5, <1>6 DEF KeepsOrder
<1>8. s = IF u.bugcheck THEN u ELSE [u EXCEPT !.scheduled = @ \ {p}]
    BY DEF KeStopSchedulingProcess
<1> HIDE DEF u, s
<1>9. s.blocked = u.blocked
    BY <1>8
<1> QED BY <1>7, <1>9 DEF KeepsOrder, s

LEMMA TickKeepsOrder ==
    ASSUME NEW k, Healthy(k)
    PROVE  KeepsOrder(k, KeHandleTimer(k))
<1> DEFINE t == [k EXCEPT !.ticks = (@ + TICK) % ULONG_RANGE, !.quantum = @ - 1]
           w == KepWakeUpSleepers(t)
           d == KepReschedule(w)
           r == KeHandleTimer(k)
           Good(x) == Alive(x) /\ KeepsOrder(k, x)
           S == {x \in KeState : Good(x)}
<1>1. k \in KeState /\ k.quantum # 0
    BY AliveFacts DEF Healthy
<1>2. Running(t)
    BY TickRunning DEF Healthy, Alive
<1>3. t.scheduled = k.scheduled /\ t.blocked = k.blocked /\ t.state = k.state
    BY <1>1 DEF KeState
<1> HIDE DEF t
<1>4. t \in S
    BY <1>2, <1>3 DEF Running, Consistent, Healthy, Alive, DeadDoNotRun, KeepsOrder
<1>5. ASSUME NEW x \in S PROVE WakeSleeper(x) \in S
    <2> DEFINE p == Head(x.timer)
               e == KeResumeProcess(x, p)
    <2>1. x \in KeState /\ Good(x)
        OBVIOUS
    <2>2. CASE ~SleeperIsDue(x)
        BY <2>2 DEF WakeSleeper
    <2>3. CASE SleeperIsDue(x)
        <3>1. x.timer \in Seq(Process) /\ x.timer # <<>>
            BY <2>1, <2>3 DEF KeState, SleeperIsDue
        <3>2. p \in Process /\ Contains(x.timer, p)
            BY <3>1, TailFacts
        <3> HIDE DEF p
        <3>3. ~x.bugcheck /\ p \in x.scheduled /\ x.state[p] = "blocked"
            BY <2>1, <3>2, AliveFacts
        <3>4. Alive(e) /\ KeepsOrder(x, e)
            BY <2>1, <3>2, <3>3, ResumeAlive, ResumeKeepsOrder
        <3>5. WakeSleeper(x) = e
            BY <2>3, <3>3 DEF WakeSleeper, p
        <3> HIDE DEF e
        <3>6. e \in KeState
            BY <3>4, AliveFacts
        <3> QED BY <2>1, <3>4, <3>5, <3>6 DEF KeepsOrder
    <2> QED BY <2>2, <2>3
<1>6. w \in S
    <2> HIDE DEF S
    <2>1. t \in KeState
        BY <1>2 DEF Running, Consistent
    <2> QED BY <1>4, <1>5, <2>1, WakeUpStays
<1> HIDE DEF w
<1>7. w \in KeState /\ KeepsOrder(k, w)
    BY <1>6
<1>8. SameWaiters(w, d)
    BY <1>7, RescheduleSameWaiters
<1>9. r = KeBugCheck(k) \/ r \in {w, d}
    BY DEF KeHandleTimer, w, d, t
<1>10. KeBugCheck(k).blocked = k.blocked
    BY <1>1 DEF KeBugCheck, KeState
<1> HIDE DEF r, d
<1> QED BY <1>7, <1>8, <1>9, <1>10 DEF SameWaiters, KeepsOrder, r

\* Resuming a reader that was killed halts the machine: either its state tells,
\* or it is on none of the lists.
LEMMA DeadReaderHalts ==
    ASSUME NEW k, Healthy(k), NEW p \in Process, p \notin k.scheduled
    PROVE  KeResumeProcess(k, p) \in KeState /\ KeResumeProcess(k, p).bugcheck
<1> DEFINE u == RemoveFromBlockedLists(k, p)
           b == KeBugCheck(k)
<1>1. k \in KeState /\ ~Contains(k.timer, p) /\ ~Contains(k.blocked, p)
    BY AliveFacts DEF Healthy
<1>2. b \in KeState /\ b.bugcheck
    BY <1>1 DEF KeBugCheck, KeState
<1>3. u = b
    BY <1>1 DEF RemoveFromBlockedLists
<1> HIDE DEF u, b
<1>4. KeResumeProcess(k, p) = b
    BY <1>2, <1>3 DEF KeResumeProcess, u, b
<1>5. QED
    BY <1>2, <1>4

\* The readers that are in the queue stay in order when those who block leave it
\* in order, or others come.
LEMMA StillInOrder ==
    ASSUME NEW k, NEW r, NEW readers, ReadersBlocked(k, readers), KeepsOrder(k, r),
           \A x : Contains(readers, x) /\ x \in r.scheduled =>
              x \in k.scheduled /\ (Contains(k.blocked, x) => Contains(r.blocked, x))
    PROVE  ReadersBlocked(r, readers)
BY DEF ReadersBlocked, KeepsOrder
-----------------------------------------------------------------------------
\* From here on: the actions.
LEMMA IoInitInv == IoInit => IoInv
<1> SUFFICES ASSUME IoInit PROVE IoInv
    OBVIOUS
<1>1. Inv(KeInit) /\ ke = KeInit
    BY InitInv DEF IoInit, Init
<1>2. waiting \in Seq(Process) /\ IsInjective(waiting) /\ \A p : ~Contains(waiting, p)
    BY DEF IoInit, IoInitialize, IsInjective, Contains
<1>3. /\ KeInit.scheduled = {Idle} /\ KeInit.state = [q \in Process |-> "created"]
      /\ ~KeInit.bugcheck
    BY DEF KeInit
<1>4. Healthy(KeInit)
    BY <1>1, <1>3 DEF Inv, Healthy, Alive, DeadDoNotRun
<1>5. KeServes(ke, waiting)
    <2>1. KeInit \in KeState
        BY <1>4, AliveFacts DEF Healthy
    <2> QED BY <1>1, <1>2, <1>4, <2>1 DEF KeServes, ReadersBlocked
<1>6. Clean(fifo)
    <2>1. FIFO_SIZE \in Nat /\ FIFO_SIZE > 1
        BY SerialIoAssumption
    <2>2. QED
        BY <2>1 DEF IoInit, IoInitialize, Clean
<1>7. OutputType(output)
    BY DEF IoInit, IoInitialize, OutputType
<1>8. QED
    BY <1>2, <1>5, <1>6, <1>7 DEF IoInv

\* What the invariant says of the scheduler while the machine runs.
LEMMA IoRuns ==
    ASSUME IoInv, ~ke.bugcheck
    PROVE  Healthy(ke) /\ ReadersBlocked(ke, waiting) /\ IsInjective(waiting)
BY DEF IoInv, KeServes

LEMMA ReadInv ==
    ASSUME IoInv, IoReadSerial
    PROVE  IoInv' /\ ~ke'.bugcheck
<1> DEFINE c == ke.current
           r == KeBlockProcess(ke)
           W == Append(waiting, c)
<1>1. Healthy(ke) /\ ReadersBlocked(ke, waiting) /\ IsInjective(waiting) /\ c # Idle
    BY IoRuns DEF IoReadSerial
<1>2. /\ c \in Process /\ c \in ke.scheduled /\ ~Contains(ke.blocked, c)
      /\ ke.blocked \in Seq(Process) /\ waiting \in Seq(Process)
    BY <1>1, AliveFacts DEF Healthy, IoInv
<1>3. ~Contains(waiting, c)
    BY <1>1, <1>2 DEF ReadersBlocked
<1>4. W \in Seq(Process) /\ IsInjective(W) /\ \A x : Contains(W, x) <=> Contains(waiting, x) \/ x = c
    BY <1>1, <1>2, <1>3, AppendFacts
<1>5. /\ Healthy(r) /\ ~r.bugcheck /\ r.scheduled = ke.scheduled
      /\ r.blocked = <<c>> \o ke.blocked
      /\ \A x : Contains(r.blocked, x) <=> Contains(ke.blocked, x) \/ x = c
    BY <1>1, BlockHealthy, BlocksInFront
<1>6. ke' = r /\ waiting' = W /\ output' = output
    BY DEF IoReadSerial, Enqueued
<1> HIDE DEF r
<1>7. ASSUME NEW p, NEW q, Precedes(r.blocked, p, q), Contains(W, p), Contains(W, q)
      PROVE  Precedes(W, q, p)
    <2>1. (p = c /\ Contains(ke.blocked, q)) \/ Precedes(ke.blocked, p, q)
        BY <1>2, <1>5, <1>7, PrependPrecedes
    <2>2. CASE p = c /\ Contains(ke.blocked, q)
        <3>1. Contains(waiting, q)
            BY <1>2, <1>4, <1>7, <2>2
        <3> QED BY <1>2, <2>2, <3>1, AppendPrecedes
    <2>3. CASE Precedes(ke.blocked, p, q)
        <3>1. Contains(ke.blocked, p) /\ Contains(ke.blocked, q)
            BY <1>2, <2>3, PrecedesContains
        <3>2. Contains(waiting, p) /\ Contains(waiting, q)
            BY <1>2, <1>4, <1>7, <3>1
        <3>3. Precedes(waiting, q, p)
            BY <1>1, <2>3, <3>2 DEF ReadersBlocked
        <3> QED BY <1>2, <3>3, AppendPrecedes
    <2> QED BY <2>1, <2>2, <2>3
<1> HIDE DEF W
<1>8. ReadersBlocked(r, W)
    BY <1>1, <1>4, <1>5, <1>7 DEF ReadersBlocked
<1>9. KeServes(ke', waiting')
    BY <1>4, <1>5, <1>6, <1>8, AliveFacts DEF KeServes, Healthy
<1>10. fifo' = fifo \/ fifo' = WithoutFirstChar(fifo)
    BY DEF IoReadSerial
<1>11. Clean(fifo')
    BY <1>10, WithoutFirstCharClean DEF IoInv
<1>12. QED
    BY <1>4, <1>5, <1>6, <1>9, <1>11 DEF IoInv

\* A character that nobody waits for is kept.
LEMMA KeepCharacter ==
    ASSUME IoInv, NEW c \in Char, IoInterruptHandler(c), waiting = <<>>
    PROVE  IoInv' /\ ~ke'.bugcheck /\ waiting' = waiting
<1>1. /\ ~ke.bugcheck /\ ke' = ke /\ waiting' = waiting /\ output' = output
      /\ fifo' = AddCharToBuffer(fifo, c)
    BY DEF IoInterruptHandler
<1>2. Clean(fifo')
    BY <1>1, AddCharClean DEF IoInv
<1>3. QED
    BY <1>1, <1>2 DEF IoInv

\* A character for the first reader: the reader has it, and goes on if it lives;
\* if it was killed, the machine halts.
LEMMA GiveCharacter ==
    ASSUME IoInv, NEW c \in Char, IoInterruptHandler(c), waiting # <<>>
    PROVE  /\ IoInv'
           /\ ke'.bugcheck <=> Head(waiting) \notin ke.scheduled
           /\ waiting' = Tail(waiting)
           /\ moved'.to = "process" /\ moved'.char # NUL
<1> DEFINE h == Head(waiting)
           T == Tail(waiting)
           f == AddCharToBuffer(fifo, c)
           r == KeResumeProcess(ke, h)
<1>1. /\ ~ke.bugcheck /\ ke' = r /\ waiting' = T /\ output' = output
      /\ fifo' = WithoutFirstChar(f)
      /\ moved' = [to |-> "process", char |-> f.buffer[0]]
    BY DEF IoInterruptHandler, GetFirstChar
<1>2. Healthy(ke) /\ ReadersBlocked(ke, waiting) /\ IsInjective(waiting)
    BY <1>1, IoRuns
<1>3. /\ h \in Process /\ Contains(waiting, h)
      /\ T \in Seq(Process) /\ IsInjective(T)
      /\ \A x : Contains(T, x) <=> Contains(waiting, x) /\ x # h
    BY <1>2, TailFacts DEF IoInv
<1>4. Clean(f) /\ f.buffer[0] # NUL
    BY AddCharClean DEF IoInv
<1>5. ASSUME NEW x, NEW y, Precedes(waiting, x, y), x # h PROVE Precedes(T, x, y)
    BY <1>5, TailPrecedes DEF IoInv
<1> HIDE DEF f, T, h
<1>6. Clean(fifo') /\ moved'.to = "process" /\ moved'.char # NUL
    BY <1>1, <1>4, WithoutFirstCharClean
<1>7. CASE h \in ke.scheduled
    <2>1. Contains(ke.blocked, h)
        BY <1>2, <1>3, <1>7 DEF ReadersBlocked
    <2>2. ke.state[h] = "blocked"
        BY <1>2, <2>1, AliveFacts DEF Healthy
    <2>3. /\ Healthy(r) /\ ~r.bugcheck /\ r.scheduled = ke.scheduled
          /\ \A x : Contains(r.blocked, x) <=> Contains(ke.blocked, x) /\ x # h
          /\ KeepsOrder(ke, r)
        BY <1>2, <1>3, <1>7, <2>2, ResumeHealthy, ResumeKeepsOrder DEF Healthy
    <2> HIDE DEF r
    <2>4. ReadersBlocked(r, T)
        BY <1>2, <1>3, <1>5, <2>3 DEF ReadersBlocked, KeepsOrder
    <2>5. KeServes(ke', waiting')
        BY <1>1, <1>3, <2>3, <2>4, AliveFacts DEF KeServes, Healthy
    <2>6. QED
        BY <1>1, <1>3, <1>6, <1>7, <2>3, <2>5 DEF IoInv, h, T
<1>8. CASE h \notin ke.scheduled
    <2>1. r \in KeState /\ r.bugcheck
        BY <1>2, <1>3, <1>8, DeadReaderHalts
    <2> HIDE DEF r
    <2>2. KeServes(ke', waiting')
        BY <1>1, <2>1 DEF KeServes
    <2>3. QED
        BY <1>1, <1>3, <1>6, <1>8, <2>1, <2>2 DEF IoInv, h, T
<1>9. QED
    BY <1>7, <1>8

LEMMA WriteInv ==
    ASSUME IoInv, NEW text \in Text, IoWriteSerial(text)
    PROVE  IoInv' /\ ~ke'.bugcheck /\ waiting' = waiting
<1> DEFINE A == Append(output.texts, text)
<1>1. /\ ~ke.bugcheck /\ ke' = ke /\ fifo' = fifo /\ waiting' = waiting
      /\ output' = [texts |-> A,
                    pointer |-> IF output.texts = <<>> THEN 0 ELSE output.pointer]
    BY DEF IoWriteSerial, Queued
<1>2. output.texts \in Seq(Text) /\ text \in Seq(Char) /\ Len(text) \in Nat
    BY SerialIoAssumption DEF IoInv, OutputType
<1>3. /\ A \in Seq(Text) /\ A # <<>>
      /\ Head(A) = IF output.texts = <<>> THEN text ELSE Head(output.texts)
    <2>1. PICK L \in Seq(Text) : L = output.texts
        BY <1>2
    <2>2. Append(L, text) \in Seq(Text) /\ Append(L, text) # <<>>
        BY AppendFacts
    <2>3. Head(Append(L, text)) = Append(L, text)[1]
        OBVIOUS
    <2>4. Append(L, text)[1] = IF L = <<>> THEN text ELSE L[1]
        OBVIOUS
    <2>5. Head(L) = L[1]
        OBVIOUS
    <2>6. QED
        BY <2>1, <2>2, <2>3, <2>4, <2>5
<1> HIDE DEF A
<1>4. OutputType(output')
    <2>1. output'.texts = A /\ output' = [texts |-> output'.texts, pointer |-> output'.pointer]
        BY <1>1
    <2>2. output'.pointer \in 0 .. Len(Head(A))
        BY <1>1, <1>2, <1>3 DEF IoInv, OutputType
    <2>3. QED
        BY <1>3, <2>1, <2>2 DEF OutputType
<1>5. QED
    BY <1>1, <1>4 DEF IoInv

LEMMA TransmitInv ==
    ASSUME IoInv, IoTransmitterInterruptHandler
    PROVE  IoInv' /\ ~ke'.bugcheck /\ waiting' = waiting
<1> DEFINE text == Head(output.texts)
           rest == Tail(output.texts)
<1>1. ~ke.bugcheck /\ ke' = ke /\ fifo' = fifo /\ waiting' = waiting /\ output.pointer # NoPointer
    BY DEF IoTransmitterInterruptHandler
<1>2. output.texts # <<>> /\ output.texts \in Seq(Text) /\ output.pointer \in 0 .. Len(text)
    BY <1>1 DEF IoInv, OutputType
<1>3. text \in Text /\ rest \in Seq(Text)
    BY <1>2
<1>4. Len(text) \in Nat /\ (rest # <<>> => Len(Head(rest)) \in Nat)
    <2>1. rest # <<>> => Head(rest) \in Text
        BY <1>3
    <2>2. QED
        BY <1>3, <2>1, SerialIoAssumption
<1>5. \/ output.pointer < Len(text) /\ output' = [output EXCEPT !.pointer = @ + 1]
      \/ output' = [texts |-> rest, pointer |-> IF rest = <<>> THEN NoPointer ELSE 0]
    BY DEF IoTransmitterInterruptHandler
<1>6. output = [texts |-> output.texts, pointer |-> output.pointer]
    BY DEF IoInv, OutputType
<1>7. OutputType(output')
    <2>1. CASE output.pointer < Len(text) /\ output' = [output EXCEPT !.pointer = @ + 1]
        <3>1. /\ output' = [texts |-> output'.texts, pointer |-> output'.pointer]
              /\ output'.texts = output.texts /\ output'.pointer = output.pointer + 1
            BY <1>6, <2>1
        <3>2. output'.pointer \in 0 .. Len(text)
            BY <1>2, <1>4, <2>1, <3>1
        <3>3. QED
            BY <1>2, <3>1, <3>2 DEF OutputType
    <2>2. CASE output' = [texts |-> rest, pointer |-> IF rest = <<>> THEN NoPointer ELSE 0]
        <3> HIDE DEF rest
        <3>1. /\ output' = [texts |-> output'.texts, pointer |-> output'.pointer]
              /\ output'.texts = rest
              /\ output'.pointer = IF rest = <<>> THEN NoPointer ELSE 0
            BY <2>2
        <3>2. QED
            BY <1>3, <1>4, <3>1 DEF OutputType
    <2>3. QED
        BY <1>5, <2>1, <2>2
<1>8. QED
    BY <1>1, <1>7 DEF IoInv

LEMMA OthersInv ==
    ASSUME IoInv, Others
    PROVE  IoInv' /\ (ke'.bugcheck => ke.bugcheck) /\ waiting' = waiting
<1>1. waiting' = waiting /\ fifo' = fifo /\ output' = output
    BY DEF Others
<1>2. ASSUME ~ke.bugcheck PROVE Healthy(ke) /\ ReadersBlocked(ke, waiting)
    BY <1>2, IoRuns
<1>3. ASSUME ~ke.bugcheck, NEW r, Healthy(r), ~r.bugcheck, KeepsOrder(ke, r), ke' = r,
             \A x : Contains(waiting, x) /\ x \in r.scheduled =>
                x \in ke.scheduled /\ (Contains(ke.blocked, x) => Contains(r.blocked, x))
      PROVE  KeServes(ke', waiting') /\ ~ke'.bugcheck
    <2>1. ReadersBlocked(r, waiting)
        BY <1>2, <1>3, StillInOrder
    <2>2. r \in KeState
        BY <1>3, AliveFacts DEF Healthy
    <2> QED BY <1>1, <1>3, <2>1, <2>2, IoRuns DEF KeServes
<1>4. ASSUME NEW p \in Process, NEW prio \in Priorities,
             ~Contains(waiting, p), StartProcess(p, prio)
      PROVE  KeServes(ke', waiting') /\ ~ke'.bugcheck
    <2> DEFINE r == KeStartSchedulingProcess(NewProcess(ke, p, prio), p)
    <2>1. ~ke.bugcheck /\ p \notin ke.scheduled /\ ke' = r
        BY <1>4 DEF StartProcess
    <2>2. Healthy(r) /\ ~r.bugcheck /\ r.scheduled = ke.scheduled \cup {p} /\ r.blocked = ke.blocked
        BY <1>2, <2>1, StartHealthy
    <2> HIDE DEF r
    <2> QED BY <1>3, <1>4, <2>1, <2>2 DEF KeepsOrder
<1>5. ASSUME NEW p \in Process \ {Idle}, StopProcess(p)
      PROVE  KeServes(ke', waiting') /\ ~ke'.bugcheck
    <2> DEFINE r == KeStopSchedulingProcess(ke, p)
    <2>1. ~ke.bugcheck /\ p \in ke.scheduled /\ ke.current # Idle /\ ke' = r
        BY <1>5 DEF StopProcess
    <2>2. /\ Healthy(r) /\ ~r.bugcheck /\ r.scheduled = ke.scheduled \ {p}
          /\ \A x : Contains(r.blocked, x) <=> Contains(ke.blocked, x) /\ x # p
        BY <1>2, <2>1, StopHealthy
    <2>3. KeepsOrder(ke, r)
        BY <1>2, <2>1, AliveFacts, StopKeepsOrder DEF Healthy
    <2> HIDE DEF r
    <2> QED BY <1>3, <2>1, <2>2, <2>3
<1>6. ASSUME BlockProcess
      PROVE  KeServes(ke', waiting') /\ ~ke'.bugcheck
    <2> DEFINE c == ke.current
               r == KeBlockProcess(ke)
    <2>1. ~ke.bugcheck /\ c # Idle /\ ke' = r
        BY <1>6 DEF BlockProcess
    <2>2. /\ Healthy(r) /\ ~r.bugcheck /\ r.scheduled = ke.scheduled
          /\ \A x : Contains(r.blocked, x) <=> Contains(ke.blocked, x) \/ x = c
          /\ r.blocked = <<c>> \o ke.blocked
        BY <1>2, <2>1, BlockHealthy, BlocksInFront
    <2>3. /\ c \in Process /\ c \in ke.scheduled /\ ~Contains(ke.blocked, c)
          /\ ke.blocked \in Seq(Process) /\ r \in KeState
        BY <1>2, <2>1, <2>2, AliveFacts DEF Healthy
    <2>4. ~Contains(waiting, c)
        BY <1>2, <2>1, <2>3 DEF ReadersBlocked
    <2> HIDE DEF r, c
    <2>5. ASSUME NEW x, NEW y, Precedes(r.blocked, x, y), Contains(waiting, x), Contains(waiting, y)
          PROVE  Precedes(waiting, y, x)
        <3>1. Precedes(ke.blocked, x, y)
            BY <2>2, <2>3, <2>4, <2>5, PrependPrecedes
        <3> QED BY <1>2, <2>1, <2>5, <3>1 DEF ReadersBlocked
    <2>6. ReadersBlocked(r, waiting)
        BY <1>2, <2>1, <2>2, <2>5 DEF ReadersBlocked
    <2> QED BY <1>1, <2>1, <2>2, <2>3, <2>6, IoRuns DEF KeServes
<1>7. ASSUME NEW p \in Process, ~Contains(waiting, p), ResumeProcess(p)
      PROVE  KeServes(ke', waiting') /\ ~ke'.bugcheck
    <2> DEFINE r == KeResumeProcess(ke, p)
    <2>1. ~ke.bugcheck /\ p \in ke.scheduled /\ ke.state[p] = "blocked" /\ ke' = r
        BY <1>7 DEF ResumeProcess
    <2>2. /\ Healthy(r) /\ ~r.bugcheck /\ r.scheduled = ke.scheduled
          /\ \A x : Contains(r.blocked, x) <=> Contains(ke.blocked, x) /\ x # p
        BY <1>2, <2>1, ResumeHealthy
    <2>3. KeepsOrder(ke, r)
        BY <1>2, <2>1, ResumeKeepsOrder DEF Healthy
    <2> HIDE DEF r
    <2> QED BY <1>3, <1>7, <2>1, <2>2, <2>3
<1>8. ASSUME NEW p \in Process, NEW prio \in NewPriorities, ChangeProcessPriority(p, prio)
      PROVE  KeServes(ke', waiting') /\ ~ke'.bugcheck
    <2> DEFINE r == KeChangeProcessPriority(ke, p, prio)
    <2>1. ~ke.bugcheck /\ p \in ke.scheduled /\ p # Idle /\ ke' = r /\ prio \in Priorities
        BY <1>8, SchedulerAssumption DEF ChangeProcessPriority
    <2>2. Healthy(r) /\ ~r.bugcheck /\ r.scheduled = ke.scheduled /\ r.blocked = ke.blocked
        BY <1>2, <2>1, ChangePriorityHealthy
    <2> HIDE DEF r
    <2> QED BY <1>3, <2>1, <2>2 DEF KeepsOrder
<1>9. ASSUME NEW ms \in Sleeps, NEW resume \in BOOLEAN, SuspendProcess(ms, resume)
      PROVE  KeServes(ke', waiting') /\ ~ke'.bugcheck
    <2> DEFINE r == KeSuspendProcess(ke, ms, resume)
    <2>1. ~ke.bugcheck /\ ke.current # Idle /\ ke' = r /\ ms \in Ulong
        BY <1>9, SchedulerAssumption DEF SuspendProcess
    <2>2. Healthy(r) /\ ~r.bugcheck /\ r.scheduled = ke.scheduled /\ r.blocked = ke.blocked
        BY <1>2, <2>1, SuspendHealthy
    <2> HIDE DEF r
    <2> QED BY <1>3, <2>1, <2>2 DEF KeepsOrder
<1>10. ASSUME HandleTimer
       PROVE  KeServes(ke', waiting') /\ ~ke'.bugcheck
    <2> DEFINE r == KeHandleTimer(ke)
    <2>1. ~ke.bugcheck /\ ke' = r
        BY <1>10 DEF HandleTimer
    <2>2. /\ Healthy(r) /\ ~r.bugcheck /\ r.scheduled = ke.scheduled
          /\ \A x : Contains(r.blocked, x) <=> Contains(ke.blocked, x)
          /\ KeepsOrder(ke, r)
        BY <1>2, <2>1, TimerHealthy, TickKeepsOrder
    <2> HIDE DEF r
    <2> QED BY <1>3, <2>1, <2>2
<1>11. ASSUME Spin
       PROVE  KeServes(ke', waiting') /\ ke.bugcheck
    BY <1>1, <1>11 DEF Spin, IoInv
<1>12. KeServes(ke', waiting') /\ (ke'.bugcheck => ke.bugcheck)
    BY <1>4, <1>5, <1>6, <1>7, <1>8, <1>9, <1>10, <1>11 DEF Others
<1> QED BY <1>1, <1>12 DEF IoInv

LEMMA IoNextInv ==
    ASSUME IoInv, [IoNext]_vars
    PROVE  IoInv'
<1>1. ASSUME NEW c \in Char, IoInterruptHandler(c) PROVE IoInv'
    BY <1>1, KeepCharacter, GiveCharacter
<1>2. ASSUME NEW text \in Text, IoWriteSerial(text) PROVE IoInv'
    BY <1>2, WriteInv
<1>3. ASSUME UNCHANGED vars PROVE IoInv'
    BY <1>3 DEF vars, IoInv
<1>4. QED
    BY <1>1, <1>2, <1>3, ReadInv, TransmitInv, OthersInv DEF IoNext

\* The invariant holds in every state the serial file can reach.
THEOREM IoInvAlways == IoSpec => []IoInv
<1>1. IoInit => IoInv
    BY IoInitInv
<1>2. IoInv /\ [IoNext]_vars => IoInv'
    BY IoNextInv
<1>3. QED
    BY <1>1, <1>2, PTL DEF IoSpec

\* Type correctness: outputPointer is NULL exactly while bufferQueue is empty
\* and never beyond the NUL of the text being displayed, and the input buffer
\* always has a place left for its NUL.
THEOREM IoTypesCorrect == IoSpec => []IoTypeOK
<1>1. IoInv => IoTypeOK
    BY DEF IoInv, KeServes, Healthy, Clean, OutputType, IoTypeOK, TypeOK
<1>2. QED
    BY <1>1, IoInvAlways, PTL

\* However keys are pressed and characters read, what AddCharToBuffer and
\* GetFirstCharFromBuffer leave is a string of the characters that were kept:
\* no NUL between them, none but NUL behind them.
THEOREM NulAlwaysBehindInput == IoSpec => []NulBehindInput
<1>1. IoInv => NulBehindInput
    BY DEF IoInv, Clean, NulBehindInput
<1>2. QED
    BY <1>1, IoInvAlways, PTL

\* One step of the serial file.
LEMMA StepHalts ==
    ASSUME IoInv, [IoNext]_vars
    PROVE  /\ ~ke.bugcheck /\ ke'.bugcheck => waiting # <<>> /\ ~Living(Head(waiting))
           /\ waiting # <<>> /\ ~Living(Head(waiting)) /\ waiting' = Tail(waiting) => ke'.bugcheck
<1>1. waiting \in Seq(Process)
    BY DEF IoInv
<1>2. ASSUME waiting # <<>>
      PROVE  waiting # Tail(waiting) /\ \A p : Append(waiting, p) # Tail(waiting)
    <2>1. Len(Tail(waiting)) = Len(waiting) - 1 /\ Len(waiting) \in Nat
        BY <1>1, <1>2
    <2>2. \A p : Len(Append(waiting, p)) = Len(waiting) + 1
        BY <1>1
    <2>3. QED
        BY <2>1, <2>2
<1>3. ASSUME IoReadSerial PROVE waiting' = Append(waiting, ke.current) /\ ~ke'.bugcheck
    BY <1>3, ReadInv DEF IoReadSerial, Enqueued
<1>4. ASSUME NEW c \in Char, IoInterruptHandler(c), waiting = <<>> PROVE ~ke'.bugcheck
    BY <1>4, KeepCharacter
<1>5. ASSUME NEW c \in Char, IoInterruptHandler(c), waiting # <<>>
      PROVE  ke'.bugcheck <=> ~Living(Head(waiting))
    BY <1>5, GiveCharacter DEF Living
<1>6. ASSUME NEW text \in Text, IoWriteSerial(text) PROVE waiting' = waiting /\ ~ke'.bugcheck
    BY <1>6, WriteInv
<1>7. ASSUME IoTransmitterInterruptHandler PROVE waiting' = waiting /\ ~ke'.bugcheck
    BY <1>7, TransmitInv
<1>8. ASSUME Others PROVE waiting' = waiting /\ (ke'.bugcheck => ke.bugcheck)
    BY <1>8, OthersInv
<1>9. ASSUME UNCHANGED vars PROVE waiting' = waiting /\ ke' = ke
    BY <1>9 DEF vars
<1>10. QED
    BY <1>2, <1>3, <1>4, <1>5, <1>6, <1>7, <1>8, <1>9 DEF IoNext

\* Nothing the serial file does halts the machine but a character for a reader
\* that was killed, and such a character always does: IoInterruptHandler takes
\* the head of waitingQueue without asking whether it lives.
THEOREM OnlyDeadReadersEverHalt == IoSpec => OnlyDeadReadersHalt
<1>1. IoInv /\ [IoNext]_vars =>
        [LET head == Head(waiting)
         IN  /\ ~ke.bugcheck /\ ke'.bugcheck => waiting # <<>> /\ ~Living(head)
             /\ waiting # <<>> /\ ~Living(head) /\ waiting' = Tail(waiting) => ke'.bugcheck]_vars
    BY StepHalts
<1>2. QED
    BY <1>1, IoInvAlways, PTL DEF IoSpec, OnlyDeadReadersHalt

\* One step takes no process out of the queue but the first, with a character.
LEMMA StepGivesCharacter ==
    ASSUME IoInv, [IoNext]_vars, NEW i \in DOMAIN waiting, ~Contains(waiting', waiting[i])
    PROVE  i = 1 /\ moved'.to = "process" /\ moved'.char # NUL
<1>1. waiting \in Seq(Process) /\ i \in 1 .. Len(waiting) /\ Len(waiting) \in Nat
    BY DEF IoInv
<1>2. Contains(waiting, waiting[i]) /\ waiting # <<>>
    BY <1>1 DEF Contains
<1>3. ASSUME IoReadSerial PROVE FALSE
    <2>1. waiting' = Append(waiting, ke.current)
        BY <1>3 DEF IoReadSerial, Enqueued
    <2>2. /\ Append(waiting, ke.current)[i] = waiting[i]
          /\ i \in 1 .. Len(Append(waiting, ke.current))
        BY <1>1
    <2>3. QED
        BY <2>1, <2>2 DEF Contains
<1>4. ASSUME NEW c \in Char, IoInterruptHandler(c)
      PROVE  i = 1 /\ moved'.to = "process" /\ moved'.char # NUL
    <2>1. waiting' = Tail(waiting) /\ moved'.to = "process" /\ moved'.char # NUL
        BY <1>2, <1>4, GiveCharacter
    <2>2. ASSUME i # 1 PROVE FALSE
        <3>1. i - 1 \in 1 .. Len(Tail(waiting)) /\ Tail(waiting)[i - 1] = waiting[i]
            BY <1>1, <1>2, <2>2
        <3>2. QED
            BY <2>1, <3>1 DEF Contains
    <2>3. QED
        BY <2>1, <2>2
<1>5. ASSUME waiting' = waiting PROVE FALSE
    BY <1>2, <1>5
<1>6. QED
    BY <1>3, <1>4, <1>5, WriteInv, TransmitInv, OthersInv DEF IoNext, vars

\* A process leaves waitingQueue only as its first and with a character:
\* IoInterruptHandler never resumes a reader without one, since the character
\* that came is in the buffer before it looks for one.
THEOREM ReadersAlwaysGetCharacters == IoSpec => ReadersGetCharacters
<1>1. IoInv /\ [IoNext]_vars =>
        [\A i \in DOMAIN waiting :
            ~Contains(waiting', waiting[i]) =>
                /\ i = 1
                /\ moved'.to = "process"
                /\ moved'.char # NUL]_vars
    BY StepGivesCharacter
<1>2. QED
    BY <1>1, IoInvAlways, PTL DEF IoSpec, ReadersGetCharacters

\* However readers come, are served and are killed, and whoever else starts,
\* blocks, sleeps, is resumed or gets another priority, the readers that live are
\* on the blocked list of the scheduler, in the order in which they came.
THEOREM ReadersAlwaysBlocked == IoSpec => []ReadersAreBlocked
<1>1. ASSUME IoInv PROVE ReadersAreBlocked
    <2>1. ~ke.bugcheck => ReadersBlocked(ke, waiting) /\ IsInjective(waiting)
        BY <1>1, IoRuns
    <2> QED BY <2>1 DEF ReadersAreBlocked, ReadersBlocked, Living
<1>2. QED
    BY <1>1, IoInvAlways, PTL
-----------------------------------------------------------------------------
\* The input buffer as a list of characters.
LEMMA TypedList ==
    ASSUME NEW f, Clean(f)
    PROVE  /\ Typed(f) \in Seq(Char) /\ Len(Typed(f)) = f.length
           /\ \A i \in 1 .. f.length : Typed(f)[i] = f.buffer[i - 1]
           /\ f.length \in Nat /\ FIFO_SIZE \in Nat
<1>1. /\ f.length \in 0 .. FIFO_SIZE - 1 /\ FIFO_SIZE \in Nat
      /\ f.buffer \in [0 .. FIFO_SIZE - 1 -> Char \cup {NUL}]
    BY SerialIoAssumption DEF Clean
<1>2. \A i \in 1 .. f.length : f.buffer[i - 1] \in Char
    <2> SUFFICES ASSUME NEW i \in 1 .. f.length PROVE f.buffer[i - 1] \in Char
        OBVIOUS
    <2>1. i - 1 \in 0 .. FIFO_SIZE - 1 /\ ~(i - 1 >= f.length)
        BY <1>1
    <2>2. f.buffer[i - 1] # NUL
        BY <2>1 DEF Clean
    <2> QED BY <1>1, <2>1, <2>2
<1>3. f.length \in Nat
    BY <1>1
<1> DEFINE e(i) == f.buffer[i - 1]
<1>4. \A i \in 1 .. f.length : e(i) \in Char
    BY <1>2
<1> QED BY <1>1, <1>3, <1>4 DEF Typed

\* AddCharToBuffer appends the character, or drops it when the last place but
\* one is taken.
LEMMA TypedAdd ==
    ASSUME NEW f, Clean(f), NEW c \in Char
    PROVE  Typed(AddCharToBuffer(f, c)) =
              IF Len(Typed(f)) < FIFO_SIZE - 1 THEN Append(Typed(f), c) ELSE Typed(f)
<1> DEFINE g == AddCharToBuffer(f, c)
           n == f.length
<1>1. /\ Typed(f) \in Seq(Char) /\ Len(Typed(f)) = n /\ n \in Nat /\ FIFO_SIZE \in Nat
      /\ \A i \in 1 .. n : Typed(f)[i] = f.buffer[i - 1]
    BY TypedList
<1>2. Clean(g)
    BY AddCharClean
<1>3. /\ Typed(g) \in Seq(Char) /\ Len(Typed(g)) = g.length
      /\ \A i \in 1 .. g.length : Typed(g)[i] = g.buffer[i - 1]
    BY <1>2, TypedList
<1>4. CASE n + 1 < FIFO_SIZE
    <2> DEFINE A == Append(Typed(f), c)
    <2>1. /\ A \in Seq(Char) /\ Len(A) = n + 1 /\ A[n + 1] = c
          /\ \A i \in 1 .. n : A[i] = Typed(f)[i]
        BY <1>1
    <2>2. n \in 0 .. FIFO_SIZE - 1 /\ f.buffer \in [0 .. FIFO_SIZE - 1 -> Char \cup {NUL}]
        BY DEF Clean
    <2>3. g.length = n + 1 /\ g.buffer = [f.buffer EXCEPT ![n] = c]
        BY <1>4 DEF AddCharToBuffer, Clean
    <2> HIDE DEF g, A
    <2>4. ASSUME NEW i \in 1 .. n + 1 PROVE Typed(g)[i] = A[i]
        <3>1. Typed(g)[i] = g.buffer[i - 1] /\ i - 1 \in 0 .. FIFO_SIZE - 1
            BY <1>1, <1>3, <1>4, <2>3
        <3>2. CASE i = n + 1
            <4>1. i - 1 = n
                BY <1>1, <3>2
            <4> QED BY <2>1, <2>2, <2>3, <3>1, <3>2, <4>1
        <3>3. CASE i # n + 1
            <4>1. i \in 1 .. n /\ i - 1 # n
                BY <1>1, <3>3
            <4> QED BY <1>1, <2>1, <2>2, <2>3, <3>1, <4>1
        <3> QED BY <3>2, <3>3
    <2>5. Typed(g) = A
        BY <1>3, <2>1, <2>3, <2>4, SeqEqual
    <2>6. n < FIFO_SIZE - 1
        BY <1>1, <1>4
    <2> QED BY <1>1, <2>5, <2>6 DEF g, A
<1>5. CASE ~(n + 1 < FIFO_SIZE)
    <2>1. g = f
        BY <1>5 DEF AddCharToBuffer
    <2>2. ~(n < FIFO_SIZE - 1)
        BY <1>1, <1>5
    <2> QED BY <1>1, <2>1, <2>2
<1> QED BY <1>4, <1>5

\* GetFirstCharFromBuffer takes the first character off.
LEMMA TypedGet ==
    ASSUME NEW f, Clean(f), f.buffer[0] # NUL
    PROVE  /\ Typed(f) # <<>>
           /\ f.buffer[0] = Head(Typed(f))
           /\ Typed(WithoutFirstChar(f)) = Tail(Typed(f))
<1> DEFINE g == WithoutFirstChar(f)
           n == f.length
           T == Tail(Typed(f))
<1>1. /\ Typed(f) \in Seq(Char) /\ Len(Typed(f)) = n /\ n \in Nat /\ FIFO_SIZE \in Nat
      /\ \A i \in 1 .. n : Typed(f)[i] = f.buffer[i - 1]
    BY TypedList
<1>2. Clean(g)
    BY WithoutFirstCharClean
<1>3. /\ Typed(g) \in Seq(Char) /\ Len(Typed(g)) = g.length
      /\ \A i \in 1 .. g.length : Typed(g)[i] = g.buffer[i - 1]
    BY <1>2, TypedList
<1>4. n # 0 /\ n \in 0 .. FIFO_SIZE - 1
    <2>1. 0 \in 0 .. FIFO_SIZE - 1
        BY SerialIoAssumption
    <2> QED BY <1>1, <2>1 DEF Clean
<1>5. Typed(f) # <<>> /\ Head(Typed(f)) = Typed(f)[1]
    BY <1>1, <1>4
<1>6. f.buffer[0] = Typed(f)[1]
    <2>1. 1 \in 1 .. n /\ 1 - 1 = 0
        BY <1>1, <1>4
    <2>2. Typed(f)[1] = f.buffer[1 - 1]
        BY <1>1, <2>1
    <2> QED BY <2>1, <2>2
<1>7. /\ T \in Seq(Char) /\ Len(T) = n - 1
      /\ \A i \in 1 .. n - 1 : T[i] = Typed(f)[i + 1]
    BY <1>1, <1>5
<1>8. /\ g.length = n - 1
      /\ \A i \in 0 .. FIFO_SIZE - 1 : i < n => g.buffer[i] = f.buffer[i + 1]
    BY <1>1, <1>4 DEF WithoutFirstChar
<1> HIDE DEF g, T
<1>9. ASSUME NEW i \in 1 .. n - 1 PROVE Typed(g)[i] = T[i]
    <2>1. /\ i - 1 \in 0 .. FIFO_SIZE - 1 /\ i - 1 < n /\ (i - 1) + 1 = i /\ (i + 1) - 1 = i
          /\ i + 1 \in 1 .. n
        BY <1>1, <1>4
    <2>2. g.buffer[i - 1] = f.buffer[(i - 1) + 1]
        BY <1>8, <2>1
    <2>3. Typed(f)[i + 1] = f.buffer[(i + 1) - 1]
        BY <1>1, <2>1
    <2>4. Typed(g)[i] = g.buffer[i - 1]
        BY <1>3, <1>8
    <2> QED BY <1>7, <2>1, <2>2, <2>3, <2>4
<1>10. Typed(g) = T
    BY <1>3, <1>7, <1>8, <1>9, SeqEqual
<1> QED BY <1>5, <1>6, <1>10 DEF g, T

\* The texts in the queue, joined.
LEMMA TextsJoined ==
    ASSUME NEW L \in Seq(Text)
    PROVE  L \in Seq(Seq(Char)) /\ FlattenSeq(L) \in Seq(Char)
<1>1. L \in Seq(Seq(Char))
    BY SerialIoAssumption, SeqMonotonic
<1> QED BY <1>1, FlattenType

\* IoWriteSerial puts the text behind all others.
LEMMA OwedWrite ==
    ASSUME OutputType(output), NEW text \in Text
    PROVE  Owed(Queued(text)) = Owed(output) \o text
<1> DEFINE L == output.texts
           A == Append(L, text)
           F == FlattenSeq(L)
           p == output.pointer
<1>1. L \in Seq(Text) /\ text \in Seq(Char) /\ A \in Seq(Text) /\ A # <<>>
    <2>1. L \in Seq(Text)
        BY DEF OutputType
    <2> QED BY <2>1, SerialIoAssumption, AppendFacts
<1>2. L \in Seq(Seq(Char)) /\ F \in Seq(Char) /\ Len(F) \in Nat
    BY <1>1, TextsJoined
<1>3. FlattenSeq(A) = F \o text
    <2> HIDE DEF L
    <2> QED BY <1>1, <1>2, FlattenAppend
<1>4. Queued(text).texts = A /\ Queued(text).pointer = IF L = <<>> THEN 0 ELSE p
    BY DEF Queued
<1> HIDE DEF A
<1>5. Owed(Queued(text)) =
        SubSeq(F \o text, (IF L = <<>> THEN 0 ELSE p) + 1, Len(F \o text))
    <2> HIDE DEF F, L, p
    <2> QED BY <1>1, <1>3, <1>4 DEF Owed
<1>6. CASE L = <<>>
    <2>1. F = <<>> /\ Owed(output) = <<>>
        BY <1>2, <1>6, FlattenType DEF Owed
    <2> HIDE DEF F, L
    <2>2. F \o text = text /\ Owed(output) \o text = text
        BY <1>1, <2>1, ConcatEmptySeq
    <2>3. SubSeq(text, 1, Len(text)) = text
        BY <1>1, SubSeqFull
    <2>4. Owed(Queued(text)) = SubSeq(text, 0 + 1, Len(text))
        BY <1>5, <1>6, <2>2
    <2> QED BY <2>2, <2>3, <2>4
<1>7. CASE L # <<>>
    <2>1. Owed(output) = SubSeq(F, p + 1, Len(F))
        BY <1>7 DEF Owed
    <2>2. p \in 0 .. Len(F)
        <3> DEFINE R == FlattenSeq(Tail(L))
        <3>1. Head(L) \in Seq(Char) /\ Tail(L) \in Seq(Seq(Char))
            BY <1>2, <1>7
        <3>2. R \in Seq(Char)
            BY <3>1, FlattenType
        <3>3. F = Head(L) \o R
            BY <1>2, <1>7, FlattenHead
        <3>4. p \in 0 .. Len(Head(L))
            BY <1>7 DEF OutputType
        <3> HIDE DEF F, L, p, R
        <3>5. Len(F) = Len(Head(L)) + Len(R) /\ Len(Head(L)) \in Nat /\ Len(R) \in Nat
            BY <3>1, <3>2, <3>3
        <3> QED BY <3>4, <3>5
    <2> HIDE DEF F, L, p
    <2>3. p + 1 \in 1 .. Len(F) + 1
        BY <1>2, <2>2
    <2>4. SubSeq(F \o text, p + 1, Len(F \o text)) = SubSeq(F, p + 1, Len(F)) \o text
        BY <1>1, <1>2, <2>3, SubSeqJoined
    <2> QED BY <1>5, <1>7, <2>1, <2>4
<1> QED BY <1>6, <1>7

\* The transmitter's interrupt displays the first character owed, or, at the
\* end of a text, goes on to the next and owes no less.
LEMMA OwedTransmit ==
    ASSUME OutputType(output), IoTransmitterInterruptHandler
    PROVE  \/ /\ Owed(output) # <<>>
              /\ Owed(output') = Tail(Owed(output))
              /\ moved' = [to |-> "display", char |-> Head(Owed(output))]
           \/ Owed(output') = Owed(output) /\ moved' = moved
<1> DEFINE L == output.texts
           text == Head(L)
           rest == Tail(L)
           R == FlattenSeq(rest)
           F == FlattenSeq(L)
           p == output.pointer
<1>1. L # <<>> /\ L \in Seq(Text) /\ p \in 0 .. Len(text)
    BY DEF OutputType, IoTransmitterInterruptHandler
<1>2. rest \in Seq(Text) /\ text \in Text
    BY <1>1
<1>3. L \in Seq(Seq(Char)) /\ R \in Seq(Char) /\ text \in Seq(Char) /\ F \in Seq(Char)
    BY <1>1, <1>2, TextsJoined, SerialIoAssumption
<1>4. F = text \o R
    BY <1>1, <1>3, FlattenHead
<1>5. Owed(output) = SubSeq(F, p + 1, Len(F))
    BY <1>1 DEF Owed
<1>6. \/ /\ p < Len(text)
         /\ moved' = [to |-> "display", char |-> text[p + 1]]
         /\ output' = [output EXCEPT !.pointer = p + 1]
      \/ /\ p = Len(text)
         /\ output' = [texts |-> rest, pointer |-> IF rest = <<>> THEN NoPointer ELSE 0]
         /\ moved' = moved
    BY DEF IoTransmitterInterruptHandler
<1>7. rest = <<>> => R = <<>>
    <2>1. rest = <<>> => rest \in Seq(Seq(Char))
        BY <1>2, TextsJoined
    <2> QED BY <2>1, FlattenType
<1>8. ASSUME p < Len(text), output' = [output EXCEPT !.pointer = p + 1]
      PROVE  Owed(output') = SubSeq(F, p + 2, Len(F))
    <2>1. output'.texts = L /\ output'.pointer = p + 1
        BY <1>8 DEF OutputType
    <2>2. (p + 1) + 1 = p + 2
        BY <1>1
    <2> HIDE DEF p, L
    <2> QED BY <1>1, <2>1, <2>2 DEF Owed
<1>9. ASSUME output' = [texts |-> rest, pointer |-> IF rest = <<>> THEN NoPointer ELSE 0]
      PROVE  Owed(output') = R
    <2>1. output'.texts = rest /\ output'.pointer = IF rest = <<>> THEN NoPointer ELSE 0
        BY <1>9
    <2> HIDE DEF rest
    <2>2. CASE rest = <<>>
        BY <1>7, <2>1, <2>2 DEF Owed
    <2>3. CASE rest # <<>>
        <3>1. Owed(output') = SubSeq(R, 0 + 1, Len(R))
            BY <2>1, <2>3 DEF Owed
        <3> HIDE DEF R
        <3>2. SubSeq(R, 1, Len(R)) = R
            BY <1>3, SubSeqFull
        <3> QED BY <3>1, <3>2
    <2> QED BY <2>2, <2>3
<1> HIDE DEF L, text, rest, R, F, p
<1>10. /\ Len(F) = Len(text) + Len(R) /\ Len(text) \in Nat /\ Len(R) \in Nat /\ p \in Nat
       /\ \A i \in 1 .. Len(text) : F[i] = text[i]
    BY <1>1, <1>3, <1>4
<1>11. ASSUME p < Len(text), moved' = [to |-> "display", char |-> text[p + 1]],
              output' = [output EXCEPT !.pointer = p + 1]
       PROVE  /\ Owed(output) # <<>>
              /\ Owed(output') = Tail(Owed(output))
              /\ moved' = [to |-> "display", char |-> Head(Owed(output))]
    <2> DEFINE S == SubSeq(F, p + 1, Len(F))
    <2>1. p + 1 \in 1 .. Len(F) /\ Len(F) \in p + 1 .. Len(F) /\ p + 1 \in 1 .. Len(text)
        BY <1>10, <1>11
    <2>2. Head(S) = F[p + 1] /\ Tail(S) = SubSeq(F, (p + 1) + 1, Len(F))
        BY <1>3, <2>1, HeadTailOfSubSeq
    <2>3. (p + 1) + 1 = p + 2 /\ F[p + 1] = text[p + 1]
        BY <1>10, <2>1
    <2>4. S # <<>>
        <3>1. \A i \in p + 1 .. Len(F) : F[i] \in Char
            BY <1>3, <2>1
        <3>2. Len(S) = Len(F) - (p + 1) + 1
            BY <1>3, <1>10, <2>1, <3>1, SubSeqProperties
        <3> QED BY <1>10, <2>1, <3>2
    <2> HIDE DEF S
    <2> QED BY <1>5, <1>8, <1>11, <2>2, <2>3, <2>4 DEF S
<1>12. ASSUME p = Len(text)
       PROVE  Owed(output) = R
    BY <1>3, <1>4, <1>5, <1>12, SubSeqBehind
<1> QED BY <1>6, <1>9, <1>11, <1>12 DEF p, text, L

\* One step of io.c is a step of Terminal, or none.
LEMMA StepKeepsPromise ==
    ASSUME IoInv, [IoNext]_vars
    PROVE  [Promise!Next]_(Promise!vars)
<1> DEFINE Same == /\ Typed(fifo') = Typed(fifo) /\ Owed(output') = Owed(output)
                   /\ moved' = moved /\ waiting' = waiting
<1>1. ASSUME Same PROVE [Promise!Next]_(Promise!vars)
    BY <1>1 DEF Promise!vars
<1>2. ASSUME fifo' = fifo, output' = output, moved' = moved, waiting' = waiting PROVE Same
    BY <1>2
<1> HIDE DEF Same
<1>3. Clean(fifo) /\ OutputType(output) /\ waiting \in Seq(Process)
    BY DEF IoInv
<1>4. Len(waiting) \in Nat /\ (waiting = <<>> <=> Len(waiting) = 0)
    BY <1>3
<1>5. fifo.buffer[0] # NUL <=> Typed(fifo) # <<>>
    <2>1. Len(Typed(fifo)) = fifo.length /\ Typed(fifo) \in Seq(Char) /\ fifo.length \in Nat
        BY <1>3, TypedList
    <2>2. 0 \in 0 .. FIFO_SIZE - 1
        BY SerialIoAssumption
    <2>3. fifo.buffer[0] = NUL <=> 0 >= fifo.length
        BY <1>3, <2>2 DEF Clean
    <2> QED BY <2>1, <2>3
<1>6. ASSUME IoReadSerial PROVE [Promise!Next]_(Promise!vars)
    <2>1. /\ output' = output /\ moved' = moved /\ waiting' = Append(waiting, ke.current)
          /\ fifo' = IF waiting = <<>> /\ fifo.buffer[0] # NUL THEN WithoutFirstChar(fifo) ELSE fifo
        BY <1>6 DEF IoReadSerial, Enqueued
    <2>2. Len(waiting') = Len(waiting) + 1
        BY <1>3, <2>1
    <2>3. Typed(fifo') = IF Len(waiting) = 0 /\ Typed(fifo) # <<>>
                         THEN Tail(Typed(fifo)) ELSE Typed(fifo)
        BY <1>3, <1>4, <1>5, <2>1, TypedGet
    <2>4. Promise!Ask
        BY <2>1, <2>2, <2>3 DEF Promise!Ask
    <2> QED BY <2>4 DEF Promise!Next
<1>7. ASSUME NEW c \in Char, IoInterruptHandler(c) PROVE [Promise!Next]_(Promise!vars)
    <2> DEFINE f == AddCharToBuffer(fifo, c)
    <2>1. output' = output
        BY <1>7 DEF IoInterruptHandler
    <2>2. Clean(f) /\ f.buffer[0] # NUL
        BY <1>3, AddCharClean
    <2>3. Typed(f) = Promise!Kept(c)
        BY <1>3, TypedAdd DEF Promise!Kept
    <2>4. CASE waiting # <<>> /\ GetFirstChar(f) /\ waiting' = Tail(waiting)
        <3> HIDE DEF f
        <3>1. /\ Typed(f) # <<>>
              /\ Typed(fifo') = Tail(Typed(f))
              /\ moved' = [to |-> "process", char |-> Head(Typed(f))]
            BY <2>2, <2>4, TypedGet DEF GetFirstChar
        <3>2. Len(waiting) # 0 /\ Len(waiting') = Len(waiting) - 1
            BY <1>3, <2>4
        <3>3. Promise!TypeAndRead(c)
            BY <2>1, <2>3, <3>1, <3>2 DEF Promise!TypeAndRead
        <3> QED BY <3>3 DEF Promise!Next
    <2>5. CASE waiting = <<>> /\ fifo' = f /\ moved' = moved /\ waiting' = waiting
        <3>1. Promise!TypeAhead(c)
            BY <1>4, <2>1, <2>3, <2>5 DEF Promise!TypeAhead
        <3> QED BY <3>1 DEF Promise!Next
    <2> QED BY <1>7, <2>4, <2>5 DEF IoInterruptHandler
<1>8. ASSUME NEW text \in Text, IoWriteSerial(text) PROVE [Promise!Next]_(Promise!vars)
    <2>1. fifo' = fifo /\ moved' = moved /\ waiting' = waiting /\ output' = Queued(text)
        BY <1>8 DEF IoWriteSerial
    <2>2. Owed(output') = Owed(output) \o text
        BY <1>3, <2>1, OwedWrite
    <2>3. Promise!Write(text)
        BY <2>1, <2>2 DEF Promise!Write
    <2> QED BY <2>3 DEF Promise!Next
<1>9. ASSUME IoTransmitterInterruptHandler PROVE [Promise!Next]_(Promise!vars)
    <2>1. fifo' = fifo /\ waiting' = waiting
        BY <1>9 DEF IoTransmitterInterruptHandler
    <2>2. CASE Owed(output') = Owed(output) /\ moved' = moved
        BY <1>1, <2>1, <2>2 DEF Same
    <2>3. CASE /\ Owed(output) # <<>>
               /\ Owed(output') = Tail(Owed(output))
               /\ moved' = [to |-> "display", char |-> Head(Owed(output))]
        <3>1. Promise!Display
            BY <2>1, <2>3 DEF Promise!Display
        <3> QED BY <3>1 DEF Promise!Next
    <2> QED BY <1>3, <1>9, <2>2, <2>3, OwedTransmit
<1>10. ASSUME Others \/ UNCHANGED vars PROVE [Promise!Next]_(Promise!vars)
    <2>1. fifo' = fifo /\ output' = output /\ moved' = moved /\ waiting' = waiting
        BY <1>10 DEF Others, vars
    <2> QED BY <1>1, <1>2, <2>1
<1> QED BY <1>6, <1>7, <1>8, <1>9, <1>10 DEF IoNext

\* io.c implements Terminal, for every size of the buffer, all texts and any
\* number of readers, whoever else runs, blocks, sleeps or is killed: characters
\* are read in the order they were kept and none twice, each key pressed while
\* somebody waits gives one reader one, and the only one that nobody gets is the
\* first one typed ahead when a process begins to wait.  What was written is
\* displayed in order, no text within another.
THEOREM KeepsTerminalsPromise == IoSpec => ImplementsTerminal
<1>1. IoInit => Promise!Init
    <2> SUFFICES ASSUME IoInitialize PROVE Promise!Init
        BY DEF IoInit
    <2>1. /\ fifo.length = 0 /\ output.texts = <<>> /\ moved = [to |-> "nobody", char |-> NUL]
          /\ Len(waiting) = 0
        BY DEF IoInitialize
    <2>2. Typed(fifo) = <<>>
        BY <2>1 DEF Typed
    <2>3. Owed(output) = <<>>
        BY <2>1 DEF Owed
    <2> QED BY <2>1, <2>2, <2>3 DEF Promise!Init
<1>2. IoInv /\ [IoNext]_vars => [Promise!Next]_(Promise!vars)
    BY StepKeepsPromise
<1>3. QED
    BY <1>1, <1>2, IoInvAlways, PTL DEF IoSpec, ImplementsTerminal, Promise!Spec
=============================================================================
