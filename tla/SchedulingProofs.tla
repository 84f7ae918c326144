-------------------------- MODULE SchedulingProofs --------------------------
(***************************************************************************)
(* Proofs about whom Scheduler dispatches and wakes, for every set of      *)
(* processes, every number of priorities, every tick and every width of a  *)
(* ULONG.  The timer: its list is sorted, and a tick wakes every sleeper   *)
(* that is due and, as the clock of SleepIntervals tells, no other.  The   *)
(* processor: a process that is given it is the most urgent one, and one   *)
(* that wakes up does not wait behind a less urgent one.                   *)
(***************************************************************************)
EXTENDS SchedulerProofs, SleepIntervals

\* The processes of L come in the order of their times in W.
InOrder(L, W) == \A i, j \in DOMAIN L : i < j => W[L[i]] <= W[L[j]]

Sorted(k) == InOrder(k.timer, k.wake)

\* Whoever sleeps in r has slept in k, and until the same time.
SleepersStay(k, r) ==
    \A x \in Process :
        Contains(r.timer, x) => Contains(k.timer, x) /\ r.wake[x] = k.wake[x]

\* Nobody but p has left the timer list.
OthersSleepOn(k, r, p) ==
    \A x \in Process : x # p /\ Contains(k.timer, x) => Contains(r.timer, x)

\* The current process goes to sleep until w, and nobody else does.
OnlyNewSleeper(k, r, w) ==
    /\ ~Contains(k.timer, k.current)
    /\ r.wake[k.current] = w
    /\ \A x \in Process : x # k.current /\ Contains(r.timer, x) =>
          Contains(k.timer, x) /\ r.wake[x] = k.wake[x]

\* What a call that is no tick leaves of the timer.
KeepsOrder(k, r) ==
    /\ r.ticks = k.ticks
    /\ ~r.bugcheck /\ Sorted(k) => Sorted(r)

\* Nor does it put anybody to sleep, unless it is KeSuspendProcess.
KeepsTime(k, r) == KeepsOrder(k, r) /\ SleepersStay(k, r)
-----------------------------------------------------------------------------
\* Taking one off a list that is in order, whatever becomes of its own time.
LEMMA RemoveInOrder ==
    ASSUME NEW L \in Seq(Process), IsInjective(L), NEW p, Contains(L, p),
           NEW W, InOrder(L, W), NEW V, \A x \in Process : x # p => V[x] = W[x]
    PROVE  InOrder(RemoveAt(L, Position(L, p)), V)
<1> DEFINE s == Position(L, p)
           R == RemoveAt(L, s)
<1>1. DOMAIN L = 1 .. Len(L) /\ Len(L) \in Nat
    OBVIOUS
<1>2. s \in DOMAIN L /\ L[s] = p
    BY <1>1 DEF Contains, Position
<1> HIDE DEF s
<1>3. /\ R \in Seq(Process) /\ Len(R) = Len(L) - 1
      /\ \A j \in 1 .. Len(L) - 1 : R[j] = IF j < s THEN L[j] ELSE L[j + 1]
    <2>1. /\ R \in Seq(Process) /\ Len(R) = Len(L) - 1
          /\ \A j \in 1 .. Len(L) - 1 :
                (j < s => R[j] = L[j]) /\ (j >= s => R[j] = L[j + 1])
        BY <1>2, RemoveAtElements
    <2> HIDE DEF R
    <2>2. QED
        BY <1>1, <1>2, <2>1
<1> HIDE DEF R
<1>4. ASSUME NEW i \in DOMAIN R, NEW j \in DOMAIN R, i < j
      PROVE  V[R[i]] <= V[R[j]]
    <2>1. PICK a \in DOMAIN L : a = IF i < s THEN i ELSE i + 1
        BY <1>1, <1>2, <1>3
    <2>2. PICK b \in DOMAIN L : b = IF j < s THEN j ELSE j + 1
        BY <1>1, <1>2, <1>3
    <2>3. a < b /\ a # s /\ b # s /\ R[i] = L[a] /\ R[j] = L[b]
        BY <1>1, <1>2, <1>3, <1>4, <2>1, <2>2
    <2>4. L[a] # p /\ L[b] # p /\ L[a] \in Process /\ L[b] \in Process
        BY <1>1, <1>2, <2>1, <2>2, <2>3 DEF IsInjective
    <2>5. W[L[a]] <= W[L[b]]
        BY <2>1, <2>2, <2>3 DEF InOrder
    <2>6. QED
        BY <2>3, <2>4, <2>5
<1>5. QED
    BY <1>4 DEF InOrder, R, s

\* A list that is in order and does not hold p does not depend on p's time.
LEMMA OthersInOrder ==
    ASSUME NEW L \in Seq(Process), NEW p, ~Contains(L, p),
           NEW W, InOrder(L, W), NEW V, \A x \in Process : x # p => V[x] = W[x]
    PROVE  InOrder(L, V)
<1>1. DOMAIN L = 1 .. Len(L)
    OBVIOUS
<1>2. \A i \in DOMAIN L : L[i] # p /\ L[i] \in Process
    BY <1>1 DEF Contains
<1>3. QED
    BY <1>2 DEF InOrder

\* KeSuspendProcess links the new sleeper where it belongs.
LEMMA InsertInOrder ==
    ASSUME NEW k \in KeState, Sorted(k), NEW c \in Process, ~Contains(k.timer, c),
           NEW w \in Ulong, NEW V \in [Process -> Ulong],
           V[c] = w, \A x \in Process : x # c => V[x] = k.wake[x]
    PROVE  InOrder(InsertAt(k.timer, TimerSlot(k, w), c), V)
<1> DEFINE L == k.timer
           s == TimerSlot(k, w)
           R == InsertAt(L, s, c)
<1>1. L \in Seq(Process) /\ DOMAIN L = 1 .. Len(L) /\ Len(L) \in Nat
    BY DEF KeState
<1>2. /\ s \in 1 .. Len(L) + 1
      /\ s = 1 => L = <<>> \/ k.wake[L[1]] > w
      /\ s # 1 =>
            /\ k.wake[L[1]] <= w
            /\ \A j \in 2 .. s - 1 : k.wake[L[j]] < w
            /\ s <= Len(L) => k.wake[L[s]] >= w
    BY TimerSlotFacts
<1> HIDE DEF s
<1>3. /\ R \in Seq(Process) /\ Len(R) = Len(L) + 1
      /\ \A j \in 1 .. Len(L) + 1 :
            R[j] = IF j < s THEN L[j] ELSE IF j = s THEN c ELSE L[j - 1]
    <2>1. /\ R \in Seq(Process) /\ Len(R) = Len(L) + 1
          /\ \A j \in 1 .. Len(L) + 1 :
                (j < s => R[j] = L[j]) /\ (j = s => R[j] = c) /\ (j > s => R[j] = L[j - 1])
        <3> HIDE DEF L
        <3>1. QED
            BY <1>1, <1>2, InsertAtElements
    <2> HIDE DEF R
    <2>2. QED
        BY <1>1, <1>2, <2>1
<1> HIDE DEF R
<1>4. InOrder(L, V)
    BY <1>1, OthersInOrder DEF Sorted
<1>5. \A i \in DOMAIN L : V[L[i]] = k.wake[L[i]] /\ V[L[i]] \in Nat
    <2>1. \A i \in DOMAIN L : L[i] # c /\ L[i] \in Process
        BY <1>1 DEF Contains
    <2>2. QED
        BY <2>1 DEF Ulong
<1> HIDE DEF L
<1>6. w \in Nat
    BY DEF Ulong
<1>7. ASSUME NEW i \in DOMAIN L, i < s PROVE V[L[i]] <= w
    <2>1. i = 1 \/ i \in 2 .. s - 1
        BY <1>1, <1>2, <1>7
    <2>2. s # 1
        BY <1>1, <1>7
    <2>3. QED
        BY <1>2, <1>5, <1>6, <2>1, <2>2
<1>8. ASSUME NEW i \in DOMAIN L, i >= s PROVE w <= V[L[i]]
    <2>1. s \in DOMAIN L /\ L # <<>>
        BY <1>1, <1>2, <1>8
    <2>2. w <= V[L[s]]
        BY <1>2, <1>5, <1>6, <2>1
    <2>3. V[L[s]] <= V[L[i]]
        <3>1. CASE i = s
            BY <1>5, <3>1
        <3>2. CASE i # s
            <4>1. s < i
                BY <1>1, <1>2, <1>8, <3>2
            <4>2. QED
                BY <1>4, <2>1, <4>1 DEF InOrder
        <3>3. QED
            BY <3>1, <3>2
    <2>4. QED
        BY <1>5, <1>6, <2>1, <2>2, <2>3
<1>9. ASSUME NEW i \in DOMAIN R, NEW j \in DOMAIN R, i < j
      PROVE  V[R[i]] <= V[R[j]]
    <2>1. i \in 1 .. Len(L) + 1 /\ j \in 1 .. Len(L) + 1
        BY <1>3
    <2>2. CASE j < s
        <3>1. /\ i \in DOMAIN L /\ j \in DOMAIN L
              /\ R[i] = L[i] /\ R[j] = L[j]
            BY <1>1, <1>2, <1>3, <1>9, <2>1, <2>2
        <3>2. QED
            BY <1>4, <1>9, <3>1 DEF InOrder
    <2>3. CASE j = s
        <3>1. i \in DOMAIN L /\ i < s /\ R[i] = L[i] /\ R[j] = c
            BY <1>1, <1>2, <1>3, <1>9, <2>1, <2>3
        <3>2. QED
            BY <1>7, <3>1
    <2>4. CASE j > s /\ i = s
        <3>1. j - 1 \in DOMAIN L /\ j - 1 >= s /\ R[i] = c /\ R[j] = L[j - 1]
            BY <1>1, <1>2, <1>3, <1>9, <2>1, <2>4
        <3>2. QED
            BY <1>8, <3>1
    <2>5. CASE j > s /\ i < s
        <3>1. /\ i \in DOMAIN L /\ j - 1 \in DOMAIN L /\ j - 1 >= s
              /\ R[i] = L[i] /\ R[j] = L[j - 1]
            BY <1>1, <1>2, <1>3, <1>9, <2>1, <2>5
        <3>2. V[L[i]] <= w /\ w <= V[L[j - 1]]
            BY <1>7, <1>8, <2>5, <3>1
        <3>3. QED
            BY <1>5, <1>6, <3>1, <3>2
    <2>6. CASE j > s /\ i > s
        <3>1. /\ i - 1 \in DOMAIN L /\ j - 1 \in DOMAIN L /\ i - 1 < j - 1
              /\ R[i] = L[i - 1] /\ R[j] = L[j - 1]
            BY <1>1, <1>2, <1>3, <1>9, <2>1, <2>6
        <3>2. QED
            BY <1>4, <3>1 DEF InOrder
    <2>7. QED
        BY <1>2, <2>1, <2>2, <2>3, <2>4, <2>5, <2>6
<1>10. QED
    BY <1>9 DEF InOrder, R, L, s
-----------------------------------------------------------------------------
LEMMA SameWaitersKeepTime ==
    ASSUME NEW k, NEW r, SameWaiters(k, r)
    PROVE  KeepsTime(k, r)
BY DEF SameWaiters, KeepsTime, KeepsOrder, SleepersStay, Sorted

\* A process is taken off the lists of those that wait.
LEMMA OffListsKeepsTime ==
    ASSUME NEW k, Running(k), NEW p \in Process, p \in k.scheduled, k.state[p] = "blocked"
    PROVE  LET u == RemoveFromBlockedLists(k, p)
           IN  /\ u \in KeState /\ ~u.bugcheck /\ KeepsTime(k, u) /\ OthersSleepOn(k, u, p)
               /\ Contains(k.timer, p) => Len(u.timer) = Len(k.timer) - 1
<1> DEFINE u == RemoveFromBlockedLists(k, p)
           T == RemoveAt(k.timer, Position(k.timer, p))
           B == RemoveAt(k.blocked, Position(k.blocked, p))
           V == [k.wake EXCEPT ![p] = 0]
<1>1. /\ k \in KeState /\ ~k.bugcheck
      /\ k.timer \in Seq(Process) /\ IsInjective(k.timer)
    BY DEF Running, Consistent, ListsHoldAllBut, NoneTwiceOnLists, KeState
<1>2. u \in KeState /\ ~u.bugcheck /\ u.ticks = k.ticks
    <2>1. PICK off : off = {k.current}
        OBVIOUS
    <2>2. Consistent(k, off) /\ p \notin off
        BY <2>1 DEF Running
    <2>3. Unlinked(k, off, p, u)
        BY <2>2, RemoveBlocked
    <2> HIDE DEF u
    <2>4. QED
        BY <2>3 DEF Unlinked, Consistent, SameButLists
<1>3. \A x \in Process : x # p => V[x] = k.wake[x]
    BY <1>1 DEF KeState
<1> HIDE DEF V
<1>4. CASE Contains(k.timer, p)
    <2>1. u.timer = T /\ u.wake = V
        BY <1>1, <1>4 DEF RemoveFromBlockedLists, KeState, V
    <2>2. Len(T) = Len(k.timer) - 1
        <3>1. Position(k.timer, p) \in DOMAIN k.timer
            BY <1>1, <1>4 DEF Contains, Position
        <3>2. QED
            BY <1>1, <3>1, RemoveAtElements
    <2>3. Sorted(k) => InOrder(T, V)
        BY <1>1, <1>3, <1>4, RemoveInOrder DEF Sorted
    <2>4. \A x : Contains(T, x) <=> Contains(k.timer, x) /\ x # p
        BY <1>1, <1>4, UnlinkFacts
    <2> HIDE DEF u, T
    <2>5. SleepersStay(k, u) /\ OthersSleepOn(k, u, p)
        BY <1>3, <2>1, <2>4 DEF SleepersStay, OthersSleepOn
    <2>6. QED
        BY <1>2, <2>1, <2>2, <2>3, <2>5 DEF KeepsTime, KeepsOrder, Sorted, u
<1>5. CASE ~Contains(k.timer, p)
    <2>1. Contains(k.blocked, p)
        BY <1>5 DEF Running, Consistent, ListsHoldAllBut, OnItsList
    <2>2. u.timer = k.timer /\ u.wake = V
        BY <1>1, <1>5, <2>1 DEF RemoveFromBlockedLists, KeState, V
    <2>3. Sorted(k) => InOrder(k.timer, V)
        BY <1>1, <1>3, <1>5, OthersInOrder DEF Sorted
    <2> HIDE DEF u
    <2>4. SleepersStay(k, u) /\ OthersSleepOn(k, u, p)
        BY <1>3, <1>5, <2>2 DEF SleepersStay, OthersSleepOn
    <2>5. QED
        BY <1>2, <1>5, <2>2, <2>3, <2>4 DEF KeepsTime, KeepsOrder, Sorted, u
<1>6. QED
    BY <1>4, <1>5

LEMMA ResumeKeepsTime ==
    ASSUME NEW k, Running(k), NEW p \in Process, p \in k.scheduled, k.state[p] = "blocked"
    PROVE  LET r == KeResumeProcess(k, p)
           IN  /\ KeepsTime(k, r) /\ OthersSleepOn(k, r, p)
               /\ Contains(k.timer, p) => Len(r.timer) = Len(k.timer) - 1
<1> DEFINE u == RemoveFromBlockedLists(k, p)
           e == KepEnqueueProcess(u, p)
           d == KepReschedule(e)
           r == KeResumeProcess(k, p)
<1>1. /\ u \in KeState /\ ~u.bugcheck /\ KeepsTime(k, u) /\ OthersSleepOn(k, u, p)
      /\ Contains(k.timer, p) => Len(u.timer) = Len(k.timer) - 1
    BY OffListsKeepsTime
<1> HIDE DEF u
<1>2. e \in KeState /\ SameWaiters(u, e)
    BY <1>1, EnqueueSameWaiters
<1> HIDE DEF e
<1>3. SameWaiters(e, d)
    BY <1>2, RescheduleSameWaiters
<1> HIDE DEF d
<1>4. r \in {e, d}
    BY <1>1 DEF KeResumeProcess, u, e, d
<1> HIDE DEF r
<1>5. r.timer = u.timer /\ r.wake = u.wake /\ r.ticks = u.ticks
    BY <1>2, <1>3, <1>4 DEF SameWaiters
<1>6. QED
    BY <1>1, <1>5 DEF KeepsTime, KeepsOrder, SleepersStay, OthersSleepOn, Sorted, r

LEMMA StartKeepsTime ==
    ASSUME NEW k \in KeState, NEW p \in Process, NEW prio \in Priorities
    PROVE  KeepsTime(k, KeStartSchedulingProcess(NewProcess(k, p, prio), p))
<1> DEFINE n == [NewProcess(k, p, prio) EXCEPT !.scheduled = @ \cup {p}]
           r == KeStartSchedulingProcess(NewProcess(k, p, prio), p)
<1>1. n \in KeState
    <2>1. /\ [k.state EXCEPT ![p] = "ready"] \in [Process -> States]
          /\ [k.priority EXCEPT ![p] = prio] \in [Process -> Nat]
          /\ k.scheduled \cup {p} \in SUBSET Process
        BY DEF KeState, States, Priorities
    <2>2. n = [k EXCEPT !.state = [k.state EXCEPT ![p] = "ready"],
                        !.priority = [k.priority EXCEPT ![p] = prio],
                        !.scheduled = k.scheduled \cup {p}]
        BY DEF NewProcess, KeState
    <2> HIDE DEF n
    <2>3. QED
        BY <2>1, <2>2 DEF KeState
<1>2. n.timer = k.timer /\ n.wake = k.wake /\ n.ticks = k.ticks
    BY DEF NewProcess, KeState
<1>3. r = KepEnqueueProcess(n, p)
    BY DEF KeStartSchedulingProcess
<1> HIDE DEF n, r
<1>4. SameWaiters(n, r)
    BY <1>1, <1>3, EnqueueSameWaiters
<1>5. QED
    BY <1>2, <1>4 DEF SameWaiters, KeepsTime, KeepsOrder, SleepersStay, Sorted, r

LEMMA StopKeepsTime ==
    ASSUME NEW k, Running(k), NEW p \in Process, p \in k.scheduled
    PROVE  KeepsTime(k, KeStopSchedulingProcess(k, p))
<1> DEFINE u == Unlisted(k, p)
           b == [k EXCEPT !.state[p] = "blocked"]
           c == KeBugCheck(k)
           d == KepDequeueProcess(k, p)
           s == KeStopSchedulingProcess(k, p)
<1>1. k \in KeState
    BY DEF Running, Consistent
<1>2. u \in KeState /\ KeepsTime(k, u)
    <2>1. CASE k.state[p] = "running"
        <3>1. b \in KeState /\ b.timer = k.timer /\ b.wake = k.wake /\ b.ticks = k.ticks
            BY <1>1 DEF KeState, States
        <3>2. u = KepReschedule(b)
            BY <2>1 DEF Unlisted
        <3> HIDE DEF b, u
        <3>3. u \in KeState /\ SameWaiters(b, u)
            BY <3>1, <3>2, RescheduleSameWaiters
        <3>4. QED
            BY <3>1, <3>3 DEF SameWaiters, KeepsTime, KeepsOrder, SleepersStay, Sorted
    <2>2. CASE k.state[p] = "ready"
        <3>1. u = d
            BY <2>2 DEF Unlisted
        <3>2. d \in KeState /\ SameWaiters(k, d)
            BY <1>1, DequeueSameWaiters
        <3> HIDE DEF u, d
        <3>3. QED
            BY <3>1, <3>2, SameWaitersKeepTime
    <2>3. CASE k.state[p] = "blocked"
        <3>1. u = RemoveFromBlockedLists(k, p)
            BY <2>3 DEF Unlisted
        <3>2. QED
            BY <2>3, <3>1, OffListsKeepsTime
    <2>4. CASE k.state[p] = "created"
        <3>1. u = c
            BY <2>4 DEF Unlisted
        <3>2. c \in KeState /\ SameWaiters(k, c)
            BY <1>1 DEF KeBugCheck, KeState, SameWaiters
        <3> HIDE DEF u, c
        <3>3. QED
            BY <3>1, <3>2, SameWaitersKeepTime
    <2>5. k.state[p] \in States
        BY <1>1 DEF KeState
    <2> HIDE DEF u, b, c, d
    <2>6. QED
        BY <2>1, <2>2, <2>3, <2>4, <2>5 DEF States
<1>3. s = IF u.bugcheck THEN u ELSE [u EXCEPT !.scheduled = @ \ {p}]
    BY DEF KeStopSchedulingProcess
<1> HIDE DEF u, s
<1>4. s.timer = u.timer /\ s.wake = u.wake /\ s.ticks = u.ticks /\ s.bugcheck = u.bugcheck
    BY <1>2, <1>3 DEF KeState
<1>5. QED
    BY <1>2, <1>4 DEF KeepsTime, KeepsOrder, SleepersStay, Sorted, s

LEMMA BlockKeepsTime ==
    ASSUME NEW k, Running(k)
    PROVE  KeepsTime(k, KeBlockProcess(k))
<1> DEFINE c == k.current
           B == <<c>> \o k.blocked
           m == [k EXCEPT !.state[c] = "blocked", !.method[c] = FALSE, !.blocked = B]
           r == KeBlockProcess(k)
<1>1. k \in KeState /\ c \in Process /\ k.blocked \in Seq(Process)
    BY DEF Running, Consistent, KeState
<1>2. B \in Seq(Process)
    BY <1>1
<1>3. r = KepReschedule(m)
    BY DEF KeBlockProcess
<1> HIDE DEF B
<1>4. m \in KeState /\ m.timer = k.timer /\ m.wake = k.wake /\ m.ticks = k.ticks
    BY <1>1, <1>2 DEF KeState, States
<1> HIDE DEF m, r
<1>5. SameWaiters(m, r)
    BY <1>3, <1>4, RescheduleSameWaiters
<1>6. QED
    BY <1>4, <1>5 DEF SameWaiters, KeepsTime, KeepsOrder, SleepersStay, Sorted, r

LEMMA SuspendKeepsTime ==
    ASSUME NEW k, Running(k), NEW ms \in Ulong, NEW resume \in BOOLEAN
    PROVE  LET r == KeSuspendProcess(k, ms, resume)
           IN  KeepsOrder(k, r) /\ OnlyNewSleeper(k, r, (k.ticks + ms) % ULONG_RANGE)
<1> DEFINE c == k.current
           w == (k.ticks + ms) % ULONG_RANGE
           V == [k.wake EXCEPT ![c] = w]
           T == InsertAt(k.timer, TimerSlot(k, w), c)
           m == [k EXCEPT !.wake = V, !.state = [k.state EXCEPT ![c] = "blocked"],
                          !.method = [k.method EXCEPT ![c] = resume], !.timer = T]
           r == KeSuspendProcess(k, ms, resume)
<1>1. k \in KeState /\ c \in Process /\ k.timer \in Seq(Process) /\ ~Contains(k.timer, c)
    BY DEF Running, Consistent, ListsHoldAllBut, OnNoList, KeState
<1>2. w \in Ulong
    <2>1. k.ticks + ms \in Nat /\ ULONG_RANGE \in Nat \ {0}
        BY <1>1, SchedulerAssumption DEF KeState, Ulong
    <2>2. QED
        BY <2>1 DEF Ulong
<1>3. r = KepReschedule(m)
    BY <1>1 DEF KeSuspendProcess, KeState
<1> HIDE DEF w
<1>4. V \in [Process -> Ulong] /\ V[c] = w /\ \A x \in Process : x # c => V[x] = k.wake[x]
    BY <1>1, <1>2 DEF KeState
<1>5. T \in Seq(Process)
    <2>1. TimerSlot(k, w) \in 1 .. Len(k.timer) + 1
        BY <1>1, <1>2, TimerSlotFacts
    <2>2. QED
        BY <1>1, <2>1, InsertAtElements
<1> HIDE DEF V
<1>6. Sorted(k) => InOrder(T, V)
    BY <1>1, <1>2, <1>4, InsertInOrder
<1>7. \A x : Contains(T, x) <=> x = c \/ Contains(k.timer, x)
    <2>1. TimerSlot(k, w) \in 1 .. Len(k.timer) + 1
        BY <1>1, <1>2, TimerSlotFacts
    <2>2. IsInjective(k.timer)
        BY DEF Running, Consistent, ListsHoldAllBut, NoneTwiceOnLists
    <2>3. QED
        BY <1>1, <2>1, <2>2, InsertAtFacts
<1> HIDE DEF T
<1>8. m \in KeState
    <2>1. /\ [k.state EXCEPT ![c] = "blocked"] \in [Process -> States]
          /\ [k.method EXCEPT ![c] = resume] \in [Process -> BOOLEAN]
        BY <1>1 DEF KeState, States
    <2>2. QED
        BY <1>1, <1>4, <1>5, <2>1 DEF KeState
<1>9. m.timer = T /\ m.wake = V /\ m.ticks = k.ticks
    BY <1>1 DEF KeState
<1> HIDE DEF m, r
<1>10. r.timer = T /\ r.wake = V /\ r.ticks = k.ticks
    BY <1>3, <1>8, <1>9, RescheduleSameWaiters DEF SameWaiters
<1>11. KeepsOrder(k, r)
    BY <1>6, <1>10 DEF KeepsOrder, Sorted
<1>12. OnlyNewSleeper(k, r, w)
    BY <1>1, <1>4, <1>7, <1>10 DEF OnlyNewSleeper
<1>13. QED
    BY <1>11, <1>12 DEF r, w

LEMMA ChangePriorityKeepsTime ==
    ASSUME NEW k \in KeState, NEW p \in Process, NEW prio \in Priorities
    PROVE  KeepsTime(k, KeChangeProcessPriority(k, p, prio))
<1> DEFINE d == KepDequeueProcess(k, p)
           m == [d EXCEPT !.priority[p] = prio]
           e == KepEnqueueProcess(m, p)
           r == KeChangeProcessPriority(k, p, prio)
<1>1. CASE k.state[p] \in {"running", "blocked"}
    <2>1. r.timer = k.timer /\ r.wake = k.wake /\ r.ticks = k.ticks
        BY <1>1 DEF KeChangeProcessPriority, KeState
    <2> HIDE DEF r
    <2>2. QED
        BY <2>1 DEF KeepsTime, KeepsOrder, SleepersStay, Sorted, r
<1>2. CASE k.state[p] = "ready"
    <2>1. d \in KeState /\ SameWaiters(k, d)
        BY DequeueSameWaiters
    <2>2. r = IF d.bugcheck THEN d ELSE e
        BY <1>2 DEF KeChangeProcessPriority
    <2> HIDE DEF d, r
    <2>3. m \in KeState /\ m.timer = d.timer /\ m.wake = d.wake /\ m.ticks = d.ticks
        <3>1. [d.priority EXCEPT ![p] = prio] \in [Process -> Nat]
            BY <2>1 DEF KeState, Priorities
        <3>2. QED
            BY <2>1, <3>1 DEF KeState
    <2> HIDE DEF m
    <2>4. SameWaiters(m, e)
        BY <2>3, EnqueueSameWaiters
    <2> HIDE DEF e
    <2>5. r.timer = k.timer /\ r.wake = k.wake /\ r.ticks = k.ticks
        BY <2>1, <2>2, <2>3, <2>4 DEF SameWaiters
    <2>6. QED
        BY <2>5 DEF KeepsTime, KeepsOrder, SleepersStay, Sorted, r
<1>3. CASE k.state[p] = "created"
    <2>1. r.timer = k.timer /\ r.wake = k.wake /\ r.ticks = k.ticks
        BY <1>3 DEF KeChangeProcessPriority, KeBugCheck, KeState
    <2> HIDE DEF r
    <2>2. QED
        BY <2>1 DEF KeepsTime, KeepsOrder, SleepersStay, Sorted, r
<1>4. k.state[p] \in States
    BY DEF KeState
<1>5. QED
    BY <1>1, <1>2, <1>3, <1>4 DEF States
-----------------------------------------------------------------------------
\* The states the loop of KepWakeUpSleepers can be in after n of its
\* iterations, from state k: either the head of the timer list is not due, or
\* each iteration has woken one.
AfterIterations(k, n) ==
    {x \in LoopStates(k) :
        Sorted(x) /\ (~SleeperIsDue(x) \/ Len(x.timer) + n = Len(k.timer))}

LEMMA IterationWakesOne ==
    ASSUME NEW k, NEW n \in Nat, NEW x \in AfterIterations(k, n)
    PROVE  WakeSleeper(x) \in AfterIterations(k, n + 1)
<1>1. /\ x \in LoopStates(k) /\ Sorted(x)
      /\ ~SleeperIsDue(x) \/ Len(x.timer) + n = Len(k.timer)
    BY DEF AfterIterations
<1>2. WakeSleeper(x) \in LoopStates(k)
    BY <1>1, WakeSleeperStays
<1>3. Running(x) /\ x \in KeState /\ ~x.bugcheck
    BY <1>1 DEF LoopStates, Running, Consistent
<1>4. CASE ~SleeperIsDue(x)
    <2>1. WakeSleeper(x) = x
        BY <1>4 DEF WakeSleeper
    <2>2. QED
        BY <1>1, <1>4, <2>1 DEF AfterIterations
<1>5. CASE SleeperIsDue(x)
    <2> DEFINE p == Head(x.timer)
               r == KeResumeProcess(x, p)
    <2>1. x.timer \in Seq(Process) /\ x.timer # <<>>
        BY <1>3, <1>5 DEF KeState, SleeperIsDue
    <2>2. p \in Process /\ Contains(x.timer, p)
        BY <2>1, TailFacts
    <2> HIDE DEF p
    <2>3. p \in x.scheduled /\ x.state[p] = "blocked"
        BY <1>3, <2>2 DEF Running, Consistent, ListsHoldAllBut, OnlyTheirsOnLists
    <2>4. KeepsTime(x, r) /\ Len(r.timer) = Len(x.timer) - 1
        BY <1>3, <2>2, <2>3, ResumeKeepsTime
    <2> HIDE DEF r
    <2>5. WakeSleeper(x) = r
        BY <1>3, <1>5 DEF WakeSleeper, r, p
    <2>6. ~r.bugcheck
        BY <1>2, <2>5 DEF LoopStates, Running, Consistent
    <2>7. Len(x.timer) \in Nat /\ Len(x.timer) + n = Len(k.timer)
        BY <1>1, <1>5, <2>1
    <2>8. Sorted(r) /\ Len(r.timer) + (n + 1) = Len(k.timer)
        <3>1. Sorted(r)
            BY <1>1, <2>4, <2>6 DEF KeepsTime, KeepsOrder
        <3>2. \A a, b \in Nat : (a - 1) + (b + 1) = a + b
            OBVIOUS
        <3>3. (Len(x.timer) - 1) + (n + 1) = Len(x.timer) + n
            BY <2>7, <3>2
        <3>4. QED
            BY <2>4, <2>7, <3>1, <3>3
    <2>9. QED
        BY <1>2, <2>5, <2>8 DEF AfterIterations
<1>6. QED
    BY <1>4, <1>5

\* The loop ends with a timer list that is sorted and whose head is not due.
LEMMA LoopWakesAllDue ==
    ASSUME NEW k, Running(k), Sorted(k)
    PROVE  LET w == KepWakeUpSleepers(k)
           IN  w \in LoopStates(k) /\ Sorted(w) /\ ~SleeperIsDue(w)
<1> DEFINE w == KepWakeUpSleepers(k)
           S == UNION {AfterIterations(k, n) : n \in Nat}
<1>1. k \in KeState /\ k \in LoopStates(k)
    BY DEF Running, Consistent, LoopStates
<1>2. Len(k.timer) \in Nat
    BY <1>1 DEF KeState
<1>3. k \in AfterIterations(k, 0)
    BY <1>1, <1>2 DEF AfterIterations
<1>4. k \in S
    BY <1>3
<1>5. \A x \in S : WakeSleeper(x) \in S
    <2> SUFFICES ASSUME NEW x \in S PROVE WakeSleeper(x) \in S
        OBVIOUS
    <2>1. PICK n \in Nat : x \in AfterIterations(k, n)
        OBVIOUS
    <2>2. WakeSleeper(x) \in AfterIterations(k, n + 1) /\ n + 1 \in Nat
        BY <2>1, IterationWakesOne
    <2>3. QED
        BY <2>2
<1> HIDE DEF S
<1>6. PICK g : /\ g[0] = k
               /\ \A n \in Nat : g[n + 1] = WakeSleeper(g[n])
               /\ w = g[Len(k.timer)]
    BY <1>1, <1>4, <1>5, WakeUpIterates
<1> HIDE DEF w
<1>7. \A n \in Nat : g[n] \in AfterIterations(k, n)
    <2> DEFINE D == {n \in Nat : g[n] \in AfterIterations(k, n)}
    <2>1. 0 \in D
        BY <1>3, <1>6
    <2>2. ASSUME NEW n \in Nat, n \in D PROVE n + 1 \in D
        <3>1. WakeSleeper(g[n]) \in AfterIterations(k, n + 1)
            BY <2>2, IterationWakesOne
        <3>2. g[n + 1] = WakeSleeper(g[n]) /\ n + 1 \in Nat
            BY <1>6
        <3>3. g[n + 1] \in AfterIterations(k, n + 1)
            BY <3>1, <3>2
        <3>4. QED
            BY <3>2, <3>3
    <2> HIDE DEF D
    <2>3. Nat \subseteq D
        BY <2>1, <2>2, NatSetInduction
    <2>4. QED
        BY <2>3 DEF D
<1>8. w \in AfterIterations(k, Len(k.timer))
    BY <1>2, <1>6, <1>7
<1>9. w \in LoopStates(k) /\ Sorted(w) /\ (~SleeperIsDue(w) \/ Len(w.timer) + Len(k.timer) = Len(k.timer))
    BY <1>8 DEF AfterIterations
<1>10. Len(w.timer) + Len(k.timer) = Len(k.timer) => w.timer = <<>>
    <2>1. w.timer \in Seq(Process)
        BY <1>9 DEF LoopStates, KeState
    <2>2. Len(w.timer) \in Nat /\ (Len(w.timer) = 0 => w.timer = <<>>)
        BY <2>1
    <2>3. \A a, b \in Nat : a + b = b => a = 0
        OBVIOUS
    <2>4. QED
        BY <1>2, <2>2, <2>3
<1>11. w.timer = <<>> => ~SleeperIsDue(w)
    BY DEF SleeperIsDue
<1>12. QED
    BY <1>9, <1>10, <1>11 DEF w

\* No entry of the timer list is due if the list is sorted and its head is not.
AllDueAwake(r) == \A i \in DOMAIN r.timer : r.wake[r.timer[i]] >= r.ticks

LEMMA HeadTellsOfAll ==
    ASSUME NEW w \in KeState, Sorted(w), ~SleeperIsDue(w)
    PROVE  AllDueAwake(w)
<1>1. /\ w.timer \in Seq(Process) /\ DOMAIN w.timer = 1 .. Len(w.timer) /\ Len(w.timer) \in Nat
      /\ \A i \in DOMAIN w.timer : w.wake[w.timer[i]] \in Nat
      /\ w.ticks \in Nat
    BY DEF KeState, Ulong
<1>2. ASSUME NEW i \in DOMAIN w.timer PROVE w.wake[w.timer[i]] >= w.ticks
    <2>1. 1 \in DOMAIN w.timer /\ w.timer # <<>> /\ Head(w.timer) = w.timer[1]
        BY <1>1
    <2>2. ~(w.wake[w.timer[1]] < w.ticks)
        BY <2>1 DEF SleeperIsDue
    <2>3. w.wake[w.timer[1]] <= w.wake[w.timer[i]]
        <3>1. CASE i = 1
            BY <1>1, <3>1
        <3>2. CASE i # 1
            <4>1. 1 < i
                BY <1>1, <3>2
            <4>2. QED
                BY <2>1, <4>1 DEF Sorted, InOrder
        <3>3. QED
            BY <3>1, <3>2
    <2>4. QED
        BY <1>1, <2>1, <2>2, <2>3
<1>3. QED
    BY <1>2 DEF AllDueAwake

\* A tick leaves the timer list sorted and without a sleeper that is due.
LEMMA TickKeepsOrder ==
    ASSUME NEW k, Running(k), k.quantum # 0, Sorted(k)
    PROVE  Sorted(KeHandleTimer(k)) /\ AllDueAwake(KeHandleTimer(k))
<1> DEFINE t == [k EXCEPT !.ticks = (@ + TICK) % ULONG_RANGE, !.quantum = @ - 1]
           w == KepWakeUpSleepers(t)
           d == KepReschedule(w)
           r == KeHandleTimer(k)
<1>1. Running(t)
    BY TickRunning
<1>2. Sorted(t)
    <2>1. t.timer = k.timer /\ t.wake = k.wake
        BY DEF Running, Consistent, KeState
    <2> HIDE DEF t
    <2>2. QED
        BY <2>1 DEF Sorted
<1>3. r \in {w, d}
    BY DEF KeHandleTimer
<1> HIDE DEF t
<1>4. w \in LoopStates(t) /\ Sorted(w) /\ ~SleeperIsDue(w)
    BY <1>1, <1>2, LoopWakesAllDue
<1> HIDE DEF w
<1>5. w \in KeState
    BY <1>4 DEF LoopStates
<1>6. SameWaiters(w, d)
    BY <1>5, RescheduleSameWaiters
<1> HIDE DEF d, r
<1>7. r.timer = w.timer /\ r.wake = w.wake /\ r.ticks = w.ticks
    BY <1>3, <1>6 DEF SameWaiters
<1>8. AllDueAwake(w)
    BY <1>4, <1>5, HeadTellsOfAll
<1>9. QED
    BY <1>4, <1>7, <1>8 DEF Sorted, AllDueAwake, r
-----------------------------------------------------------------------------
\* One step of the scheduler.
LEMMA StepKeepsOrder ==
    ASSUME IInv, TimerListSorted, [Next]_ke
    PROVE  /\ TimerListSorted'
           /\ ke'.ticks # ke.ticks /\ ~ke'.bugcheck => AllDueAwake(ke')
<1>1. ASSUME ~ke.bugcheck PROVE Running(ke) /\ ke.quantum # 0 /\ ke \in KeState /\ Sorted(ke)
    BY <1>1 DEF IInv, Inv, TimerListSorted, Sorted, InOrder
<1>2. (~ke'.bugcheck => Sorted(ke')) => TimerListSorted'
    BY DEF TimerListSorted, Sorted, InOrder
<1>3. ASSUME ~ke.bugcheck, KeepsOrder(ke, ke')
      PROVE  TimerListSorted' /\ ke'.ticks = ke.ticks
    BY <1>1, <1>2, <1>3 DEF KeepsOrder
<1>4. ASSUME NEW p \in Process, NEW prio \in Priorities, StartProcess(p, prio)
      PROVE  TimerListSorted' /\ ke'.ticks = ke.ticks
    BY <1>1, <1>3, <1>4, StartKeepsTime DEF StartProcess, KeepsTime
<1>5. ASSUME NEW p \in Process, StopProcess(p)
      PROVE  TimerListSorted' /\ ke'.ticks = ke.ticks
    BY <1>1, <1>3, <1>5, StopKeepsTime DEF StopProcess, KeepsTime
<1>6. ASSUME BlockProcess
      PROVE  TimerListSorted' /\ ke'.ticks = ke.ticks
    BY <1>1, <1>3, <1>6, BlockKeepsTime DEF BlockProcess, KeepsTime
<1>7. ASSUME NEW p \in Process, ResumeProcess(p)
      PROVE  TimerListSorted' /\ ke'.ticks = ke.ticks
    BY <1>1, <1>3, <1>7, ResumeKeepsTime DEF ResumeProcess, KeepsTime
<1>8. ASSUME NEW p \in Process, NEW prio \in NewPriorities, ChangeProcessPriority(p, prio)
      PROVE  TimerListSorted' /\ ke'.ticks = ke.ticks
    BY <1>1, <1>3, <1>8, ChangePriorityKeepsTime, SchedulerAssumption DEF ChangeProcessPriority, KeepsTime
<1>9. ASSUME NEW ms \in Sleeps, NEW resume \in BOOLEAN, SuspendProcess(ms, resume)
      PROVE  TimerListSorted' /\ ke'.ticks = ke.ticks
    <2>1. ms \in Ulong
        BY SchedulerAssumption
    <2>2. QED
        BY <1>1, <1>3, <1>9, <2>1, SuspendKeepsTime DEF SuspendProcess
<1>10. ASSUME HandleTimer
       PROVE  TimerListSorted' /\ AllDueAwake(ke')
    <2>1. Running(ke) /\ ke.quantum # 0 /\ Sorted(ke) /\ ke' = KeHandleTimer(ke)
        BY <1>1, <1>10 DEF HandleTimer
    <2>2. Sorted(ke') /\ AllDueAwake(ke')
        BY <2>1, TickKeepsOrder
    <2>3. QED
        BY <1>2, <2>2
<1>11. ASSUME UNCHANGED ke
       PROVE  TimerListSorted' /\ ke'.ticks = ke.ticks
    BY <1>11 DEF TimerListSorted
<1>12. QED
    BY <1>4, <1>5, <1>6, <1>7, <1>8, <1>9, <1>10, <1>11 DEF Next, Spin

LEMMA SortedAndConsistent == Spec => [](IInv /\ TimerListSorted)
<1>1. Init => TimerListSorted
    BY DEF Init, KeInit, TimerListSorted
<1>2. IInv /\ TimerListSorted /\ [Next]_ke => TimerListSorted'
    BY StepKeepsOrder
<1>3. QED
    BY <1>1, <1>2, InvAlways, PTL DEF Spec

\* Wherever KeSuspendProcess links sleepers and whatever takes them off again,
\* the timer list stays sorted by WakeUpTime, which lets KepWakeUpSleepers look
\* at its head only.
THEOREM TimerListAlwaysSorted == Spec => []TimerListSorted
<1>1. IInv /\ TimerListSorted => TimerListSorted
    OBVIOUS
<1>2. QED
    BY <1>1, SortedAndConsistent, PTL

\* After a tick no process on the timer list has a WakeUpTime in the past,
\* however many were due and whoever was dispatched in between.
THEOREM TickAlwaysWakesAllDue == Spec => TickWakesAllDue
<1>1. IInv /\ TimerListSorted /\ [Next]_ke =>
        [ke'.ticks # ke.ticks /\ ~ke'.bugcheck =>
            \A i \in DOMAIN ke'.timer : ke'.wake[ke'.timer[i]] >= ke'.ticks]_ke
    BY StepKeepsOrder DEF AllDueAwake
<1>2. QED
    BY <1>1, SortedAndConsistent, PTL DEF Spec, TickWakesAllDue
-----------------------------------------------------------------------------
\* r is what a tick, or a part of it, has made of k by the time now: who still
\* sleeps does so until the same time as before, who no longer does was due.
OnlyDueWoken(k, r, now) ==
    /\ SleepersStay(k, r)
    /\ \A p \in Process :
          Contains(k.timer, p) /\ ~Contains(r.timer, p) => k.wake[p] < now

\* One iteration of KepWakeUpSleepers, after iterations that woke only those
\* that were due.
LEMMA IterationWakesDue ==
    ASSUME NEW k, NEW x \in LoopStates(k), OnlyDueWoken(k, x, k.ticks)
    PROVE  OnlyDueWoken(k, WakeSleeper(x), k.ticks)
<1>1. Running(x) /\ x \in KeState /\ ~x.bugcheck /\ x.ticks = k.ticks
    BY DEF LoopStates, Running, Consistent
<1>2. CASE ~SleeperIsDue(x)
    <2>1. WakeSleeper(x) = x
        BY <1>2 DEF WakeSleeper
    <2>2. QED
        BY <2>1
<1>3. CASE SleeperIsDue(x)
    <2> DEFINE p == Head(x.timer)
               r == KeResumeProcess(x, p)
    <2>1. x.timer \in Seq(Process) /\ x.timer # <<>>
        BY <1>1, <1>3 DEF KeState, SleeperIsDue
    <2>2. p \in Process /\ Contains(x.timer, p)
        BY <2>1, TailFacts
    <2>3. x.wake[p] < k.ticks
        BY <1>1, <1>3 DEF SleeperIsDue
    <2> HIDE DEF p
    <2>4. p \in x.scheduled /\ x.state[p] = "blocked"
        BY <1>1, <2>2 DEF Running, Consistent, ListsHoldAllBut, OnlyTheirsOnLists
    <2>5. SleepersStay(x, r) /\ OthersSleepOn(x, r, p)
        BY <1>1, <2>2, <2>4, ResumeKeepsTime DEF KeepsTime
    <2> HIDE DEF r
    <2>6. WakeSleeper(x) = r
        BY <1>1, <1>3 DEF WakeSleeper, r, p
    <2>7. SleepersStay(k, r)
        BY <2>5 DEF OnlyDueWoken, SleepersStay
    <2>8. ASSUME NEW y \in Process, Contains(k.timer, y), ~Contains(r.timer, y)
          PROVE  k.wake[y] < k.ticks
        <3>1. CASE Contains(x.timer, y)
            <4>1. y = p
                BY <2>5, <2>8, <3>1 DEF OthersSleepOn
            <4>2. x.wake[y] = k.wake[y]
                BY <3>1 DEF OnlyDueWoken, SleepersStay
            <4>3. QED
                BY <2>3, <4>1, <4>2
        <3>2. CASE ~Contains(x.timer, y)
            BY <2>8, <3>2 DEF OnlyDueWoken
        <3>3. QED
            BY <3>1, <3>2
    <2>9. QED
        BY <2>6, <2>7, <2>8 DEF OnlyDueWoken
<1>4. QED
    BY <1>2, <1>3

\* A tick never halts the machine, moves the counter on and wakes nobody that
\* is not due by then.
LEMMA TickWakesOnlyDue ==
    ASSUME NEW k, Running(k), k.quantum # 0
    PROVE  LET r == KeHandleTimer(k)
           IN  /\ Running(r)
               /\ r.ticks = (k.ticks + TICK) % ULONG_RANGE
               /\ OnlyDueWoken(k, r, r.ticks)
<1> DEFINE n == (k.ticks + TICK) % ULONG_RANGE
           t == [k EXCEPT !.ticks = n, !.quantum = @ - 1]
           w == KepWakeUpSleepers(t)
           d == KepReschedule(w)
           r == KeHandleTimer(k)
           S == {x \in LoopStates(t) : OnlyDueWoken(t, x, t.ticks)}
<1>1. Running(t)
    BY TickRunning
<1>2. t.timer = k.timer /\ t.wake = k.wake /\ t.ticks = n
    BY DEF Running, Consistent, KeState
<1>3. r = IF w.bugcheck \/ w.quantum # 0 THEN w ELSE d
    BY DEF KeHandleTimer
<1> HIDE DEF t, n
<1>4. t \in KeState /\ t \in S
    BY <1>1 DEF LoopStates, Running, Consistent, OnlyDueWoken, SleepersStay
<1>5. \A x \in S : WakeSleeper(x) \in S
    BY WakeSleeperStays, IterationWakesDue
<1>6. w \in S
    <2> HIDE DEF S
    <2>1. QED
        BY <1>4, <1>5, WakeUpStays
<1> HIDE DEF w
<1>7. /\ Running(w) /\ w \in KeState /\ w.ticks = n
      /\ OnlyDueWoken(t, w, n)
    BY <1>2, <1>6 DEF LoopStates
<1>8. Running(d) /\ SameWaiters(w, d)
    <2>1. /\ Consistent(w, {w.current}) /\ w.current \in w.scheduled
          /\ w.state[w.current] # "blocked" /\ IdleAwake(w)
        BY <1>7 DEF Running
    <2>2. QED
        BY <1>7, <2>1, RescheduleAwake, RescheduleSameWaiters
<1> HIDE DEF d, r
<1>9. Running(r) /\ r.timer = w.timer /\ r.wake = w.wake /\ r.ticks = n
    BY <1>3, <1>7, <1>8 DEF SameWaiters
<1>10. OnlyDueWoken(k, r, n)
    BY <1>2, <1>7, <1>9 DEF OnlyDueWoken, SleepersStay
<1>11. QED
    BY <1>9, <1>10 DEF r, n
-----------------------------------------------------------------------------
\* How long p still has to sleep, as the tick counter tells it.
TimeToWake(k, p) == IF k.wake[p] > k.ticks THEN k.wake[p] - k.ticks ELSE 0

\* While the tick counter is far from its limit, the timer list tells of every
\* sleeper what the clock tells.
TimeLeftTold ==
    /\ left \in [Process -> Nat]
    /\ ~ke.bugcheck =>
          \A p \in Process :
              Contains(ke.timer, p) => Sleeps # {} /\ left[p] = TimeToWake(ke, p)

\* The counter does not wrap where the sleeps of its callers end before its limit.
LEMMA NoWrap ==
    ASSUME CounterFarFromLimit, ke \in KeState, NEW ms \in Sleeps
    PROVE  /\ (ke.ticks + ms) % ULONG_RANGE = ke.ticks + ms
           /\ (ke.ticks + TICK) % ULONG_RANGE = ke.ticks + TICK
<1>1. ke.ticks \in Nat /\ ms \in Nat /\ TICK \in Nat /\ ULONG_RANGE \in Nat \ {0}
    BY SchedulerAssumption DEF KeState, Ulong
<1>2. ke.ticks + ms + TICK < ULONG_RANGE
    BY DEF CounterFarFromLimit
<1>3. ke.ticks + ms \in 0 .. ULONG_RANGE - 1 /\ ke.ticks + TICK \in 0 .. ULONG_RANGE - 1
    BY <1>1, <1>2
<1>4. \A a \in 0 .. ULONG_RANGE - 1 : a % ULONG_RANGE = a
    BY <1>1
<1>5. QED
    BY <1>3, <1>4

\* What a tick does to a sleeper, in the counter's terms and in the clock's.
LEMMA TickTellsTime ==
    ASSUME IInv, TimeLeftTold, CounterFarFromLimit, TimedTick,
           NEW p \in Process, Contains(ke.timer, p)
    PROVE  /\ left'[p] = IF ke.wake[p] > ke'.ticks THEN ke.wake[p] - ke'.ticks ELSE 0
           /\ left[p] = 0 => ke.wake[p] < ke'.ticks
           /\ OnlyDueWoken(ke, ke', ke'.ticks)
<1>1. Running(ke) /\ ke.quantum # 0 /\ ke' = KeHandleTimer(ke) /\ ~ke.bugcheck
    BY DEF IInv, Inv, TimedTick, HandleTimer
<1>2. /\ ke'.ticks = (ke.ticks + TICK) % ULONG_RANGE
      /\ OnlyDueWoken(ke, ke', ke'.ticks)
    BY <1>1, TickWakesOnlyDue
<1>3. ke \in KeState /\ ke.ticks \in Nat /\ ke.wake[p] \in Nat
    BY DEF IInv, Inv, KeState, Ulong
<1>4. Sleeps # {} /\ left[p] = TimeToWake(ke, p)
    BY <1>1 DEF TimeLeftTold
<1>5. PICK ms \in Sleeps : TRUE
    BY <1>4
<1>6. ke'.ticks = ke.ticks + TICK /\ TICK \in Nat \ {0}
    BY <1>2, <1>3, <1>5, NoWrap, SchedulerAssumption
<1>7. left'[p] = IF left[p] > TICK THEN left[p] - TICK ELSE 0
    BY DEF TimedTick
<1>8. QED
    BY <1>2, <1>3, <1>4, <1>6, <1>7 DEF TimeToWake

\* Every call and every tick leaves the two in agreement.
LEMMA StepTellsTime ==
    ASSUME IInv, TimeLeftTold, CounterFarFromLimit, [TimedNext]_timedVars
    PROVE  TimeLeftTold'
<1>1. ke \in KeState /\ left \in [Process -> Nat] /\ TICK \in Nat
    BY SchedulerAssumption DEF IInv, Inv, TimeLeftTold
<1>2. ASSUME ~ke.bugcheck PROVE Running(ke) /\ ke.quantum # 0
    BY <1>2 DEF IInv, Inv
<1>3. ASSUME NEW ms \in Sleeps, NEW resume \in BOOLEAN, TimedSuspend(ms, resume)
      PROVE  TimeLeftTold'
    <2>1. ~ke.bugcheck /\ ke' = KeSuspendProcess(ke, ms, resume)
        BY <1>3 DEF TimedSuspend, SuspendProcess
    <2>2. ms \in Ulong /\ ms \in Nat /\ ke.current \in Process
        BY <1>1, SchedulerAssumption DEF Ulong, KeState
    <2>3. /\ KeepsOrder(ke, ke')
          /\ OnlyNewSleeper(ke, ke', (ke.ticks + ms) % ULONG_RANGE)
        BY <1>2, <2>1, <2>2, SuspendKeepsTime
    <2>4. OnlyNewSleeper(ke, ke', ke.ticks + ms)
        BY <1>1, <2>3, NoWrap
    <2>5. left' = [left EXCEPT ![ke.current] = ms]
        BY <1>3 DEF TimedSuspend
    <2>6. ke'.ticks = ke.ticks /\ ke.ticks \in Nat
        BY <1>1, <2>3 DEF KeepsOrder, KeState, Ulong
    <2>7. ASSUME NEW p \in Process, Contains(ke'.timer, p)
          PROVE  left'[p] = TimeToWake(ke, p)'
        <3>1. CASE p = ke.current
            <4>1. left'[p] = ms /\ ke'.wake[p] = ke.ticks + ms
                BY <1>1, <2>4, <2>5, <3>1 DEF OnlyNewSleeper
            <4>2. QED
                BY <2>2, <2>6, <4>1 DEF TimeToWake
        <3>2. CASE p # ke.current
            <4>1. Contains(ke.timer, p) /\ ke'.wake[p] = ke.wake[p]
                BY <2>4, <2>7, <3>2 DEF OnlyNewSleeper
            <4>2. left'[p] = left[p] /\ left[p] = TimeToWake(ke, p)
                BY <1>1, <2>1, <2>5, <3>2, <4>1 DEF TimeLeftTold
            <4>3. QED
                BY <2>6, <4>1, <4>2 DEF TimeToWake
        <3>3. QED
            BY <3>1, <3>2
    <2>8. left' \in [Process -> Nat]
        BY <1>1, <2>2, <2>5
    <2>9. QED
        BY <2>7, <2>8 DEF TimeLeftTold
<1>4. ASSUME TimedTick PROVE TimeLeftTold'
    <2>1. Running(ke) /\ ke.quantum # 0 /\ ke' = KeHandleTimer(ke) /\ ~ke.bugcheck
        BY <1>2, <1>4 DEF TimedTick, HandleTimer
    <2>2. OnlyDueWoken(ke, ke', ke'.ticks)
        BY <2>1, TickWakesOnlyDue
    <2>3. ASSUME NEW p \in Process, Contains(ke'.timer, p)
          PROVE  Sleeps # {} /\ left'[p] = TimeToWake(ke, p)'
        <3>1. Contains(ke.timer, p) /\ ke'.wake[p] = ke.wake[p]
            BY <2>2, <2>3 DEF OnlyDueWoken, SleepersStay
        <3>2. left'[p] = IF ke.wake[p] > ke'.ticks THEN ke.wake[p] - ke'.ticks ELSE 0
            BY <1>4, <3>1, TickTellsTime
        <3>3. QED
            BY <2>1, <3>1, <3>2 DEF TimeToWake, TimeLeftTold
    <2>4. left' \in [Process -> Nat]
        BY <1>1, <1>4 DEF TimedTick
    <2>5. QED
        BY <2>3, <2>4 DEF TimeLeftTold
<1>5. ASSUME TimedCall PROVE TimeLeftTold'
    <2>1. left' = [p \in Process |-> IF Contains(ke'.timer, p) THEN left[p] ELSE 0]
        BY <1>5 DEF TimedCall
    <2>2. CASE ke.bugcheck
        <3>1. ke' = ke
            BY <1>5, <2>2 DEF TimedCall, StartProcess, StopProcess, BlockProcess, ResumeProcess,
                          ChangeProcessPriority, Spin
        <3>2. QED
            BY <1>1, <2>1, <2>2, <3>1 DEF TimeLeftTold
    <2>3. CASE ~ke.bugcheck
        <3>1. KeepsTime(ke, ke')
            <4>1. ASSUME NEW p \in Process, NEW prio \in Priorities, StartProcess(p, prio)
                  PROVE  KeepsTime(ke, ke')
                BY <1>1, <4>1, StartKeepsTime DEF StartProcess
            <4>2. ASSUME NEW p \in Process, StopProcess(p) PROVE KeepsTime(ke, ke')
                BY <1>2, <2>3, <4>2, StopKeepsTime DEF StopProcess
            <4>3. ASSUME BlockProcess PROVE KeepsTime(ke, ke')
                BY <1>2, <2>3, <4>3, BlockKeepsTime DEF BlockProcess
            <4>4. ASSUME NEW p \in Process, ResumeProcess(p) PROVE KeepsTime(ke, ke')
                BY <1>2, <2>3, <4>4, ResumeKeepsTime DEF ResumeProcess
            <4>5. ASSUME NEW p \in Process, NEW prio \in NewPriorities,
                         ChangeProcessPriority(p, prio)
                  PROVE  KeepsTime(ke, ke')
                BY <1>2, <2>3, <4>5, ChangePriorityKeepsTime, SchedulerAssumption
                   DEF ChangeProcessPriority, Running, Consistent
            <4>6. QED
                BY <1>5, <2>3, <4>1, <4>2, <4>3, <4>4, <4>5 DEF TimedCall, Spin
        <3>2. ASSUME NEW p \in Process, Contains(ke'.timer, p)
              PROVE  Sleeps # {} /\ left'[p] = TimeToWake(ke, p)'
            <4>1. Contains(ke.timer, p) /\ ke'.wake[p] = ke.wake[p] /\ ke'.ticks = ke.ticks
                BY <3>1, <3>2 DEF KeepsTime, KeepsOrder, SleepersStay
            <4>2. left'[p] = left[p] /\ Sleeps # {} /\ left[p] = TimeToWake(ke, p)
                BY <2>1, <2>3, <3>2, <4>1 DEF TimeLeftTold
            <4>3. QED
                BY <4>1, <4>2 DEF TimeToWake
        <3>3. left' \in [Process -> Nat]
            BY <1>1, <2>1
        <3>4. QED
            BY <3>2, <3>3 DEF TimeLeftTold
    <2>4. QED
        BY <2>2, <2>3
<1>6. ASSUME UNCHANGED timedVars PROVE TimeLeftTold'
    BY <1>6 DEF timedVars, TimeLeftTold, TimeToWake
<1>7. QED
    BY <1>3, <1>4, <1>5, <1>6 DEF TimedNext

\* The clock only watches: without it the steps are those of Scheduler.
LEMMA ClockWatches == TimedSpec => Spec
<1>1. TimedInit => Init
    BY DEF TimedInit
<1>2. [TimedNext]_timedVars => [Next]_ke
    BY DEF TimedNext, TimedSuspend, TimedTick, TimedCall, timedVars, Next
<1>3. QED
    BY <1>1, <1>2, PTL DEF TimedSpec, Spec

LEMMA TimeAlwaysTold ==
    TimedSpec /\ []CounterFarFromLimit => [](IInv /\ TimerListSorted /\ TimeLeftTold)
<1>1. TimedInit => TimeLeftTold
    BY DEF TimedInit, Init, KeInit, TimeLeftTold, Contains
<1>2. IInv /\ TimeLeftTold /\ CounterFarFromLimit /\ [TimedNext]_timedVars => TimeLeftTold'
    BY StepTellsTime
<1>3. QED
    BY <1>1, <1>2, ClockWatches, SortedAndConsistent, PTL DEF TimedSpec

\* As long as the tick counter is far from its limit, the timer ends no sleep
\* before the interval KeSuspendProcess was given is over, however many
\* sleepers there are and whatever order they came in.
THEOREM SleepsNeverShort == TimedSpec /\ []CounterFarFromLimit => SleepIsNeverShort
<1>1. ASSUME IInv, IInv', TimeLeftTold, CounterFarFromLimit,
             NEW p \in Process, Sleeping(ke, p), TimedTick, ~Sleeping(ke', p)
      PROVE  left'[p] = 0
    <2>1. Contains(ke.timer, p) /\ ke.wake[p] \in Nat
        BY <1>1 DEF Sleeping, IInv, Inv, KeState, Ulong
    <2>2. Running(ke')
        <3>1. Running(ke) /\ ke.quantum # 0 /\ ke' = KeHandleTimer(ke)
            BY <1>1 DEF IInv, Inv, TimedTick, HandleTimer
        <3>2. QED
            BY <3>1, TickWakesOnlyDue
    <2>3. ~Contains(ke'.timer, p)
        BY <1>1, <2>2 DEF Sleeping, Running, Consistent, ListsHoldAllBut, OnlyTheirsOnLists
    <2>4. /\ left'[p] = IF ke.wake[p] > ke'.ticks THEN ke.wake[p] - ke'.ticks ELSE 0
          /\ OnlyDueWoken(ke, ke', ke'.ticks)
        BY <1>1, <2>1, TickTellsTime
    <2>5. ke.wake[p] < ke'.ticks /\ ke'.ticks \in Nat
        BY <2>1, <2>2, <2>3, <2>4 DEF OnlyDueWoken, Running, Consistent, KeState, Ulong
    <2>6. QED
        BY <2>1, <2>4, <2>5
<1>2. IInv /\ IInv' /\ TimeLeftTold /\ CounterFarFromLimit =>
        [\A p \in Process :
            Sleeping(ke, p) /\ TimedTick /\ ~Sleeping(ke', p) => left'[p] = 0]_timedVars
    BY <1>1
<1>3. QED
    BY <1>2, TimeAlwaysTold, PTL DEF SleepIsNeverShort

\* As long as the tick counter is far from its limit, a sleep whose interval is
\* over when a tick comes ends in that tick: no other sleeper keeps it waiting.
THEOREM SleepsNeverLong == TimedSpec /\ []CounterFarFromLimit => SleepIsNeverLong
<1>1. ASSUME IInv, TimerListSorted, TimeLeftTold, CounterFarFromLimit,
             NEW p \in Process, Sleeping(ke, p), left[p] = 0, TimedTick
      PROVE  ~Sleeping(ke', p)
    <2>1. /\ Running(ke) /\ ke.quantum # 0 /\ ke' = KeHandleTimer(ke)
          /\ Contains(ke.timer, p)
        BY <1>1 DEF IInv, Inv, TimedTick, HandleTimer, Sleeping
    <2>2. ke.wake[p] < ke'.ticks /\ OnlyDueWoken(ke, ke', ke'.ticks)
        BY <1>1, <2>1, TickTellsTime
    <2>3. Sorted(ke)
        BY <1>1, <2>1 DEF TimerListSorted, Sorted, InOrder, Running, Consistent
    <2>4. AllDueAwake(ke')
        BY <2>1, <2>3, TickKeepsOrder
    <2>5. ke' \in KeState
        BY <2>1, TickWakesOnlyDue DEF Running, Consistent
    <2>6. SUFFICES ASSUME Contains(ke'.timer, p) PROVE FALSE
        BY DEF Sleeping
    <2>7. ke'.wake[p] = ke.wake[p]
        BY <2>2, <2>6 DEF OnlyDueWoken, SleepersStay
    <2>8. PICK i \in DOMAIN ke'.timer : ke'.timer[i] = p
        BY <2>5, <2>6 DEF Contains, KeState
    <2>9. ke'.wake[p] >= ke'.ticks
        BY <2>4, <2>8 DEF AllDueAwake
    <2>10. ke'.wake[p] \in Nat /\ ke'.ticks \in Nat
        BY <2>5 DEF KeState, Ulong
    <2>11. QED
        BY <2>2, <2>7, <2>9, <2>10
<1>2. IInv /\ TimerListSorted /\ TimeLeftTold /\ CounterFarFromLimit =>
        [\A p \in Process :
            Sleeping(ke, p) /\ left[p] = 0 /\ TimedTick /\ ~ke'.bugcheck =>
                ~Sleeping(ke', p)]_timedVars
    BY <1>1
<1>3. QED
    BY <1>2, TimeAlwaysTold, PTL DEF SleepIsNeverLong
-----------------------------------------------------------------------------
\* No ready queue above the priority of the current process holds anybody.
UrgentRuns(k) ==
    \A q \in Priorities : k.ready[q] # <<>> => q <= k.priority[k.current]

\* Who was blocked in k and is not in r is no more urgent than what runs in r.
WokenAreNoMoreUrgent(k, r) ==
    \A p \in k.scheduled \cap r.scheduled :
        k.state[p] = "blocked" /\ r.state[p] # "blocked" =>
            r.priority[p] <= r.priority[r.current]

\* What every call leaves behind: it has chosen the most urgent process, or it
\* has not chosen at all and had no reason to.
Chosen(k, r) ==
    ~r.bugcheck =>
        \/ UrgentRuns(r)
        \/ r.current = k.current /\ WokenAreNoMoreUrgent(k, r)

\* The processes of a ready queue have its priority.
InTheirQueues(k) ==
    \A q \in Priorities : \A p \in Process : Contains(k.ready[q], p) => k.priority[p] = q
-----------------------------------------------------------------------------
LEMMA RunningInTheirQueues ==
    ASSUME NEW k, Running(k)
    PROVE  k \in KeState /\ ~k.bugcheck /\ InTheirQueues(k)
BY DEF Running, Consistent, ListsHoldAllBut, OnlyTheirsOnLists, InTheirQueues

\* e is k with p at the end of the queue of its priority.
AddedToQueue(k, p, e) ==
    /\ e \in KeState
    /\ ~e.bugcheck =>
          /\ InTheirQueues(e)
          /\ e.state = [k.state EXCEPT ![p] = "ready"]
          /\ \A q \in Priorities : e.ready[q] # <<>> => k.ready[q] # <<>> \/ q = k.priority[p]
    /\ e.current = k.current /\ e.priority = k.priority /\ e.scheduled = k.scheduled

LEMMA EnqueueAdds ==
    ASSUME NEW k \in KeState, InTheirQueues(k), NEW p \in Process
    PROVE  AddedToQueue(k, p, KepEnqueueProcess(k, p))
<1> DEFINE e  == KepEnqueueProcess(k, p)
           pr == k.priority[p]
           A  == Append(k.ready[pr], p)
<1>1. e \in KeState
    BY EnqueueSameWaiters
<1>2. CASE pr \in Priorities
    <2>1. k.ready[pr] \in Seq(Process)
        BY <1>2 DEF KeState
    <2>2. \A x : Contains(A, x) <=> Contains(k.ready[pr], x) \/ x = p
        BY <2>1, AppendFacts
    <2>3. e = [k EXCEPT !.ready[pr] = A, !.state[p] = "ready"]
        BY <1>2 DEF KepEnqueueProcess
    <2> HIDE DEF A, e
    <2>4. /\ e.ready = [k.ready EXCEPT ![pr] = A]
          /\ e.state = [k.state EXCEPT ![p] = "ready"]
          /\ e.current = k.current /\ e.priority = k.priority /\ e.scheduled = k.scheduled
        BY <2>3 DEF KeState
    <2>5. \A q \in Priorities : e.ready[q] = IF q = pr THEN A ELSE k.ready[q]
        BY <2>4 DEF KeState
    <2> HIDE DEF pr
    <2>6. InTheirQueues(e)
        BY <2>2, <2>4, <2>5 DEF InTheirQueues, pr
    <2>7. QED
        BY <1>1, <2>4, <2>5, <2>6 DEF AddedToQueue, pr, e
<1>3. CASE pr \notin Priorities
    <2>1. e.bugcheck /\ e.current = k.current /\ e.priority = k.priority /\ e.scheduled = k.scheduled
        BY <1>3 DEF KepEnqueueProcess, KeBugCheck, KeState
    <2> HIDE DEF e
    <2>2. QED
        BY <1>1, <2>1 DEF AddedToQueue, e
<1>4. QED
    BY <1>2, <1>3

\* The head of a queue that is dispatched brings the priority of the queue.
LEMMA DispatchBrings ==
    ASSUME NEW k \in KeState, InTheirQueues(k), NEW top \in Priorities, k.ready[top] # <<>>
    PROVE  LET d == DispatchFrom(k, top)
           IN  /\ d.priority[d.current] = top
               /\ \A q \in Priorities : d.ready[q] # <<>> => k.ready[q] # <<>>
<1> DEFINE h == Head(k.ready[top])
           T == Tail(k.ready[top])
           d == DispatchFrom(k, top)
<1>1. k.ready[top] \in Seq(Process)
    BY DEF KeState
<1>2. h \in Process /\ Contains(k.ready[top], h)
    BY <1>1, TailFacts
<1>3. k.priority[h] = top
    BY <1>2 DEF InTheirQueues
<1>4. d = [k EXCEPT !.current = h, !.ready = [k.ready EXCEPT ![top] = T]]
    BY DEF DispatchFrom, KeState
<1> HIDE DEF d, h, T
<1>5. d.current = h /\ d.priority = k.priority /\ d.ready = [k.ready EXCEPT ![top] = T]
    BY <1>4 DEF KeState
<1>6. \A q \in Priorities : q # top => d.ready[q] = k.ready[q]
    BY <1>5 DEF KeState
<1>7. QED
    BY <1>3, <1>5, <1>6 DEF d

\* Whoever KepReschedule dispatches, no ready process is more urgent.
LEMMA RescheduleChoosesUrgent ==
    ASSUME NEW k \in KeState, InTheirQueues(k), ~KepReschedule(k).bugcheck
    PROVE  UrgentRuns(KepReschedule(k))
<1> DEFINE C   == Candidates(k)
           top == Highest(C)
           c   == k.current
           e   == KepEnqueueProcess(k, c)
           f   == IF k.state[c] = "blocked" THEN k ELSE e
           d   == Dispatch(k)
           r   == KepReschedule(k)
<1>1. c \in Process /\ k.priority \in [Process -> Nat] /\ Priorities \subseteq Nat
    BY DEF KeState, Priorities
<1>2. r = IF d.bugcheck THEN d
          ELSE IF d.state[d.current] = "blocked" THEN KeBugCheck(d) ELSE SetRunning(d)
    BY DEF KepReschedule
<1>3. d = IF C = {} THEN k ELSE IF f.bugcheck THEN f ELSE DispatchFrom(f, top)
    BY DEF Dispatch
<1>4. AddedToQueue(k, c, e)
    BY <1>1, EnqueueAdds
<1> HIDE DEF e
<1>5. /\ f \in KeState /\ f.priority = k.priority
      /\ \A q \in Priorities : ~f.bugcheck /\ f.ready[q] # <<>> =>
            k.ready[q] # <<>> \/ (q = k.priority[c] /\ k.state[c] # "blocked")
    <2>1. CASE k.state[c] = "blocked"
        BY <2>1
    <2>2. CASE k.state[c] # "blocked"
        BY <1>4, <2>2 DEF AddedToQueue
    <2>3. QED
        BY <2>1, <2>2
<1> HIDE DEF f, d, r
<1>6. d \in KeState
    <2>1. CASE C = {}
        BY <1>3, <2>1
    <2>2. CASE C # {} /\ f.bugcheck
        BY <1>3, <1>5, <2>2
    <2>3. CASE C # {} /\ ~f.bugcheck
        <3>1. top \in Priorities /\ k.ready[top] # <<>>
            BY <2>3, HighestCandidate DEF Candidates
        <3>2. f.ready[top] # <<>>
            <4>1. \A q \in Priorities : k.ready[q] # <<>> => e.ready[q] # <<>>
                BY <1>1, EnqueueSameWaiters DEF e
            <4>2. QED
                BY <3>1, <4>1 DEF f
        <3> HIDE DEF top
        <3>3. QED
            BY <1>3, <1>5, <2>3, <3>1, <3>2, DispatchSameWaiters
    <2>4. QED
        BY <2>1, <2>2, <2>3
<1>7. ~r.bugcheck
    BY DEF r
<1>8. ~d.bugcheck /\ r = SetRunning(d) /\ d.state[d.current] # "blocked"
    BY <1>2, <1>6, <1>7 DEF KeBugCheck, KeState
<1>9. UrgentRuns(d)
    <2>1. CASE C = {}
        <3>1. d = k
            BY <1>3, <2>1
        <3>2. ASSUME NEW q \in Priorities, k.ready[q] # <<>> PROVE q <= k.priority[c]
            <4>1. ~(q >= k.priority[c])
                BY <1>8, <2>1, <3>1, <3>2 DEF Candidates
            <4>2. q \in Nat /\ k.priority[c] \in Nat
                BY <1>1
            <4>3. QED
                BY <4>1, <4>2
        <3>3. QED
            BY <3>1, <3>2 DEF UrgentRuns
    <2>2. CASE C # {}
        <3>1. ~f.bugcheck /\ d = DispatchFrom(f, top)
            BY <1>3, <1>8, <2>2
        <3>2. top \in C /\ \A j \in C : j <= top
            BY <2>2, HighestCandidate
        <3> HIDE DEF top
        <3>3. top \in Priorities /\ k.ready[top] # <<>>
            BY <3>2 DEF Candidates
        <3>4. f.ready[top] # <<>>
            <4>1. \A q \in Priorities : k.ready[q] # <<>> => e.ready[q] # <<>>
                BY <1>1, EnqueueSameWaiters DEF e
            <4>2. QED
                BY <3>3, <4>1 DEF f
        <3>5. InTheirQueues(f)
            BY <1>4, <3>1 DEF f, AddedToQueue
        <3>6. /\ d.priority[d.current] = top
              /\ \A q \in Priorities : d.ready[q] # <<>> => f.ready[q] # <<>>
            BY <1>5, <3>1, <3>3, <3>4, <3>5, DispatchBrings
        <3>7. ASSUME NEW q \in Priorities, d.ready[q] # <<>> PROVE q <= top
            <4>1. k.ready[q] # <<>> \/ (q = k.priority[c] /\ k.state[c] # "blocked")
                BY <1>5, <3>1, <3>6, <3>7
            <4>2. q \in Nat /\ top \in Nat /\ k.priority[c] \in Nat
                BY <1>1, <3>3
            <4>3. k.state[c] # "blocked" => top >= k.priority[c]
                BY <3>2 DEF Candidates
            <4>4. CASE q \in C
                BY <3>2, <4>4
            <4>5. CASE q \notin C
                <5>1. k.state[c] # "blocked" /\ q <= k.priority[c]
                    BY <4>1, <4>2, <4>5 DEF Candidates
                <5>2. QED
                    BY <4>2, <4>3, <5>1
            <4>6. QED
                BY <4>4, <4>5
        <3>8. QED
            BY <3>6, <3>7 DEF UrgentRuns
    <2>3. QED
        BY <2>1, <2>2
<1>10. r.ready = d.ready /\ r.priority = d.priority /\ r.current = d.current
    BY <1>6, <1>8 DEF SetRunning, KeState
<1>11. QED
    BY <1>9, <1>10 DEF UrgentRuns, r

\* While the most urgent process runs, nobody at all that could run is more
\* urgent.
LEMMA UrgentOfAll ==
    ASSUME NEW k, NEW r, Running(r), UrgentRuns(r)
    PROVE  WokenAreNoMoreUrgent(k, r)
<1> SUFFICES ASSUME NEW p \in r.scheduled, r.state[p] # "blocked"
             PROVE  r.priority[p] <= r.priority[r.current]
    BY DEF WokenAreNoMoreUrgent
<1>1. r \in KeState /\ p \in Process /\ r.current \in Process
    BY DEF Running, Consistent, KeState
<1>2. CASE p = r.current
    <2>1. r.priority[p] \in Nat
        BY <1>1 DEF KeState
    <2>2. QED
        BY <1>2, <2>1
<1>3. CASE p # r.current
    <2>1. r.priority[p] \in Priorities /\ Contains(r.ready[r.priority[p]], p)
        BY <1>3 DEF Running, Consistent, ListsHoldAllBut, OnItsList
    <2>2. r.ready[r.priority[p]] # <<>>
        BY <2>1 DEF Contains
    <2>3. QED
        BY <2>1, <2>2 DEF UrgentRuns
<1>4. QED
    BY <1>2, <1>3
-----------------------------------------------------------------------------
\* KeResumeProcess reschedules, or only adds a process that is no more urgent
\* than the current one.
ResumedOnly(k, p, r) ==
    /\ r.current = k.current /\ r.priority = k.priority /\ r.scheduled = k.scheduled
    /\ r.state = [k.state EXCEPT ![p] = "ready"]
    /\ k.priority[p] <= k.priority[k.current]
    /\ \A q \in Priorities : r.ready[q] # <<>> => k.ready[q] # <<>> \/ q = k.priority[p]

LEMMA ResumeChooses ==
    ASSUME NEW k, Running(k), NEW p \in Process, p \in k.scheduled, k.state[p] = "blocked"
    PROVE  LET r == KeResumeProcess(k, p) IN UrgentRuns(r) \/ ResumedOnly(k, p, r)
<1> DEFINE u == RemoveFromBlockedLists(k, p)
           e == KepEnqueueProcess(u, p)
           r == KeResumeProcess(k, p)
<1>1. k \in KeState /\ ~k.bugcheck /\ InTheirQueues(k)
    BY RunningInTheirQueues
<1>2. ~r.bugcheck
    BY ResumeRunning DEF Running, Consistent
<1>3. u \in KeState /\ ~u.bugcheck
    <2>1. PICK off : off = {k.current}
        OBVIOUS
    <2>2. Consistent(k, off) /\ p \notin off
        BY <2>1 DEF Running
    <2>3. Unlinked(k, off, p, u)
        BY <2>2, RemoveBlocked
    <2> HIDE DEF u
    <2>4. QED
        BY <2>3 DEF Unlinked, Consistent
<1>4. /\ u.ready = k.ready /\ u.priority = k.priority /\ u.state = k.state
      /\ u.current = k.current /\ u.scheduled = k.scheduled
    BY <1>1 DEF RemoveFromBlockedLists, KeBugCheck, KeState
<1> HIDE DEF u
<1>5. InTheirQueues(u)
    BY <1>1, <1>4 DEF InTheirQueues
<1>6. AddedToQueue(u, p, e)
    BY <1>3, <1>5, EnqueueAdds
<1> HIDE DEF e
<1>7. r = IF e.bugcheck \/ e.priority[p] <= e.priority[e.current] THEN e ELSE KepReschedule(e)
    BY <1>3 DEF KeResumeProcess, u, e
<1> HIDE DEF r
<1>8. CASE e.bugcheck \/ e.priority[p] <= e.priority[e.current]
    <2>1. r = e /\ ~e.bugcheck /\ e.priority[p] <= e.priority[e.current]
        BY <1>2, <1>7, <1>8
    <2>2. QED
        BY <1>4, <1>6, <2>1 DEF AddedToQueue, ResumedOnly, r
<1>9. CASE ~(e.bugcheck \/ e.priority[p] <= e.priority[e.current])
    <2>1. e \in KeState /\ InTheirQueues(e) /\ r = KepReschedule(e)
        BY <1>6, <1>7, <1>9 DEF AddedToQueue
    <2>2. UrgentRuns(r)
        BY <1>2, <2>1, RescheduleChoosesUrgent
    <2>3. QED
        BY <2>2 DEF r
<1>10. QED
    BY <1>8, <1>9

\* After any number of resumes the choice is still right.
LEMMA ResumeKeepsChoice ==
    ASSUME NEW t \in KeState, NEW x, Running(x), Chosen(t, x), x.scheduled = t.scheduled,
           NEW p \in Process, p \in x.scheduled, x.state[p] = "blocked"
    PROVE  Chosen(t, KeResumeProcess(x, p))
<1> DEFINE r == KeResumeProcess(x, p)
<1>1. x \in KeState /\ ~x.bugcheck /\ x.current \in Process /\ x.priority \in [Process -> Nat]
    BY DEF Running, Consistent, KeState
<1>2. UrgentRuns(r) \/ ResumedOnly(x, p, r)
    BY ResumeChooses
<1> HIDE DEF r
<1>3. ASSUME ResumedOnly(x, p, r), UrgentRuns(x) PROVE UrgentRuns(r)
    <2>1. \A q \in Priorities : r.ready[q] # <<>> => q <= x.priority[x.current]
        BY <1>3 DEF ResumedOnly, UrgentRuns
    <2>2. QED
        BY <1>3, <2>1 DEF ResumedOnly, UrgentRuns
<1>4. ASSUME ResumedOnly(x, p, r), x.current = t.current, WokenAreNoMoreUrgent(t, x)
      PROVE  r.current = t.current /\ WokenAreNoMoreUrgent(t, r)
    <2>1. /\ r.current = x.current /\ r.priority = x.priority /\ r.scheduled = x.scheduled
          /\ r.state = [x.state EXCEPT ![p] = "ready"]
          /\ x.priority[p] <= x.priority[x.current]
        BY <1>4 DEF ResumedOnly
    <2>2. ASSUME NEW y \in t.scheduled \cap r.scheduled,
                 t.state[y] = "blocked", r.state[y] # "blocked"
          PROVE  r.priority[y] <= r.priority[r.current]
        <3>1. CASE y = p
            BY <2>1, <3>1
        <3>2. CASE y # p
            <4>1. y \in Process
                BY DEF KeState
            <4>2. x.state[y] # "blocked"
                BY <1>1, <2>1, <2>2, <3>2, <4>1 DEF KeState
            <4>3. QED
                BY <1>4, <2>1, <2>2, <4>2 DEF WokenAreNoMoreUrgent
        <3>3. QED
            BY <3>1, <3>2
    <2>3. QED
        BY <1>4, <2>1, <2>2 DEF WokenAreNoMoreUrgent
<1>5. QED
    BY <1>1, <1>2, <1>3, <1>4 DEF Chosen, r

\* Nothing that keeps the current process and wakes nobody needs to choose.
LEMMA NobodyWoken ==
    ASSUME NEW k, NEW r, r.current = k.current,
           \A p \in k.scheduled : k.state[p] = "blocked" => r.state[p] = "blocked"
    PROVE  Chosen(k, r)
BY DEF Chosen, WokenAreNoMoreUrgent

\* A KepReschedule on whatever the call made of the state before.
LEMMA RescheduleChooses ==
    ASSUME NEW k, NEW m \in KeState, InTheirQueues(m)
    PROVE  Chosen(k, KepReschedule(m))
BY RescheduleChoosesUrgent DEF Chosen

LEMMA StartChooses ==
    ASSUME NEW k, Running(k), NEW p \in Process, NEW prio \in Priorities, p \notin k.scheduled
    PROVE  Chosen(k, KeStartSchedulingProcess(NewProcess(k, p, prio), p))
<1> DEFINE n == [NewProcess(k, p, prio) EXCEPT !.scheduled = @ \cup {p}]
           r == KeStartSchedulingProcess(NewProcess(k, p, prio), p)
<1>1. k \in KeState
    BY RunningInTheirQueues
<1>2. n.priority[p] = prio /\ n.current = k.current /\ \A x \in Process : x # p => n.state[x] = k.state[x]
    BY <1>1 DEF NewProcess, KeState
<1>3. n.state = [k.state EXCEPT ![p] = "ready"]
    BY <1>1 DEF NewProcess, KeState
<1>4. r.current = n.current /\ r.state = [n.state EXCEPT ![p] = "ready"]
    <2>1. r = KepEnqueueProcess(n, p)
        BY DEF KeStartSchedulingProcess
    <2>2. n = [k EXCEPT !.state = [k.state EXCEPT ![p] = "ready"],
                        !.priority = [k.priority EXCEPT ![p] = prio],
                        !.scheduled = k.scheduled \cup {p}]
        BY <1>1 DEF NewProcess, KeState
    <2> HIDE DEF n, r
    <2>3. r = [n EXCEPT !.ready[prio] = Append(@, p), !.state[p] = "ready"]
        BY <1>2, <2>1 DEF KepEnqueueProcess
    <2>4. QED
        BY <1>1, <2>2, <2>3 DEF KeState
<1> HIDE DEF n, r
<1>5. \A x \in k.scheduled : r.state[x] = k.state[x]
    BY <1>1, <1>2, <1>3, <1>4 DEF KeState
<1>6. r.current = k.current
    BY <1>2, <1>4
<1>7. Chosen(k, r)
    BY <1>5, <1>6, NobodyWoken
<1>8. QED
    BY <1>7 DEF r

LEMMA StopChooses ==
    ASSUME NEW k, Running(k), NEW p \in Process, p \in k.scheduled
    PROVE  Chosen(k, KeStopSchedulingProcess(k, p))
<1> DEFINE u == Unlisted(k, p)
           b == [k EXCEPT !.state[p] = "blocked"]
           s == KeStopSchedulingProcess(k, p)
<1>1. k \in KeState /\ InTheirQueues(k)
    BY RunningInTheirQueues
<1>2. s = IF u.bugcheck THEN u ELSE [u EXCEPT !.scheduled = @ \ {p}]
    BY DEF KeStopSchedulingProcess
<1>3. CASE k.state[p] = "running"
    <2>1. b \in KeState /\ b.ready = k.ready /\ b.priority = k.priority
        BY <1>1 DEF KeState, States
    <2>2. u = KepReschedule(b)
        BY <1>3 DEF Unlisted
    <2> HIDE DEF b, u, s
    <2>3. InTheirQueues(b)
        BY <1>1, <2>1 DEF InTheirQueues
    <2>4. u \in KeState /\ (~u.bugcheck => UrgentRuns(u))
        BY <2>1, <2>2, <2>3, RescheduleSameWaiters, RescheduleChoosesUrgent
    <2>5. s.bugcheck = u.bugcheck /\ s.ready = u.ready /\ s.priority = u.priority /\ s.current = u.current
        BY <1>2, <2>4 DEF KeState
    <2>6. QED
        BY <2>4, <2>5 DEF UrgentRuns, Chosen, s
<1>4. CASE k.state[p] # "running"
    <2>1. u.state = k.state /\ u.current = k.current
        BY <1>1, <1>4 DEF Unlisted, KepDequeueProcess, RemoveFromBlockedLists, KeBugCheck, KeState
    <2>2. u \in KeState
        <3>1. CASE k.state[p] = "ready"
            <4>1. u = KepDequeueProcess(k, p)
                BY <3>1 DEF Unlisted
            <4>2. QED
                BY <1>1, <4>1, DequeueSameWaiters
        <3>2. CASE k.state[p] = "blocked"
            <4>1. u = RemoveFromBlockedLists(k, p)
                BY <3>2 DEF Unlisted
            <4>2. PICK off : off = {k.current}
                OBVIOUS
            <4>3. Consistent(k, off) /\ p \notin off
                BY <3>2, <4>2 DEF Running
            <4>4. QED
                BY <3>2, <4>1, <4>3, RemoveBlocked DEF Unlinked, Consistent
        <3>3. CASE k.state[p] = "created"
            <4>1. u = KeBugCheck(k)
                BY <3>3 DEF Unlisted
            <4> HIDE DEF u
            <4>2. QED
                BY <1>1, <4>1 DEF KeBugCheck, KeState
        <3>4. k.state[p] \in States
            BY <1>1 DEF KeState
        <3>5. QED
            BY <1>4, <3>1, <3>2, <3>3, <3>4 DEF States
    <2> HIDE DEF u, s
    <2>3. s.state = k.state /\ s.current = k.current
        BY <1>2, <2>1, <2>2 DEF KeState
    <2>4. Chosen(k, s)
        BY <2>3, NobodyWoken
    <2>5. QED
        BY <2>4 DEF s
<1>5. QED
    BY <1>3, <1>4

LEMMA BlockChooses ==
    ASSUME NEW k, Running(k)
    PROVE  Chosen(k, KeBlockProcess(k))
<1> DEFINE c == k.current
           B == <<c>> \o k.blocked
           m == [k EXCEPT !.state[c] = "blocked", !.method[c] = FALSE, !.blocked = B]
<1>1. k \in KeState /\ c \in Process /\ k.blocked \in Seq(Process) /\ InTheirQueues(k)
    BY RunningInTheirQueues DEF KeState
<1>2. B \in Seq(Process)
    BY <1>1
<1>3. KeBlockProcess(k) = KepReschedule(m)
    BY DEF KeBlockProcess
<1> HIDE DEF B
<1>4. m \in KeState /\ m.ready = k.ready /\ m.priority = k.priority
    BY <1>1, <1>2 DEF KeState, States
<1> HIDE DEF m
<1>5. InTheirQueues(m)
    BY <1>1, <1>4 DEF InTheirQueues
<1>6. QED
    BY <1>3, <1>4, <1>5, RescheduleChooses

LEMMA SuspendChooses ==
    ASSUME NEW k, Running(k), NEW ms \in Ulong, NEW resume \in BOOLEAN
    PROVE  Chosen(k, KeSuspendProcess(k, ms, resume))
<1> DEFINE c == k.current
           w == (k.ticks + ms) % ULONG_RANGE
           T == InsertAt(k.timer, TimerSlot(k, w), c)
           m == [k EXCEPT !.wake[c] = w, !.state[c] = "blocked", !.method[c] = resume, !.timer = T]
<1>1. k \in KeState /\ c \in Process /\ k.timer \in Seq(Process) /\ InTheirQueues(k)
    BY RunningInTheirQueues DEF KeState
<1>2. w \in Ulong
    <2>1. k.ticks + ms \in Nat /\ ULONG_RANGE \in Nat \ {0}
        BY <1>1, SchedulerAssumption DEF KeState, Ulong
    <2>2. QED
        BY <2>1 DEF Ulong
<1>3. KeSuspendProcess(k, ms, resume) = KepReschedule(m)
    BY DEF KeSuspendProcess
<1> HIDE DEF w
<1>4. T \in Seq(Process)
    <2>1. TimerSlot(k, w) \in 1 .. Len(k.timer) + 1
        BY <1>1, <1>2, TimerSlotFacts
    <2>2. QED
        BY <1>1, <2>1, InsertAtElements
<1> HIDE DEF T
<1>5. m \in KeState /\ m.ready = k.ready /\ m.priority = k.priority
    <2>1. /\ [k.state EXCEPT ![c] = "blocked"] \in [Process -> States]
          /\ [k.method EXCEPT ![c] = resume] \in [Process -> BOOLEAN]
          /\ [k.wake EXCEPT ![c] = w] \in [Process -> Ulong]
        BY <1>1, <1>2 DEF KeState, States
    <2>2. QED
        BY <1>1, <1>4, <2>1 DEF KeState
<1> HIDE DEF m
<1>6. InTheirQueues(m)
    BY <1>1, <1>5 DEF InTheirQueues
<1>7. QED
    BY <1>3, <1>5, <1>6, RescheduleChooses

LEMMA ChangePriorityChooses ==
    ASSUME NEW k, Running(k), NEW p \in Process, NEW prio \in Priorities
    PROVE  Chosen(k, KeChangeProcessPriority(k, p, prio))
<1> DEFINE d == KepDequeueProcess(k, p)
           m == [d EXCEPT !.priority[p] = prio]
           e == KepEnqueueProcess(m, p)
           r == KeChangeProcessPriority(k, p, prio)
<1>1. k \in KeState
    BY RunningInTheirQueues
<1>2. CASE k.state[p] = "ready"
    <2>1. d \in KeState /\ d.state = k.state /\ d.current = k.current
        BY <1>1, DequeueSameWaiters DEF KepDequeueProcess, KeBugCheck, KeState
    <2>2. r = IF d.bugcheck THEN d ELSE e
        BY <1>2 DEF KeChangeProcessPriority
    <2> HIDE DEF d, r
    <2>3. m.state = d.state /\ m.current = d.current
        BY <2>1 DEF KeState
    <2>4. e.current = m.current /\ e.state = [m.state EXCEPT ![p] = "ready"]
        <3>1. m.priority[p] = prio /\ m = [d EXCEPT !.priority = [d.priority EXCEPT ![p] = prio]]
            BY <2>1 DEF KeState
        <3> HIDE DEF m
        <3>2. e = [m EXCEPT !.ready[prio] = Append(@, p), !.state[p] = "ready"]
            BY <3>1 DEF KepEnqueueProcess
        <3> HIDE DEF e
        <3>3. QED
            BY <2>1, <3>1, <3>2 DEF KeState
    <2> HIDE DEF m, e
    <2>5. r.current = k.current /\ \A x \in k.scheduled : k.state[x] = "blocked" => r.state[x] = "blocked"
        BY <1>1, <1>2, <2>1, <2>2, <2>3, <2>4 DEF KeState
    <2>6. Chosen(k, r)
        BY <2>5, NobodyWoken
    <2>7. QED
        BY <2>6 DEF r
<1>3. CASE k.state[p] # "ready"
    <2>1. r.current = k.current /\ r.state = k.state
        BY <1>1, <1>3 DEF KeChangeProcessPriority, KeBugCheck, KeState
    <2> HIDE DEF r
    <2>2. Chosen(k, r)
        BY <2>1, NobodyWoken
    <2>3. QED
        BY <2>2 DEF r
<1>4. QED
    BY <1>2, <1>3

LEMMA ResumeCallChooses ==
    ASSUME NEW k, Running(k), NEW p \in Process, p \in k.scheduled, k.state[p] = "blocked"
    PROVE  Chosen(k, KeResumeProcess(k, p))
<1>1. k \in KeState /\ Chosen(k, k)
    BY RunningInTheirQueues, NobodyWoken
<1>2. QED
    BY <1>1, ResumeKeepsChoice

\* A tick, which may dispatch several processes one after the other, ends with
\* the right one.
LEMMA TickChooses ==
    ASSUME NEW k, Running(k), k.quantum # 0
    PROVE  Chosen(k, KeHandleTimer(k))
<1> DEFINE t == [k EXCEPT !.ticks = (@ + TICK) % ULONG_RANGE, !.quantum = @ - 1]
           w == KepWakeUpSleepers(t)
           d == KepReschedule(w)
           r == KeHandleTimer(k)
           S == {x \in LoopStates(t) : Chosen(t, x)}
<1>1. Running(t)
    BY TickRunning
<1>2. t.current = k.current /\ t.state = k.state /\ t.scheduled = k.scheduled
    BY RunningInTheirQueues DEF KeState
<1>3. r = IF w.bugcheck \/ w.quantum # 0 THEN w ELSE d
    BY DEF KeHandleTimer
<1> HIDE DEF t
<1>4. t \in KeState /\ t \in S
    BY <1>1, RunningInTheirQueues, NobodyWoken DEF LoopStates
<1>5. ASSUME NEW x \in S PROVE WakeSleeper(x) \in S
    <2>1. WakeSleeper(x) \in LoopStates(t)
        BY WakeSleeperStays
    <2>2. Running(x) /\ x \in KeState /\ ~x.bugcheck /\ x.scheduled = t.scheduled /\ Chosen(t, x)
        BY RunningInTheirQueues DEF LoopStates
    <2>3. CASE ~SleeperIsDue(x)
        <3>1. WakeSleeper(x) = x
            BY <2>3 DEF WakeSleeper
        <3>2. QED
            BY <3>1
    <2>4. CASE SleeperIsDue(x)
        <3> DEFINE p == Head(x.timer)
        <3>1. x.timer \in Seq(Process) /\ x.timer # <<>>
            BY <2>2, <2>4 DEF KeState, SleeperIsDue
        <3>2. p \in Process /\ Contains(x.timer, p)
            BY <3>1, TailFacts
        <3>3. WakeSleeper(x) = KeResumeProcess(x, p)
            BY <2>2, <2>4 DEF WakeSleeper
        <3> HIDE DEF p
        <3>4. p \in x.scheduled /\ x.state[p] = "blocked"
            BY <2>2, <3>2 DEF Running, Consistent, ListsHoldAllBut, OnlyTheirsOnLists
        <3>5. Chosen(t, KeResumeProcess(x, p))
            BY <1>4, <2>2, <3>2, <3>4, ResumeKeepsChoice
        <3>6. QED
            BY <2>1, <3>3, <3>5
    <2>5. QED
        BY <2>3, <2>4
<1>6. w \in S
    <2> HIDE DEF S
    <2>1. QED
        BY <1>4, <1>5, WakeUpStays
<1>7. Running(w) /\ Chosen(t, w)
    BY <1>6 DEF LoopStates
<1> HIDE DEF w
<1>8. w \in KeState /\ InTheirQueues(w)
    BY <1>7, RunningInTheirQueues
<1>9. Chosen(t, d)
    BY <1>8, RescheduleChooses
<1>10. Chosen(t, r)
    BY <1>3, <1>7, <1>9
<1> HIDE DEF d, r
<1>11. Chosen(k, r)
    BY <1>2, <1>10 DEF Chosen, WokenAreNoMoreUrgent
<1>12. QED
    BY <1>11 DEF r
-----------------------------------------------------------------------------
\* One step of the scheduler.
LEMMA StepChooses ==
    ASSUME IInv, IInv', [Next]_ke
    PROVE  /\ ke'.current # ke.current /\ ~ke'.bugcheck => UrgentRuns(ke')
           /\ ~ke'.bugcheck => WokenAreNoMoreUrgent(ke, ke')
<1>1. ASSUME ~ke.bugcheck PROVE Running(ke) /\ ke.quantum # 0
    BY <1>1 DEF IInv, Inv
<1>2. ASSUME NEW p \in Process, NEW prio \in Priorities, StartProcess(p, prio)
      PROVE  Chosen(ke, ke')
    BY <1>1, <1>2, StartChooses DEF StartProcess
<1>3. ASSUME NEW p \in Process, StopProcess(p) PROVE Chosen(ke, ke')
    BY <1>1, <1>3, StopChooses DEF StopProcess
<1>4. ASSUME BlockProcess PROVE Chosen(ke, ke')
    BY <1>1, <1>4, BlockChooses DEF BlockProcess
<1>5. ASSUME NEW p \in Process, ResumeProcess(p) PROVE Chosen(ke, ke')
    BY <1>1, <1>5, ResumeCallChooses DEF ResumeProcess
<1>6. ASSUME NEW p \in Process, NEW prio \in NewPriorities, ChangeProcessPriority(p, prio)
      PROVE  Chosen(ke, ke')
    BY <1>1, <1>6, ChangePriorityChooses, SchedulerAssumption DEF ChangeProcessPriority
<1>7. ASSUME NEW ms \in Sleeps, NEW resume \in BOOLEAN, SuspendProcess(ms, resume)
      PROVE  Chosen(ke, ke')
    <2>1. ms \in Ulong
        BY SchedulerAssumption
    <2>2. QED
        BY <1>1, <1>7, <2>1, SuspendChooses DEF SuspendProcess
<1>8. ASSUME HandleTimer PROVE Chosen(ke, ke')
    BY <1>1, <1>8, TickChooses DEF HandleTimer
<1>9. ASSUME UNCHANGED ke PROVE Chosen(ke, ke')
    BY <1>9, NobodyWoken
<1>10. Chosen(ke, ke')
    BY <1>2, <1>3, <1>4, <1>5, <1>6, <1>7, <1>8, <1>9 DEF Next, Spin
<1>11. ~ke'.bugcheck => Running(ke')
    BY DEF IInv, Inv
<1>12. QED
    BY <1>10, <1>11, UrgentOfAll DEF Chosen

\* Whatever call or tick changes the current process, and however many
\* reschedules it makes on the way, the process that runs afterwards has the
\* highest priority of all that could run.
THEOREM AlwaysDispatchesHighest == Spec => DispatchesHighest
<1>1. IInv /\ IInv' /\ [Next]_ke =>
        [ke'.current # ke.current /\ ~ke'.bugcheck =>
            \A q \in Priorities :
                ke'.ready[q] # <<>> => q <= ke'.priority[ke'.current]]_ke
    BY StepChooses DEF UrgentRuns
<1>2. QED
    BY <1>1, InvAlways, PTL DEF Spec, DispatchesHighest

\* A process that a step takes off the blocked lists is no more urgent than the
\* one that runs after the step, also when a tick wakes several.
THEOREM WakeupAlwaysPreempts == Spec => WakeupPreempts
<1>1. IInv /\ IInv' /\ [Next]_ke =>
        [~ke'.bugcheck =>
            \A p \in ke.scheduled \cap ke'.scheduled :
                ke.state[p] = "blocked" /\ ke'.state[p] # "blocked" =>
                    ke'.priority[p] <= ke'.priority[ke'.current]]_ke
    BY StepChooses DEF WokenAreNoMoreUrgent
<1>2. QED
    BY <1>1, InvAlways, PTL DEF Spec, WakeupPreempts
=============================================================================
