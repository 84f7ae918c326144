---------------------------- MODULE MessagesProofs ----------------------------
(***************************************************************************)
(* Proofs about Messages, for every set of processes, messages and types,  *)
(* every time-out, and any number of nodes: the queue of receivers is a    *)
(* chain whatever its loops do to it while they run, and the calls keep    *)
(* what Mailboxes promises.                                                *)
(***************************************************************************)
EXTENDS Messages, SchedulerProofs

\* The machine runs, and blocked processes are all on the timer list: no call
\* of mess.c blocks without a time-out.
Calm(k) == Alive(k) /\ k.blocked = <<>>

\* Between two calls the current process has a tick left as well.
Quiet(k) == Healthy(k) /\ k.blocked = <<>>

\* p is suspended in a receive call.
InReceive(k, p) == p \in k.scheduled /\ Contains(k.timer, p) /\ k.method[p]

LEMMA CalmFacts ==
    ASSUME NEW k, Calm(k)
    PROVE  /\ k \in KeState /\ ~k.bugcheck
           /\ k.current \in k.scheduled /\ k.scheduled \subseteq Process
           /\ ~Contains(k.timer, k.current)
           /\ \A p : Contains(k.timer, p) =>
                 p \in Process /\ p \in k.scheduled /\ k.state[p] = "blocked"
           /\ \A p \in k.scheduled : k.state[p] = "blocked" => Contains(k.timer, p)
<1>1. /\ k \in KeState /\ ~k.bugcheck
      /\ k.current \in k.scheduled /\ k.scheduled \subseteq Process
      /\ \A p : Contains(k.timer, p) =>
            p \in Process /\ p \in k.scheduled /\ k.state[p] = "blocked"
    BY AliveFacts DEF Calm
<1>2. OnNoList(k, k.current) /\ \A p \in k.scheduled \ {k.current} : OnItsList(k, p)
    BY DEF Calm, Alive, Running, Consistent, ListsHoldAllBut
<1>3. k.state[k.current] # "blocked"
    BY DEF Calm, Alive, Running
<1>4. \A p : ~Contains(k.blocked, p)
    BY DEF Calm, Contains
<1> QED BY <1>1, <1>2, <1>3, <1>4 DEF OnNoList, OnItsList

LEMMA QuietFacts ==
    ASSUME NEW k, Quiet(k)
    PROVE  /\ Calm(k) /\ k \in KeState /\ ~k.bugcheck
           /\ k.current \in k.scheduled /\ k.scheduled \subseteq Process
           /\ Idle \in k.scheduled
           /\ ~Contains(k.timer, k.current)
           /\ \A p : Contains(k.timer, p) =>
                 p \in Process /\ p \in k.scheduled /\ k.state[p] = "blocked"
           /\ \A p \in k.scheduled : k.state[p] = "blocked" => Contains(k.timer, p)
<1>1. Calm(k) /\ Idle \in k.scheduled
    BY DEF Quiet, Calm, Healthy, Alive
<1> QED BY <1>1, CalmFacts

\* A list that holds nobody is empty.
LEMMA EmptyList ==
    ASSUME NEW P, NEW L \in Seq(P), \A x : ~Contains(L, x)
    PROVE  L = <<>>
<1> SUFFICES ASSUME L # <<>> PROVE FALSE
    OBVIOUS
<1>1. 1 \in DOMAIN L
    OBVIOUS
<1> QED BY <1>1 DEF Contains

LEMMA StillQuiet ==
    ASSUME NEW k, Quiet(k), NEW r, Healthy(r),
           \A x : Contains(r.blocked, x) => Contains(k.blocked, x)
    PROVE  Quiet(r)
<1>1. r.blocked \in Seq(Process)
    BY AliveFacts DEF Healthy
<1>2. \A x : ~Contains(k.blocked, x)
    BY DEF Quiet, Contains
<1>3. r.blocked = <<>>
    BY <1>1, <1>2, EmptyList
<1> QED BY <1>3 DEF Quiet

\* No change of the current process sets or clears a ResumeMethod.
LEMMA EnqueueSameMethod ==
    ASSUME NEW k \in KeState, NEW p
    PROVE  KepEnqueueProcess(k, p).method = k.method
BY DEF KepEnqueueProcess, KeBugCheck, KeState

LEMMA RescheduleSameMethod ==
    ASSUME NEW k \in KeState
    PROVE  KepReschedule(k).method = k.method
<1> DEFINE C   == Candidates(k)
           top == Highest(C)
           q   == IF k.state[k.current] = "blocked"
                  THEN k ELSE KepEnqueueProcess(k, k.current)
           d   == Dispatch(k)
<1>1. k.current \in Process
    BY DEF KeState
<1>2. /\ q \in KeState /\ q.method = k.method
      /\ \A p \in Priorities : k.ready[p] # <<>> => q.ready[p] # <<>>
    BY <1>1, EnqueueSameWaiters, EnqueueSameMethod
<1>3. C # {} => top \in Priorities /\ k.ready[top] # <<>>
    BY HighestCandidate DEF Candidates
<1>4. d = IF C = {} THEN k ELSE IF q.bugcheck THEN q ELSE DispatchFrom(q, top)
    BY DEF Dispatch
<1> HIDE DEF C, top, q, d
<1>5. C # {} /\ ~q.bugcheck => DispatchFrom(q, top) \in KeState
    BY <1>2, <1>3, DispatchSameWaiters
<1>6. DispatchFrom(q, top).method = q.method
    BY <1>2 DEF DispatchFrom, KeState
<1>7. d \in KeState /\ d.method = k.method
    BY <1>2, <1>4, <1>5, <1>6
<1>8. KeBugCheck(d).method = d.method /\ SetRunning(d).method = d.method
    BY <1>7 DEF KeBugCheck, SetRunning, KeState
<1> QED BY <1>7, <1>8 DEF KepReschedule, d

LEMMA DequeueSameMethod ==
    ASSUME NEW k \in KeState, NEW p
    PROVE  KepDequeueProcess(k, p).method = k.method
BY DEF KepDequeueProcess, KeBugCheck, KeState

\* r is k, but who sleeps: those of k and no other.
SleepersBut(k, r, p) ==
    /\ \A x : Contains(r.timer, x) <=> Contains(k.timer, x) /\ x # p
    /\ \A x \in Process : x # p => r.method[x] = k.method[x] /\ r.wake[x] = k.wake[x]

LEMMA OffTimer ==
    ASSUME NEW k, Calm(k), NEW p \in k.scheduled, k.state[p] = "blocked"
    PROVE  LET u == RemoveFromBlockedLists(k, p)
           IN  u \in KeState /\ ~u.bugcheck /\ SleepersBut(k, u, p) /\ u.ticks = k.ticks
<1> DEFINE u == RemoveFromBlockedLists(k, p)
           T == RemoveAt(k.timer, Position(k.timer, p))
<1>1. /\ k \in KeState /\ ~k.bugcheck /\ p \in Process /\ Contains(k.timer, p)
      /\ Alive(k)
    BY CalmFacts DEF Calm
<1>2. k.timer \in Seq(Process) /\ IsInjective(k.timer)
    BY <1>1 DEF Alive, Running, Consistent, ListsHoldAllBut, NoneTwiceOnLists, KeState
<1>3. \A x : Contains(T, x) <=> Contains(k.timer, x) /\ x # p
    BY <1>1, <1>2, UnlinkFacts
<1>4. u \in KeState /\ ~u.bugcheck
    BY <1>1, OffLists
<1>5. u = [k EXCEPT !.wake[p] = 0, !.method[p] = FALSE, !.timer = T]
    BY <1>1 DEF RemoveFromBlockedLists, KeState
<1> HIDE DEF T
<1>6. /\ u.timer = T /\ u.wake = [k.wake EXCEPT ![p] = 0]
      /\ u.method = [k.method EXCEPT ![p] = FALSE] /\ u.ticks = k.ticks
    BY <1>1, <1>5 DEF KeState
<1>7. \A x \in Process : x # p => u.method[x] = k.method[x] /\ u.wake[x] = k.wake[x]
    BY <1>1, <1>6 DEF KeState
<1> QED BY <1>3, <1>4, <1>6, <1>7 DEF SleepersBut, u

LEMMA ResumeCalm ==
    ASSUME NEW k, Calm(k), NEW p \in k.scheduled, k.state[p] = "blocked"
    PROVE  LET r == KeResumeProcess(k, p)
           IN  /\ Calm(r) /\ r.scheduled = k.scheduled
               /\ SleepersBut(k, r, p) /\ r.ticks = k.ticks
<1> DEFINE u == RemoveFromBlockedLists(k, p)
           e == KepEnqueueProcess(u, p)
           d == KepReschedule(e)
           r == KeResumeProcess(k, p)
<1>1. u \in KeState /\ ~u.bugcheck /\ SleepersBut(k, u, p) /\ u.ticks = k.ticks
    BY OffTimer
<1>2. p \in Process
    BY CalmFacts
<1>3. /\ Alive(r) /\ r.scheduled = k.scheduled
      /\ \A x : Contains(r.blocked, x) <=> Contains(k.blocked, x) /\ x # p
    BY <1>2, ResumeAlive DEF Calm
<1>4. r \in {e, d}
    BY <1>1 DEF KeResumeProcess
<1> HIDE DEF u
<1>5. e \in KeState /\ SameWaiters(u, e) /\ e.method = u.method
    BY <1>1, <1>2, EnqueueSameWaiters, EnqueueSameMethod
<1> HIDE DEF e
<1>6. SameWaiters(e, d) /\ d.method = e.method
    BY <1>5, RescheduleSameWaiters, RescheduleSameMethod
<1> HIDE DEF d, r
<1>7. /\ r.timer = u.timer /\ r.method = u.method /\ r.wake = u.wake
      /\ r.ticks = u.ticks
    BY <1>4, <1>5, <1>6 DEF SameWaiters
<1>8. Calm(r)
    <2>1. r.blocked \in Seq(Process) /\ \A x : ~Contains(k.blocked, x)
        BY <1>3, AliveFacts DEF Calm, Contains
    <2> QED BY <1>3, <2>1, EmptyList DEF Calm
<1> QED BY <1>1, <1>3, <1>7, <1>8 DEF SleepersBut, r

LEMMA ResumeQuiet ==
    ASSUME NEW k, Quiet(k), NEW p \in k.scheduled, k.state[p] = "blocked"
    PROVE  LET r == KeResumeProcess(k, p)
           IN  /\ Quiet(r) /\ r.scheduled = k.scheduled
               /\ SleepersBut(k, r, p) /\ r.ticks = k.ticks
<1> DEFINE r == KeResumeProcess(k, p)
<1>1. /\ Calm(r) /\ r.scheduled = k.scheduled
      /\ SleepersBut(k, r, p) /\ r.ticks = k.ticks
    BY QuietFacts, ResumeCalm
<1>2. Healthy(r)
    BY QuietFacts, ResumeHealthy DEF Quiet
<1> HIDE DEF r
<1> QED BY <1>1, <1>2 DEF Quiet, Calm, r

LEMMA StartQuiet ==
    ASSUME NEW k, Quiet(k), NEW p \in Process, NEW prio \in Priorities,
           p \notin k.scheduled
    PROVE  LET r == KeStartSchedulingProcess(NewProcess(k, p, prio), p)
           IN  /\ Quiet(r) /\ r.scheduled = k.scheduled \cup {p}
               /\ r.timer = k.timer /\ r.method = k.method
<1> DEFINE n == [NewProcess(k, p, prio) EXCEPT !.scheduled = @ \cup {p}]
           r == KeStartSchedulingProcess(NewProcess(k, p, prio), p)
<1>1. k \in KeState
    BY QuietFacts
<1>2. Healthy(r) /\ r.scheduled = k.scheduled \cup {p} /\ r.blocked = k.blocked
    BY StartHealthy DEF Quiet
<1>3. n \in KeState /\ n.timer = k.timer /\ n.method = k.method
    <2>1. /\ [k.state EXCEPT ![p] = "ready"] \in [Process -> States]
          /\ [k.priority EXCEPT ![p] = prio] \in [Process -> Nat]
          /\ k.scheduled \cup {p} \in SUBSET Process
        BY <1>1 DEF KeState, States, Priorities
    <2>2. n = [k EXCEPT !.state = [k.state EXCEPT ![p] = "ready"],
                        !.priority = [k.priority EXCEPT ![p] = prio],
                        !.scheduled = k.scheduled \cup {p}]
        BY <1>1 DEF NewProcess, KeState
    <2> HIDE DEF n
    <2> QED BY <1>1, <2>1, <2>2 DEF KeState
<1>4. r = KepEnqueueProcess(n, p)
    BY DEF KeStartSchedulingProcess
<1> HIDE DEF n, r
<1>5. r.timer = n.timer /\ r.method = n.method
    BY <1>3, <1>4, EnqueueSameWaiters, EnqueueSameMethod DEF SameWaiters
<1> QED BY <1>2, <1>3, <1>5 DEF Quiet, r

\* The current process c, suspended.
LEMMA SuspendQuiet ==
    ASSUME NEW k, Quiet(k), k.current # Idle, NEW ms \in Ulong, NEW resume \in BOOLEAN
    PROVE  LET r == KeSuspendProcess(k, ms, resume)
           IN  /\ Quiet(r) /\ r.scheduled = k.scheduled
               /\ \A x : Contains(r.timer, x) <=> Contains(k.timer, x) \/ x = k.current
               /\ r.method = [k.method EXCEPT ![k.current] = resume]
<1> DEFINE c == k.current
           w == (k.ticks + ms) % ULONG_RANGE
           T == InsertAt(k.timer, TimerSlot(k, w), c)
           m == [k EXCEPT !.wake[c] = w, !.state[c] = "blocked", !.method[c] = resume, !.timer = T]
           r == KeSuspendProcess(k, ms, resume)
<1>1. /\ k \in KeState /\ c \in Process /\ k.timer \in Seq(Process) /\ k.ticks \in Ulong
      /\ ~Contains(k.timer, c) /\ Alive(k)
    BY QuietFacts DEF KeState, Calm
<1>2. w \in Ulong
    BY <1>1, SchedulerAssumption DEF Ulong
<1>3. r = KepReschedule(m)
    BY DEF KeSuspendProcess
<1>4. IsInjective(k.timer)
    BY <1>1 DEF Alive, Running, Consistent, ListsHoldAllBut, NoneTwiceOnLists
<1> HIDE DEF w
<1>5. TimerSlot(k, w) \in 1 .. Len(k.timer) + 1
    BY <1>1, <1>2, TimerSlotFacts
<1>6. T \in Seq(Process) /\ \A x : Contains(T, x) <=> Contains(k.timer, x) \/ x = c
    BY <1>1, <1>4, <1>5, InsertAtFacts
<1> HIDE DEF T
<1>7. m \in KeState /\ m.timer = T /\ m.method = [k.method EXCEPT ![c] = resume]
    BY <1>1, <1>2, <1>6 DEF KeState, States
<1>8. Healthy(r) /\ r.scheduled = k.scheduled /\ r.blocked = k.blocked
    BY SuspendHealthy DEF Quiet
<1> HIDE DEF m, r
<1>9. SameWaiters(m, r) /\ r.method = m.method
    BY <1>3, <1>7, RescheduleSameWaiters, RescheduleSameMethod
<1> QED BY <1>6, <1>7, <1>8, <1>9 DEF SameWaiters, Quiet, r

\* A process that is stopped.
LEMMA StopQuiet ==
    ASSUME NEW k, Quiet(k), k.current # Idle, NEW p \in k.scheduled, p # Idle
    PROVE  LET r == KeStopSchedulingProcess(k, p)
           IN  /\ Quiet(r) /\ r.scheduled = k.scheduled \ {p}
               /\ SleepersBut(k, r, p)
<1> DEFINE b == [k EXCEPT !.state[p] = "blocked"]
           d == KepDequeueProcess(k, p)
           u == Unlisted(k, p)
           r == KeStopSchedulingProcess(k, p)
<1>1. /\ k \in KeState /\ p \in Process
      /\ \A x : Contains(k.timer, x) => k.state[x] = "blocked"
    BY QuietFacts
<1>2. /\ Healthy(r) /\ ~r.bugcheck /\ r.scheduled = k.scheduled \ {p}
      /\ \A x : Contains(r.blocked, x) <=> Contains(k.blocked, x) /\ x # p
    BY StopHealthy DEF Quiet
<1>3. r = IF u.bugcheck THEN u ELSE [u EXCEPT !.scheduled = @ \ {p}]
    BY DEF KeStopSchedulingProcess
<1>4. ~u.bugcheck
    BY <1>2, <1>3
<1>5. u \in KeState /\ SleepersBut(k, u, p)
    <2>1. CASE k.state[p] = "running"
        <3>1. u = KepReschedule(b)
            BY <2>1 DEF Unlisted
        <3>2. /\ b \in KeState /\ b.timer = k.timer /\ b.method = k.method
              /\ b.wake = k.wake
            BY <1>1 DEF KeState, States
        <3> HIDE DEF b
        <3>3. SameWaiters(b, u) /\ u.method = b.method /\ u \in KeState
            BY <3>1, <3>2, RescheduleSameWaiters, RescheduleSameMethod
        <3> HIDE DEF u
        <3> QED BY <1>1, <2>1, <3>2, <3>3 DEF SleepersBut, SameWaiters
    <2>2. CASE k.state[p] = "ready"
        <3>1. u = d
            BY <2>2 DEF Unlisted
        <3>2. d \in KeState /\ SameWaiters(k, d) /\ d.method = k.method
            BY <1>1, DequeueSameWaiters, DequeueSameMethod
        <3> HIDE DEF u, d
        <3> QED BY <1>1, <2>2, <3>1, <3>2 DEF SleepersBut, SameWaiters
    <2>3. CASE k.state[p] = "blocked"
        <3>1. u = RemoveFromBlockedLists(k, p)
            BY <2>3 DEF Unlisted
        <3> HIDE DEF u
        <3> QED BY <2>3, <3>1, QuietFacts, OffTimer
    <2>4. CASE k.state[p] \notin {"running", "ready", "blocked"}
        <3>1. u = KeBugCheck(k)
            BY <2>4 DEF Unlisted
        <3>2. KeBugCheck(k).bugcheck
            BY <1>1 DEF KeBugCheck, KeState
        <3> QED BY <1>4, <3>1, <3>2
    <2> QED BY <2>1, <2>2, <2>3, <2>4
<1> HIDE DEF u, r
<1>6. r.timer = u.timer /\ r.method = u.method /\ r.wake = u.wake
    BY <1>3, <1>4, <1>5 DEF KeState
<1>7. Quiet(r)
    BY <1>2, StillQuiet
<1> QED BY <1>2, <1>5, <1>6, <1>7 DEF SleepersBut, r

\* The PCB of a dead process is nobody's.
LEMMA ForgetQuiet ==
    ASSUME NEW k, Quiet(k), NEW p \in Process, p \notin k.scheduled,
           NEW left \in States, left # "running"
    PROVE  LET r == [k EXCEPT !.state[p] = left, !.priority[p] = 0]
           IN  /\ Quiet(r) /\ r.scheduled = k.scheduled
               /\ r.timer = k.timer /\ r.method = k.method
<1> DEFINE r == [k EXCEPT !.state[p] = left, !.priority[p] = 0]
<1>1. /\ k \in KeState /\ Alive(k) /\ Running(k) /\ k.blocked = <<>>
      /\ k.quantum # 0 /\ ~k.bugcheck
    BY QuietFacts DEF Quiet, Healthy, Alive
<1>2. /\ r.state = [k.state EXCEPT ![p] = left]
      /\ r.priority = [k.priority EXCEPT ![p] = 0]
      /\ r.scheduled = k.scheduled /\ r.timer = k.timer /\ r.method = k.method
      /\ r.blocked = k.blocked /\ r.ready = k.ready /\ r.current = k.current
      /\ r.quantum = k.quantum /\ r.bugcheck = k.bugcheck
    BY <1>1 DEF KeState
<1>3. r \in KeState
    <2>1. /\ [k.state EXCEPT ![p] = left] \in [Process -> States]
          /\ [k.priority EXCEPT ![p] = 0] \in [Process -> Nat]
        BY <1>1 DEF KeState, States
    <2>2. r = [k EXCEPT !.state = [k.state EXCEPT ![p] = left],
                        !.priority = [k.priority EXCEPT ![p] = 0]]
        BY <1>1 DEF KeState
    <2> HIDE DEF r
    <2> QED BY <1>1, <2>1, <2>2 DEF KeState
<1> HIDE DEF r
<1>4. \A x \in Process : x # p => r.state[x] = k.state[x] /\ r.priority[x] = k.priority[x]
    BY <1>1, <1>2 DEF KeState
<1>5. r.state[p] = left
    BY <1>1, <1>2 DEF KeState
<1>6. k.scheduled \subseteq Process /\ k.current \in k.scheduled
    BY QuietFacts
<1>7. Consistent(k, {k.current})
    BY <1>1 DEF Running
<1>8. OnlyTheirsOnLists(r)
    <2>1. OnlyTheirsOnLists(k)
        BY <1>7 DEF Consistent, ListsHoldAllBut
    <2> QED BY <1>2, <1>4, <2>1 DEF OnlyTheirsOnLists
<1>9. NoneTwiceOnLists(r)
    BY <1>2, <1>7 DEF Consistent, ListsHoldAllBut, NoneTwiceOnLists
<1>10. \A x \in r.scheduled \ {r.current} : OnItsList(r, x)
    <2>1. \A x \in k.scheduled \ {k.current} : OnItsList(k, x)
        BY <1>7 DEF Consistent, ListsHoldAllBut
    <2> QED BY <1>2, <1>4, <1>6, <2>1 DEF OnItsList
<1>11. OnNoList(r, r.current)
    BY <1>2, <1>7 DEF Consistent, ListsHoldAllBut, OnNoList
<1>12. Consistent(r, {r.current})
    BY <1>1, <1>2, <1>3, <1>4, <1>6, <1>7, <1>8, <1>9, <1>10, <1>11
       DEF Consistent, ListsHoldAllBut
<1>13. Running(r)
    BY <1>1, <1>2, <1>4, <1>6, <1>12 DEF Running, IdleAwake
<1>14. Alive(r)
    <2>1. \A x \in Process \ r.scheduled : r.state[x] # "running"
        BY <1>1, <1>2, <1>4, <1>5 DEF Alive, DeadDoNotRun
    <2> QED BY <1>1, <1>2, <1>13, <2>1 DEF Alive, DeadDoNotRun
<1> QED BY <1>1, <1>2, <1>14 DEF Quiet, Healthy, r

\* A tick ends the sleeps of those only whose time is up.
LEMMA TickQuiet ==
    ASSUME NEW k, Quiet(k)
    PROVE  LET r == KeHandleTimer(k)
           IN  /\ Quiet(r) /\ r.scheduled = k.scheduled
               /\ r.ticks # k.ticks
               /\ \A x : Contains(r.timer, x) =>
                     Contains(k.timer, x) /\ r.method[x] = k.method[x]
               /\ \A x : Contains(k.timer, x) /\ ~Contains(r.timer, x) =>
                     k.wake[x] < r.ticks
<1> DEFINE t == [k EXCEPT !.ticks = (@ + TICK) % ULONG_RANGE, !.quantum = @ - 1]
           w == KepWakeUpSleepers(t)
           d == KepReschedule(w)
           r == KeHandleTimer(k)
           Good(x) == /\ Calm(x) /\ x.scheduled = k.scheduled /\ x.ticks = t.ticks
                      /\ \A y : Contains(x.timer, y) =>
                            /\ Contains(k.timer, y)
                            /\ x.method[y] = k.method[y] /\ x.wake[y] = k.wake[y]
                      /\ \A y : Contains(k.timer, y) /\ ~Contains(x.timer, y) =>
                            k.wake[y] < t.ticks
           S == {x \in KeState : Good(x)}
<1>1. k \in KeState /\ k.quantum # 0 /\ k.blocked = <<>> /\ Running(k)
    BY QuietFacts DEF Quiet, Healthy, Alive
<1>2. Healthy(r) /\ r.scheduled = k.scheduled /\ \A x : Contains(r.blocked, x) <=> Contains(k.blocked, x)
    BY TimerHealthy DEF Quiet
<1>3. Running(t)
    BY <1>1, TickRunning
<1>4. /\ t.scheduled = k.scheduled /\ t.blocked = k.blocked /\ t.state = k.state
      /\ t.timer = k.timer /\ t.method = k.method /\ t.wake = k.wake
      /\ t.ticks = (k.ticks + TICK) % ULONG_RANGE
    BY <1>1 DEF KeState
<1>5. t.ticks # k.ticks
    <2>1. k.ticks \in 0 .. ULONG_RANGE - 1 /\ TICK \in Nat /\ ULONG_RANGE \in Nat \ {0}
        BY <1>1, SchedulerAssumption DEF KeState, Ulong
    <2>2. TICK % ULONG_RANGE # 0
        BY MessagesAssumption
    <2>3. \A n \in Nat \ {0} : \A a \in 0 .. n - 1 : \A b \in Nat :
             (a + b) % n = a => b % n = 0
        OBVIOUS
    <2> QED BY <1>4, <2>1, <2>2, <2>3
<1> HIDE DEF t
<1>6. t \in S
    BY <1>1, <1>3, <1>4 DEF Running, Consistent, Quiet, Healthy, Alive, Calm, DeadDoNotRun
<1>7. ASSUME NEW x \in S PROVE WakeSleeper(x) \in S
    <2> DEFINE p == Head(x.timer)
               e == KeResumeProcess(x, p)
    <2>1. x \in KeState /\ Good(x)
        OBVIOUS
    <2>2. CASE ~SleeperIsDue(x)
        BY <2>2 DEF WakeSleeper
    <2>3. CASE SleeperIsDue(x)
        <3>1. x.timer \in Seq(Process) /\ x.timer # <<>> /\ x.wake[p] < x.ticks
            BY <2>1, <2>3 DEF KeState, SleeperIsDue
        <3>2. p \in Process /\ Contains(x.timer, p)
            BY <3>1, TailFacts
        <3>3. WakeSleeper(x) = e
            BY <2>1, <2>3, CalmFacts DEF WakeSleeper
        <3> HIDE DEF p
        <3>4. ~x.bugcheck /\ p \in x.scheduled /\ x.state[p] = "blocked"
            BY <2>1, <3>2, CalmFacts
        <3>5. /\ Calm(e) /\ e.scheduled = x.scheduled
              /\ SleepersBut(x, e, p) /\ e.ticks = x.ticks
            BY <2>1, <3>4, ResumeCalm
        <3> HIDE DEF e
        <3>6. e \in KeState
            BY <3>5, CalmFacts
        <3>7. \A y : Contains(e.timer, y) =>
                 /\ Contains(k.timer, y)
                 /\ e.method[y] = k.method[y] /\ e.wake[y] = k.wake[y]
            <4> SUFFICES ASSUME NEW y, Contains(e.timer, y)
                         PROVE  /\ Contains(k.timer, y)
                                /\ e.method[y] = k.method[y] /\ e.wake[y] = k.wake[y]
                OBVIOUS
            <4>1. y \in Process
                BY <3>5, CalmFacts
            <4> QED BY <2>1, <3>5, <4>1 DEF SleepersBut
        <3>8. \A y : Contains(k.timer, y) /\ ~Contains(e.timer, y) => k.wake[y] < t.ticks
            BY <2>1, <3>1, <3>2, <3>5 DEF SleepersBut
        <3> QED BY <2>1, <3>3, <3>5, <3>6, <3>7, <3>8
    <2> QED BY <2>2, <2>3
<1>8. t \in KeState
    BY <1>6
<1>9. w \in S
    <2> HIDE DEF S
    <2> QED BY <1>6, <1>7, <1>8, WakeUpStays
<1> HIDE DEF w
<1>10. w \in KeState /\ Good(w)
    BY <1>9
<1>11. SameWaiters(w, d) /\ d.method = w.method
    BY <1>10, RescheduleSameWaiters, RescheduleSameMethod
<1>12. r \in {w, d}
    BY <1>1 DEF KeHandleTimer, w, d, t
<1> HIDE DEF r, d
<1>13. r.timer = w.timer /\ r.method = w.method /\ r.ticks = w.ticks
    BY <1>11, <1>12 DEF SameWaiters
<1>14. Quiet(r)
    BY <1>2, StillQuiet
<1> QED BY <1>2, <1>5, <1>10, <1>13, <1>14 DEF r
-----------------------------------------------------------------------------
\* The queue of receivers: C are the nodes found from first by next, in their
\* order, and the one at place l is the last.  No two have the same owner.
Ordered(s, C, l) ==
    /\ C \in Seq(Node) /\ l \in 0 .. Len(C)
    /\ l = 0 <=> Len(C) = 0
    /\ s.first = IF l = 0 THEN NoNode ELSE C[1]
    /\ s.last = IF l = 0 THEN NoNode ELSE C[l]
    /\ \A i \in 1 .. Len(C) : s.next[C[i]] = IF i = Len(C) THEN NoNode ELSE C[i + 1]
    /\ \A i, j \in 1 .. Len(C) : s.owner[C[i]] = s.owner[C[j]] => i = j

UpTo(C, l) == {C[i] : i \in 1 .. l}

NodesOf(C) == UpTo(C, Len(C))

LEMMA OrderedFacts ==
    ASSUME NEW s, NEW C, NEW l, Ordered(s, C, l)
    PROVE  /\ Len(C) \in Nat /\ DOMAIN C = 1 .. Len(C) /\ l \in Nat /\ l <= Len(C)
           /\ \A i \in 1 .. Len(C) : C[i] \in Node /\ C[i] # NoNode
           /\ \A i, j \in 1 .. Len(C) : C[i] = C[j] => i = j
           /\ Len(C) <= NodeCount
           /\ NodesOf(C) \subseteq Node /\ UpTo(C, l) \subseteq NodesOf(C)
<1> DEFINE N == Len(C)
<1>1. /\ N \in Nat /\ DOMAIN C = 1 .. N /\ C \in [1 .. N -> Node]
      /\ l \in Nat /\ l <= N /\ NodeCount \in Nat
    BY MessagesAssumption DEF Ordered
<1>2. \A i \in 1 .. N : C[i] \in Node /\ C[i] # NoNode
    BY <1>1, MessagesAssumption
<1>3. \A i, j \in 1 .. N : C[i] = C[j] => i = j
    BY DEF Ordered
<1>4. N <= NodeCount
    <2> SUFFICES ASSUME NodeCount < N PROVE FALSE
        BY <1>1
    <2>1. \A n \in Nat : IsFiniteSet(1 .. n) /\ Cardinality(1 .. n) = n
        <3> SUFFICES ASSUME NEW n \in Nat PROVE IsFiniteSet(1 .. n) /\ Cardinality(1 .. n) = n
            OBVIOUS
        <3>1. 1 \in Int /\ n \in Int /\ (IF 1 > n THEN 0 ELSE n - 1 + 1) = n
            OBVIOUS
        <3> QED BY <3>1, FS_Interval
    <2>2. /\ IsFiniteSet(1 .. N) /\ Cardinality(1 .. N) = N
          /\ IsFiniteSet(Node) /\ Cardinality(Node) = NodeCount
        BY <1>1, <2>1 DEF Node
    <2> HIDE DEF N
    <2>3. PICK i \in 1 .. N, j \in 1 .. N : i # j /\ C[i] = C[j]
        BY <1>1, <2>2, FS_PigeonHole
    <2> QED BY <1>3, <2>3
<1>5. NodesOf(C) \subseteq Node /\ UpTo(C, l) \subseteq NodesOf(C)
    BY <1>1, <1>2 DEF NodesOf, UpTo
<1> QED BY <1>1, <1>2, <1>3, <1>4, <1>5

\* The nodes found from the one at place j are those from there on.
LEMMA FromChain ==
    ASSUME NEW s, NEW C, NEW l, Ordered(s, C, l), NEW j \in 1 .. Len(C)
    PROVE  From(s, C[j]) = {C[i] : i \in j .. Len(C)}
<1> DEFINE N == Len(C)
           Reached(i) == {C[x] : x \in {y \in j .. N : y <= j + i}}
           Def(f) == [i \in Nat |-> IF i = 0 THEN {C[j]} \ {NoNode}
                                    ELSE LET found == f[i - 1]
                                         IN  found \cup ({s.next[x] : x \in found} \ {NoNode})]
           t == [i \in Nat |-> Reached(i)]
           f == CHOOSE g : g = Def(g)
<1>1. /\ N \in Nat /\ j \in 1 .. N /\ N <= NodeCount /\ NodeCount \in Nat
      /\ \A i \in 1 .. N : C[i] \in Node /\ C[i] # NoNode
      /\ \A i \in 1 .. N : s.next[C[i]] = IF i = N THEN NoNode ELSE C[i + 1]
    <2>1. N \in Nat /\ N <= NodeCount /\ \A i \in 1 .. N : C[i] \in Node /\ C[i] # NoNode
        BY OrderedFacts
    <2>2. \A i \in 1 .. N : s.next[C[i]] = IF i = N THEN NoNode ELSE C[i + 1]
        BY DEF Ordered
    <2> QED BY <2>1, <2>2, MessagesAssumption
<1>2. Reached(0) = {C[j]} \ {NoNode}
    <2>1. {y \in j .. N : y <= j + 0} = {j}
        BY <1>1
    <2> QED BY <1>1, <2>1
<1>3. ASSUME NEW i \in Nat
      PROVE  Reached(i + 1) = Reached(i) \cup ({s.next[x] : x \in Reached(i)} \ {NoNode})
    <2>1. ASSUME NEW n \in Reached(i + 1)
          PROVE  n \in Reached(i) \cup ({s.next[x] : x \in Reached(i)} \ {NoNode})
        <3>1. PICK y \in j .. N : y <= j + (i + 1) /\ n = C[y]
            BY <2>1
        <3>2. CASE y <= j + i
            BY <3>1, <3>2
        <3>3. CASE ~(y <= j + i)
            <4>1. PICK z \in j .. N : y = z + 1 /\ z <= j + i
                <5>1. y - 1 \in j .. N /\ y = (y - 1) + 1 /\ y - 1 <= j + i
                    BY <1>1, <3>1, <3>3
                <5> QED BY <5>1
            <4>2. z # N /\ z \in 1 .. N
                BY <1>1, <3>1, <4>1
            <4>3. n = s.next[C[z]] /\ n # NoNode
                BY <1>1, <3>1, <4>1, <4>2
            <4>4. C[z] \in Reached(i)
                BY <4>1
            <4> QED BY <4>3, <4>4
        <3> QED BY <3>2, <3>3
    <2>2. ASSUME NEW n \in Reached(i) PROVE n \in Reached(i + 1)
        <3>1. PICK y \in j .. N : y <= j + i /\ n = C[y]
            BY <2>2
        <3>2. y <= j + (i + 1)
            BY <1>1, <3>1
        <3> QED BY <3>1, <3>2
    <2>3. ASSUME NEW x \in Reached(i), s.next[x] # NoNode PROVE s.next[x] \in Reached(i + 1)
        <3>1. PICK y \in j .. N : y <= j + i /\ x = C[y]
            BY <2>3
        <3>2. y \in 1 .. N /\ y # N /\ s.next[x] = C[y + 1]
            BY <1>1, <2>3, <3>1
        <3>3. y + 1 \in j .. N /\ y + 1 <= j + (i + 1)
            BY <1>1, <3>1, <3>2
        <3> QED BY <3>2, <3>3
    <2> HIDE DEF Reached
    <2> QED BY <2>1, <2>2, <2>3
<1> HIDE DEF Reached
<1>4. t = Def(t)
    <2>1. ASSUME NEW i \in Nat PROVE t[i] = Def(t)[i]
        <3>1. CASE i = 0
            BY <1>2, <3>1
        <3>2. CASE i # 0
            <4>1. PICK m \in Nat : i = m + 1
                <5>1. i - 1 \in Nat /\ i = (i - 1) + 1
                    BY <3>2
                <5> QED BY <5>1
            <4>2. i - 1 = m
                BY <4>1
            <4> QED BY <1>3, <3>2, <4>1, <4>2
        <3> QED BY <3>1, <3>2
    <2> QED BY <2>1
<1>5. f = Def(f)
    <2> HIDE DEF Def, t
    <2> QED BY <1>4
<1> HIDE DEF f
<1>6. \A i \in Nat : f[i] = Reached(i)
    <2> DEFINE S == {i \in Nat : f[i] = Reached(i)}
    <2>1. f[0] = Def(f)[0]
        BY <1>5, Zenon
    <2>2. 0 \in S
        BY <1>2, <2>1
    <2>3. ASSUME NEW i \in Nat, i \in S PROVE i + 1 \in S
        <3>1. f[i + 1] = Def(f)[i + 1]
            BY <1>5, Zenon
        <3>2. (i + 1) - 1 = i /\ i + 1 # 0 /\ i + 1 \in Nat
            OBVIOUS
        <3>3. Def(f)[i + 1] = f[i] \cup ({s.next[x] : x \in f[i]} \ {NoNode})
            BY <3>2
        <3> QED BY <1>3, <2>3, <3>1, <3>2, <3>3
    <2> HIDE DEF S
    <2>4. Nat \subseteq S
        BY <2>2, <2>3, NatSetInduction
    <2> QED BY <2>4 DEF S
<1>7. From(s, C[j]) = f[NodeCount]
    BY DEF From, f
<1>8. Reached(NodeCount) = {C[i] : i \in j .. N}
    <2>1. {y \in j .. N : y <= j + NodeCount} = j .. N
        BY <1>1
    <2> QED BY <2>1 DEF Reached
<1> QED BY <1>1, <1>6, <1>7, <1>8

LEMMA FromNone ==
    ASSUME NEW s
    PROVE  From(s, NoNode) = {}
<1> DEFINE Def(f) == [i \in Nat |-> IF i = 0 THEN {NoNode} \ {NoNode}
                                    ELSE LET found == f[i - 1]
                                         IN  found \cup ({s.next[x] : x \in found} \ {NoNode})]
           t == [i \in Nat |-> {}]
           f == CHOOSE g : g = Def(g)
<1>1. t = Def(t)
    <2>1. ASSUME NEW i \in Nat PROVE t[i] = Def(t)[i]
        <3>1. CASE i = 0
            BY <3>1
        <3>2. CASE i # 0
            <4>1. i - 1 \in Nat
                BY <3>2
            <4> QED BY <3>2, <4>1
        <3> QED BY <3>1, <3>2
    <2> QED BY <2>1
<1>2. f = Def(f)
    <2> HIDE DEF Def, t
    <2> QED BY <1>1
<1> HIDE DEF f
<1>3. \A i \in Nat : f[i] = {}
    <2> DEFINE S == {i \in Nat : f[i] = {}}
    <2>1. f[0] = Def(f)[0]
        BY <1>2, Zenon
    <2>2. 0 \in S
        BY <2>1
    <2>3. ASSUME NEW i \in Nat, i \in S PROVE i + 1 \in S
        <3>1. f[i + 1] = Def(f)[i + 1]
            BY <1>2, Zenon
        <3>2. (i + 1) - 1 = i /\ i + 1 # 0 /\ i + 1 \in Nat
            OBVIOUS
        <3>3. Def(f)[i + 1] = f[i] \cup ({s.next[x] : x \in f[i]} \ {NoNode})
            BY <3>2
        <3> QED BY <2>3, <3>1, <3>2, <3>3
    <2> HIDE DEF S
    <2>4. Nat \subseteq S
        BY <2>2, <2>3, NatSetInduction
    <2> QED BY <2>4 DEF S
<1>4. From(s, NoNode) = f[NodeCount] /\ NodeCount \in Nat
    BY MessagesAssumption DEF From, f
<1> QED BY <1>3, <1>4

LEMMA LinkedChain ==
    ASSUME NEW s, NEW C, NEW l, Ordered(s, C, l)
    PROVE  Listed(s) = NodesOf(C) /\ Linked(s) = NodesOf(C)
<1>1. /\ Len(C) \in Nat /\ l \in Nat /\ l <= Len(C) /\ (l = 0 <=> Len(C) = 0)
      /\ s.first = IF l = 0 THEN NoNode ELSE C[1]
      /\ s.last = IF l = 0 THEN NoNode ELSE C[l]
    BY OrderedFacts DEF Ordered
<1>2. CASE l = 0
    <2>1. NodesOf(C) = {}
        BY <1>1, <1>2 DEF NodesOf, UpTo
    <2> QED BY <1>1, <1>2, <2>1, FromNone DEF Linked, Listed
<1>3. CASE l # 0
    <2>1. 1 \in 1 .. Len(C) /\ l \in 1 .. Len(C)
        BY <1>1, <1>3
    <2>2. /\ From(s, C[1]) = {C[i] : i \in 1 .. Len(C)}
          /\ From(s, C[l]) = {C[i] : i \in l .. Len(C)}
        BY <2>1, FromChain
    <2>3. {C[i] : i \in l .. Len(C)} \subseteq {C[i] : i \in 1 .. Len(C)}
        BY <1>1, <2>1
    <2> QED BY <1>1, <1>3, <2>2, <2>3 DEF Linked, Listed, NodesOf, UpTo
<1> QED BY <1>2, <1>3
-----------------------------------------------------------------------------
\* Nothing but the pointers.
SameButPointers(s, r) ==
    /\ r \in MessState
    /\ r.owner = s.owner /\ r.waitsFor = s.waitsFor
    /\ r.queue = s.queue /\ r.kind = s.kind /\ r.result = s.result

\* r is s without some nodes: of those up to the last, without those of the
\* processes in P.
Shorter(s, C, l, r, D, d, P) ==
    /\ SameButPointers(s, r)
    /\ Ordered(r, D, d)
    /\ NodesOf(D) \subseteq NodesOf(C)
    /\ \A n : n \in UpTo(D, d) <=> n \in UpTo(C, l) /\ s.owner[n] \notin P

LEMMA ShorterTwice ==
    ASSUME NEW s, NEW C, NEW l, NEW r, NEW D, NEW d, NEW P, Shorter(s, C, l, r, D, d, P),
           NEW x, NEW E, NEW e, NEW Q, Shorter(r, D, d, x, E, e, Q)
    PROVE  Shorter(s, C, l, x, E, e, P \cup Q)
BY DEF Shorter, SameButPointers

\* The nodes up to the last without the one at place j.
LEMMA UpToWithout ==
    ASSUME NEW s, NEW C, NEW l, Ordered(s, C, l), NEW j \in 1 .. Len(C)
    PROVE  \A n : n \in UpTo(C, l) /\ s.owner[n] \notin {s.owner[C[j]]} <=>
                  n \in {C[i] : i \in {x \in 1 .. l : x # j}}
<1>1. /\ l \in Nat /\ l <= Len(C) /\ Len(C) \in Nat
      /\ \A i, x \in 1 .. Len(C) : s.owner[C[i]] = s.owner[C[x]] => i = x
    BY OrderedFacts DEF Ordered
<1>2. \A i \in 1 .. l : i \in 1 .. Len(C)
    BY <1>1
<1> QED BY <1>1, <1>2 DEF UpTo

\* Node j is taken out of the chain.
LEMMA Cut ==
    ASSUME NEW s, NEW C, NEW l, Ordered(s, C, l), NEW j \in 1 .. Len(C), j # 1 \/ l # 1,
           NEW r, SameButPointers(s, r),
           r.first = IF j = 1 THEN C[2] ELSE C[1],
           r.last = IF j = l THEN C[l - 1] ELSE C[l],
           \A i \in 1 .. Len(C) : i # j =>
               r.next[C[i]] = IF i + 1 = j THEN s.next[C[j]] ELSE s.next[C[i]]
    PROVE  Shorter(s, C, l, r, RemoveAt(C, j), IF j <= l THEN l - 1 ELSE l, {s.owner[C[j]]})
<1> DEFINE N == Len(C)
           D == RemoveAt(C, j)
           d == IF j <= l THEN l - 1 ELSE l
           At(i) == IF i < j THEN i ELSE i + 1
<1>1. /\ N \in Nat /\ j \in 1 .. N /\ DOMAIN C = 1 .. N /\ l \in Nat /\ l <= N
      /\ l # 0
      /\ \A i \in 1 .. N : s.next[C[i]] = IF i = N THEN NoNode ELSE C[i + 1]
      /\ \A i, x \in 1 .. N : s.owner[C[i]] = s.owner[C[x]] => i = x
    BY OrderedFacts DEF Ordered
<1>2. C \in Seq(Node) /\ j \in DOMAIN C
    BY <1>1 DEF Ordered
<1>3. /\ D \in Seq(Node) /\ Len(D) = N - 1
      /\ \A i \in 1 .. N - 1 : (i < j => D[i] = C[i]) /\ (i >= j => D[i] = C[i + 1])
    BY <1>2, RemoveAtElements
<1>4. \A i \in 1 .. N : i # j =>
          r.next[C[i]] = IF i + 1 = j THEN s.next[C[j]] ELSE s.next[C[i]]
    OBVIOUS
<1> HIDE DEF N, D
<1>5. \A i \in 1 .. N - 1 : At(i) \in 1 .. N /\ At(i) # j /\ D[i] = C[At(i)]
    BY <1>1, <1>3
<1>6. /\ d \in 0 .. N - 1 /\ (d = 0 <=> N - 1 = 0)
      /\ \A i \in 1 .. d : i \in 1 .. N - 1
    BY <1>1
<1>7. r.first = IF d = 0 THEN NoNode ELSE D[1]
    <2>1. d # 0 /\ 1 \in 1 .. N - 1
        BY <1>1
    <2> QED BY <1>1, <1>3, <2>1
<1>8. r.last = IF d = 0 THEN NoNode ELSE D[d]
    <2>1. d # 0 /\ d \in 1 .. N - 1
        BY <1>1
    <2>2. CASE j = l
        <3>1. d = l - 1 /\ d < j
            BY <1>1, <2>2
        <3> QED BY <1>3, <2>1, <2>2, <3>1
    <2>3. CASE j < l
        <3>1. d = l - 1 /\ d >= j /\ d + 1 = l
            BY <1>1, <2>3
        <3> QED BY <1>1, <1>3, <2>1, <2>3, <3>1
    <2>4. CASE j > l
        <3>1. d = l /\ d < j
            BY <1>1, <2>4
        <3> QED BY <1>1, <1>3, <2>1, <2>4, <3>1
    <2> QED BY <1>1, <2>2, <2>3, <2>4
<1>9. ASSUME NEW i \in 1 .. N - 1
      PROVE  r.next[D[i]] = IF i = N - 1 THEN NoNode ELSE D[i + 1]
    <2>1. /\ At(i) \in 1 .. N /\ At(i) # j /\ D[i] = C[At(i)]
          /\ r.next[C[At(i)]] = IF At(i) + 1 = j THEN s.next[C[j]] ELSE s.next[C[At(i)]]
        BY <1>5, <1>4
    <2>2. CASE i + 1 = j
        <3>1. r.next[D[i]] = IF j = N THEN NoNode ELSE C[j + 1]
            BY <1>1, <2>1, <2>2
        <3>2. i # N - 1 => i + 1 \in 1 .. N - 1 /\ D[i + 1] = C[j + 1]
            BY <1>1, <1>3, <2>2
        <3> QED BY <1>1, <2>2, <3>1, <3>2
    <2>3. CASE i + 1 < j
        <3>1. At(i) = i /\ i + 1 # j /\ i # N /\ i \in 1 .. N
            BY <1>1, <2>3
        <3>2. r.next[D[i]] = C[i + 1]
            BY <1>1, <2>1, <3>1
        <3>3. i + 1 \in 1 .. N - 1 /\ D[i + 1] = C[i + 1]
            BY <1>1, <1>3, <2>3
        <3> QED BY <3>2, <3>3
    <2>4. CASE i >= j
        <3>1. At(i) = i + 1 /\ i + 1 \in 1 .. N /\ (i + 1) + 1 # j
            BY <1>1, <2>4
        <3>2. r.next[D[i]] = IF i + 1 = N THEN NoNode ELSE C[(i + 1) + 1]
            BY <1>1, <2>1, <3>1
        <3>3. i # N - 1 => i + 1 \in 1 .. N - 1 /\ D[i + 1] = C[(i + 1) + 1]
            BY <1>1, <1>3, <2>4
        <3> QED BY <1>1, <3>2, <3>3
    <2> QED BY <1>1, <2>2, <2>3, <2>4
<1>10. ASSUME NEW i \in 1 .. N - 1, NEW x \in 1 .. N - 1, r.owner[D[i]] = r.owner[D[x]]
      PROVE  i = x
    <2>1. At(i) = At(x)
        BY <1>1, <1>5, <1>10 DEF SameButPointers
    <2> QED BY <1>1, <2>1
<1>11. Ordered(r, D, d)
    BY <1>1, <1>3, <1>6, <1>7, <1>8, <1>9, <1>10 DEF Ordered
<1>12. NodesOf(D) \subseteq NodesOf(C)
    BY <1>3, <1>5 DEF NodesOf, UpTo, N
<1>13. ASSUME NEW n
       PROVE  n \in UpTo(D, d) <=> n \in {C[i] : i \in {x \in 1 .. l : x # j}}
    <2>1. ASSUME n \in UpTo(D, d) PROVE n \in {C[i] : i \in {x \in 1 .. l : x # j}}
        <3>1. PICK i \in 1 .. d : n = D[i]
            BY <2>1 DEF UpTo
        <3>2. At(i) # j /\ n = C[At(i)] /\ At(i) \in 1 .. l
            BY <1>1, <1>5, <1>6, <3>1
        <3> QED BY <3>2
    <2>2. ASSUME n \in {C[i] : i \in {x \in 1 .. l : x # j}} PROVE n \in UpTo(D, d)
        <3>1. PICK i \in 1 .. l : i # j /\ n = C[i]
            BY <2>2
        <3>2. CASE i < j
            <4>1. i \in 1 .. d /\ D[i] = C[i]
                BY <1>1, <1>3, <1>6, <3>1, <3>2
            <4> QED BY <3>1, <4>1 DEF UpTo
        <3>3. CASE i > j
            <4>1. PICK x \in 1 .. d : i = x + 1 /\ x >= j
                <5>1. i - 1 \in 1 .. d /\ i = (i - 1) + 1 /\ i - 1 >= j
                    BY <1>1, <3>1, <3>3
                <5> QED BY <5>1
            <4>2. D[x] = C[i]
                BY <1>3, <1>6, <4>1
            <4> QED BY <3>1, <4>2 DEF UpTo
        <3> QED BY <1>1, <3>1, <3>2, <3>3
    <2> QED BY <2>1, <2>2
<1>14. \A n : n \in UpTo(D, d) <=> n \in UpTo(C, l) /\ s.owner[n] \notin {s.owner[C[j]]}
    BY <1>13, UpToWithout
<1> HIDE DEF d
<1>15. Shorter(s, C, l, r, D, d, {s.owner[C[j]]})
    BY <1>11, <1>12, <1>14 DEF Shorter
<1> QED BY <1>15 DEF D, d

\* r is s after a removal.
Removed(s, n, prev, r) == r = RemoveProcessFromQueue(s, n, prev)

\* The nodes from place j on are linked alike.
SameBehind(s, r, C, j) == \A i \in j .. Len(C) : r.next[C[i]] = s.next[C[i]]

\* RemoveProcessFromQueue at the ends of the queue.
LEMMA RemoveEnds ==
    ASSUME NEW s \in MessState, NEW n \in Node, NEW prev \in Node,
           NEW r, Removed(s, n, prev, r), s.first = n \/ s.last = n
    PROVE  /\ SameButPointers(s, r) /\ r.next = s.next
           /\ s.first = n /\ s.last = n => r.first = NoNode /\ r.last = NoNode
           /\ s.first = n /\ s.last # n => r.first = s.next[n] /\ r.last = s.last
           /\ s.first # n /\ s.last = n => r.first = s.first /\ r.last = prev
<1>1. s.next[n] \in Node \cup {NoNode}
    BY DEF MessState
<1>2. CASE s.first = n /\ s.last = n
    <2>1. r = [s EXCEPT !.first = NoNode, !.last = NoNode]
        BY <1>2 DEF RemoveProcessFromQueue, Removed
    <2> QED BY <1>2, <2>1 DEF SameButPointers, MessState
<1>3. CASE s.first = n /\ s.last # n
    <2>1. r = [s EXCEPT !.first = s.next[n]]
        BY <1>3 DEF RemoveProcessFromQueue, Removed
    <2> QED BY <1>1, <1>3, <2>1 DEF SameButPointers, MessState
<1>4. CASE s.first # n /\ s.last = n
    <2>1. r = [s EXCEPT !.last = prev]
        BY <1>4 DEF RemoveProcessFromQueue, Removed
    <2> QED BY <1>4, <2>1 DEF SameButPointers, MessState
<1> QED BY <1>2, <1>3, <1>4

\* RemoveProcessFromQueue between them.
LEMMA RemoveMiddle ==
    ASSUME NEW s \in MessState, NEW n \in Node, NEW prev \in Node,
           NEW r, Removed(s, n, prev, r), s.first # n, s.last # n
    PROVE  /\ SameButPointers(s, r) /\ r.first = s.first /\ r.last = s.last
           /\ r.next = [s.next EXCEPT ![prev] = s.next[n]]
<1> DEFINE V == [s.next EXCEPT ![prev] = s.next[n]]
<1>1. s.next[n] \in Node \cup {NoNode} /\ V \in [Node -> Node \cup {NoNode}]
    BY DEF MessState
<1>2. r = [s EXCEPT !.next = V]
    BY DEF RemoveProcessFromQueue, Removed, MessState
<1> HIDE DEF V
<1> QED BY <1>1, <1>2 DEF SameButPointers, MessState, V

LEMMA SamePointers ==
    ASSUME NEW s \in MessState, NEW r, SameButPointers(s, r),
           r.first = s.first, r.last = s.last, r.next = s.next
    PROVE  r = s
<1>1. r \in MessState
    BY DEF SameButPointers
<1>2. /\ r = [first |-> r.first, last |-> r.last, next |-> r.next, owner |-> r.owner,
              waitsFor |-> r.waitsFor, queue |-> r.queue, kind |-> r.kind, result |-> r.result]
      /\ s = [first |-> s.first, last |-> s.last, next |-> s.next, owner |-> s.owner,
              waitsFor |-> s.waitsFor, queue |-> s.queue, kind |-> s.kind, result |-> s.result]
    BY <1>1 DEF MessState
<1> QED BY <1>2 DEF SameButPointers

\* The node in front of the one at place j, as the loops have it in prev.
Before(C, j) == IF j = 1 THEN C[1] ELSE C[j - 1]

\* Removing the only node there is, up to last: what was behind it is lost.
LEMMA RemoveOnly ==
    ASSUME NEW s \in MessState, NEW C, Ordered(s, C, 1),
           NEW r, Removed(s, C[1], C[1], r),
           NEW x, Removed(r, C[1], C[1], x)
    PROVE  /\ \E D, d : Shorter(s, C, 1, r, D, d, {s.owner[C[1]]})
           /\ \E D, d : Shorter(s, C, 1, x, D, d, {s.owner[C[1]]})
           /\ r.next = s.next /\ x.next = s.next
<1> DEFINE n == C[1]
<1>1. /\ Len(C) \in Nat /\ Len(C) # 0 /\ n \in Node /\ n # NoNode
      /\ s.first = n /\ s.last = n
    <2>1. Len(C) \in Nat /\ Len(C) # 0 /\ s.first = C[1] /\ s.last = C[1]
        BY DEF Ordered
    <2>2. 1 \in 1 .. Len(C)
        BY <2>1
    <2> QED BY <2>1, <2>2, OrderedFacts
<1>2. Removed(s, n, n, r) /\ Removed(r, n, n, x) /\ s \in MessState
    OBVIOUS
<1> HIDE DEF n
<1>3. SameButPointers(s, r) /\ r.first = NoNode /\ r.last = NoNode /\ r.next = s.next
    BY <1>1, <1>2, RemoveEnds
<1>4. /\ SameButPointers(r, x) /\ x.first = NoNode /\ x.last = NoNode
      /\ x.next = [r.next EXCEPT ![n] = r.next[n]]
    BY <1>1, <1>3, <1>2, RemoveMiddle DEF SameButPointers
<1>5. x.next = s.next
    BY <1>1, <1>3, <1>4 DEF MessState
<1>6. ASSUME NEW y, SameButPointers(s, y), y.first = NoNode, y.last = NoNode
      PROVE  \E D, d : Shorter(s, C, 1, y, D, d, {s.owner[n]})
    <2>1. <<>> \in Seq(Node) /\ Len(<<>>) = 0
        OBVIOUS
    <2>2. PICK D : D = <<>>
        OBVIOUS
    <2>3. Ordered(y, D, 0)
        BY <1>6, <2>1, <2>2 DEF Ordered
    <2>4. NodesOf(D) = {} /\ UpTo(D, 0) = {}
        BY <2>1, <2>2 DEF NodesOf, UpTo
    <2>5. UpTo(C, 1) = {n}
        BY DEF UpTo, n
    <2> QED BY <1>6, <2>2, <2>3, <2>4, <2>5 DEF Shorter
<1>7. SameButPointers(s, x)
    BY <1>3, <1>4 DEF SameButPointers
<1> QED BY <1>3, <1>4, <1>5, <1>6, <1>7 DEF n

\* Removing the last node, of several: it stays linked from the one before it,
\* and goes when it is removed a second time.
LEMMA RemoveLast ==
    ASSUME NEW s \in MessState, NEW C, NEW l, Ordered(s, C, l), l > 1,
           NEW r, Removed(s, C[l], C[l - 1], r),
           NEW x, Removed(r, C[l], C[l - 1], x)
    PROVE  /\ \E D, d : Shorter(s, C, l, r, D, d, {s.owner[C[l]]})
           /\ \E D, d : Shorter(s, C, l, x, D, d, {s.owner[C[l]]})
           /\ SameBehind(s, r, C, l) /\ SameBehind(s, x, C, l)
<1> DEFINE n == C[l]
           p == C[l - 1]
<1>1. Removed(s, n, p, r) /\ Removed(r, n, p, x)
    OBVIOUS
<1>2. /\ Len(C) \in Nat /\ l \in 1 .. Len(C) /\ l - 1 \in 1 .. Len(C) /\ 1 \in 1 .. Len(C)
      /\ l \in Nat /\ l # 1 /\ l - 1 # l
    BY OrderedFacts
<1>3. /\ \A i \in 1 .. Len(C) : C[i] \in Node /\ C[i] # NoNode
      /\ \A i, j \in 1 .. Len(C) : C[i] = C[j] => i = j
    BY OrderedFacts
<1>4. s.first = C[1] /\ s.last = n
    BY <1>2 DEF Ordered
<1>5. n \in Node /\ p \in Node /\ C[1] # n /\ p # n
    BY <1>2, <1>3
<1>6. SameButPointers(s, r) /\ r.first = C[1] /\ r.last = p /\ r.next = s.next
    <2>1. s.first # n /\ s.last = n /\ n \in Node /\ p \in Node
        BY <1>4, <1>5
    <2> HIDE DEF n, p
    <2>2. SameButPointers(s, r) /\ r.first = s.first /\ r.last = p /\ r.next = s.next
        BY <1>1, <2>1, RemoveEnds
    <2> QED BY <1>4, <2>2
<1>7. /\ SameButPointers(r, x) /\ x.first = C[1] /\ x.last = p
      /\ x.next = [s.next EXCEPT ![p] = s.next[n]]
    <2>1. r.first # n /\ r.last # n /\ n \in Node /\ p \in Node /\ r \in MessState
        BY <1>5, <1>6 DEF SameButPointers
    <2> HIDE DEF n, p
    <2>2. /\ SameButPointers(r, x) /\ x.first = r.first /\ x.last = r.last
          /\ x.next = [r.next EXCEPT ![p] = r.next[n]]
        BY <1>1, <2>1, RemoveMiddle
    <2> QED BY <1>6, <2>2
<1>8. \A i \in 1 .. Len(C) : x.next[C[i]] = IF i = l - 1 THEN s.next[n] ELSE s.next[C[i]]
    BY <1>2, <1>3, <1>5, <1>7 DEF MessState
<1>9. Shorter(s, C, l, r, C, l - 1, {s.owner[n]})
    <2>1. Ordered(r, C, l - 1)
        BY <1>2, <1>6 DEF Ordered, SameButPointers
    <2>2. ASSUME NEW y PROVE y \in UpTo(C, l - 1) <=> y \in {C[i] : i \in {z \in 1 .. l : z # l}}
        <3>1. \A i : i \in 1 .. l - 1 <=> i \in {z \in 1 .. l : z # l}
            BY <1>2
        <3> QED BY <3>1 DEF UpTo
    <2>3. \A y : y \in UpTo(C, l - 1) <=> y \in UpTo(C, l) /\ s.owner[y] \notin {s.owner[C[l]]}
        BY <1>2, <2>2, UpToWithout
    <2> QED BY <1>6, <2>1, <2>3 DEF Shorter
<1>10. Shorter(s, C, l, x, RemoveAt(C, l), l - 1, {s.owner[n]})
    <2>1. SameButPointers(s, x)
        BY <1>6, <1>7 DEF SameButPointers
    <2>2. \A i \in 1 .. Len(C) : i # l =>
             x.next[C[i]] = IF i + 1 = l THEN s.next[C[l]] ELSE s.next[C[i]]
        BY <1>2, <1>8
    <2>3. Shorter(s, C, l, x, RemoveAt(C, l), IF l <= l THEN l - 1 ELSE l, {s.owner[C[l]]})
        BY <1>2, <1>7, <2>1, <2>2, Cut
    <2>4. (IF l <= l THEN l - 1 ELSE l) = l - 1
        BY <1>2
    <2> QED BY <2>3, <2>4
<1>11. \A i \in l .. Len(C) : i \in 1 .. Len(C) /\ i # l - 1
    BY <1>2
<1>12. /\ \E D, d : Shorter(s, C, l, r, D, d, {s.owner[n]})
       /\ \E D, d : Shorter(s, C, l, x, D, d, {s.owner[n]})
    BY <1>9, <1>10
<1> QED BY <1>6, <1>8, <1>11, <1>12 DEF n, SameBehind

\* Removing the first node of several, or one in the middle, or one behind the
\* last: removing it again changes nothing.
LEMMA RemoveInner ==
    ASSUME NEW s \in MessState, NEW C, NEW l, Ordered(s, C, l), NEW j \in 1 .. Len(C), j # l,
           NEW r, Removed(s, C[j], Before(C, j), r),
           NEW x, Removed(r, C[j], Before(C, j), x)
    PROVE  /\ \E D, d : Shorter(s, C, l, r, D, d, {s.owner[C[j]]})
           /\ x = r
           /\ SameBehind(s, r, C, j)
<1> DEFINE n == C[j]
           p == Before(C, j)
           N == Len(C)
<1>1. Removed(s, n, p, r) /\ Removed(r, n, p, x)
    OBVIOUS
<1>2. /\ N \in Nat /\ l \in 1 .. N /\ 1 \in 1 .. N /\ j \in 1 .. N /\ j # l
      /\ j # 1 => j - 1 \in 1 .. N
      /\ \A i \in 1 .. N : C[i] \in Node /\ C[i] # NoNode
      /\ \A i, k \in 1 .. N : C[i] = C[k] => i = k
    <2>1. /\ N \in Nat /\ l \in Nat /\ l <= N
          /\ \A i \in 1 .. N : C[i] \in Node /\ C[i] # NoNode
          /\ \A i, k \in 1 .. N : C[i] = C[k] => i = k
        BY OrderedFacts
    <2>2. l # 0
        BY <2>1 DEF Ordered
    <2> QED BY <2>1, <2>2
<1>3. s.first = C[1] /\ s.last = C[l]
    BY <1>2 DEF Ordered
<1>4. n \in Node /\ p \in Node /\ s.last # n /\ (s.first = n <=> j = 1) /\ C[l] # n
    BY <1>2, <1>3 DEF Before
<1>5. s.next[n] = IF j = N THEN NoNode ELSE C[j + 1]
    BY DEF Ordered
<1>6. CASE j = 1
    <2>1. SameButPointers(s, r) /\ r.first = s.next[n] /\ r.last = C[l] /\ r.next = s.next
        <3>1. s.first = n /\ s.last # n /\ n \in Node /\ p \in Node
            BY <1>3, <1>4, <1>6
        <3> HIDE DEF n, p
        <3>2. SameButPointers(s, r) /\ r.first = s.next[n] /\ r.last = s.last /\ r.next = s.next
            BY <1>1, <3>1, RemoveEnds
        <3> QED BY <1>3, <3>2
    <2>2. /\ j # N /\ r.first = C[2] /\ 2 \in 1 .. N /\ j + 1 = 2
        BY <1>2, <1>5, <1>6, <2>1
    <2>3. r.first # n /\ r.last # n
        BY <1>2, <1>4, <1>6, <2>1, <2>2
    <2>4. /\ SameButPointers(r, x) /\ x.first = r.first /\ x.last = r.last
          /\ x.next = [r.next EXCEPT ![p] = r.next[n]] /\ r \in MessState
        <3>1. r.first # n /\ r.last # n /\ n \in Node /\ p \in Node /\ r \in MessState
            BY <1>4, <2>1, <2>3 DEF SameButPointers
        <3> HIDE DEF n, p
        <3>2. /\ SameButPointers(r, x) /\ x.first = r.first /\ x.last = r.last
              /\ x.next = [r.next EXCEPT ![p] = r.next[n]]
            BY <1>1, <3>1, RemoveMiddle
        <3> QED BY <3>1, <3>2
    <2>5. p = n
        BY <1>6 DEF Before
    <2>6. x.next = r.next
        BY <1>4, <2>4, <2>5 DEF MessState
    <2>7. x = r
        <3> QED BY <2>4, <2>6, SamePointers
    <2>8. /\ r.first = IF j = 1 THEN C[2] ELSE C[1]
          /\ r.last = IF j = l THEN C[l - 1] ELSE C[l]
          /\ \A i \in 1 .. N : i # j =>
                r.next[C[i]] = IF i + 1 = j THEN s.next[C[j]] ELSE s.next[C[i]]
        BY <1>2, <1>6, <2>1, <2>2
    <2>9. \E D, d : Shorter(s, C, l, r, D, d, {s.owner[C[j]]})
        <3> DEFINE D == RemoveAt(C, j)
                   d == IF j <= l THEN l - 1 ELSE l
        <3>1. Shorter(s, C, l, r, D, d, {s.owner[C[j]]})
            BY <1>2, <1>6, <2>1, <2>8, Cut
        <3> HIDE DEF D, d
        <3> QED BY <3>1
    <2> QED BY <2>1, <2>7, <2>9 DEF SameBehind
<1>7. CASE j # 1
    <2>1. /\ SameButPointers(s, r) /\ r.first = C[1] /\ r.last = C[l]
          /\ r.next = [s.next EXCEPT ![p] = s.next[n]]
        <3> HIDE DEF n, p
        <3> QED BY <1>1, <1>3, <1>4, <1>7, RemoveMiddle
    <2>2. r.first # n /\ r.last # n /\ p = C[j - 1] /\ p # n
        BY <1>2, <1>3, <1>4, <1>7, <2>1 DEF Before
    <2>3. /\ SameButPointers(r, x) /\ x.first = r.first /\ x.last = r.last
          /\ x.next = [r.next EXCEPT ![p] = r.next[n]] /\ r \in MessState
        <3>1. r.first # n /\ r.last # n /\ n \in Node /\ p \in Node /\ r \in MessState
            BY <1>4, <2>1, <2>2 DEF SameButPointers
        <3> HIDE DEF n, p
        <3>2. /\ SameButPointers(r, x) /\ x.first = r.first /\ x.last = r.last
              /\ x.next = [r.next EXCEPT ![p] = r.next[n]]
            BY <1>1, <3>1, RemoveMiddle
        <3> QED BY <3>1, <3>2
    <2>4. r.next[n] = s.next[n] /\ r.next[p] = s.next[n]
        BY <1>4, <2>1, <2>2 DEF MessState
    <2>5. x.next = r.next
        BY <1>4, <2>3, <2>4 DEF MessState
    <2>6. x = r
        <3> QED BY <2>3, <2>5, SamePointers
    <2>7. \A i \in 1 .. N : r.next[C[i]] = IF i + 1 = j THEN s.next[n] ELSE s.next[C[i]]
        <3> SUFFICES ASSUME NEW i \in 1 .. N
                     PROVE  r.next[C[i]] = IF i + 1 = j THEN s.next[n] ELSE s.next[C[i]]
            OBVIOUS
        <3>1. C[i] = p <=> i + 1 = j
            BY <1>2, <1>7, <2>2
        <3>2. C[i] \in Node
            BY <1>2
        <3> QED BY <2>1, <3>1, <3>2 DEF MessState
    <2>8. /\ r.first = IF j = 1 THEN C[2] ELSE C[1]
          /\ r.last = IF j = l THEN C[l - 1] ELSE C[l]
          /\ \A i \in 1 .. N : i # j =>
                r.next[C[i]] = IF i + 1 = j THEN s.next[C[j]] ELSE s.next[C[i]]
        BY <1>2, <1>7, <2>1, <2>7
    <2>9. \E D, d : Shorter(s, C, l, r, D, d, {s.owner[C[j]]})
        <3> DEFINE D == RemoveAt(C, j)
                   d == IF j <= l THEN l - 1 ELSE l
        <3>1. Shorter(s, C, l, r, D, d, {s.owner[C[j]]})
            BY <1>2, <1>7, <2>1, <2>8, Cut
        <3> HIDE DEF D, d
        <3> QED BY <3>1
    <2>10. \A i \in j .. N : i \in 1 .. N /\ i + 1 # j
        BY <1>2
    <2> QED BY <2>6, <2>7, <2>9, <2>10 DEF SameBehind
<1> QED BY <1>6, <1>7

\* Any node of the chain, removed once, and once more.
LEMMA RemoveNode ==
    ASSUME NEW s \in MessState, NEW C, NEW l, Ordered(s, C, l), NEW j \in 1 .. Len(C),
           NEW r, Removed(s, C[j], Before(C, j), r),
           NEW x, Removed(r, C[j], Before(C, j), x)
    PROVE  /\ \E D, d : Shorter(s, C, l, r, D, d, {s.owner[C[j]]})
           /\ \E D, d : Shorter(s, C, l, x, D, d, {s.owner[C[j]]})
           /\ SameBehind(s, r, C, j) /\ SameBehind(s, x, C, j)
<1> DEFINE n == C[j]
           p == Before(C, j)
<1>1. Removed(s, n, p, r) /\ Removed(r, n, p, x)
    OBVIOUS
<1>2. CASE j # l
    <2>1. /\ \E D, d : Shorter(s, C, l, r, D, d, {s.owner[C[j]]})
          /\ x = r
          /\ SameBehind(s, r, C, j)
        BY <1>2, RemoveInner
    <2> QED BY <2>1
<1>3. CASE j = l /\ l = 1
    <2>1. n = C[1] /\ p = C[1] /\ Ordered(s, C, 1) /\ j = 1
        BY <1>3 DEF Before
    <2> HIDE DEF n, p
    <2>2. Removed(s, C[1], C[1], r) /\ Removed(r, C[1], C[1], x)
        BY <1>1, <2>1
    <2>3. /\ \E D, d : Shorter(s, C, 1, r, D, d, {s.owner[C[1]]})
          /\ \E D, d : Shorter(s, C, 1, x, D, d, {s.owner[C[1]]})
          /\ r.next = s.next /\ x.next = s.next
        BY <2>1, <2>2, RemoveOnly
    <2> QED BY <1>3, <2>3 DEF SameBehind
<1>4. CASE j = l /\ l # 1
    <2>1. n = C[l] /\ p = C[l - 1] /\ l > 1
        BY <1>4, OrderedFacts DEF Before
    <2> HIDE DEF n, p
    <2>2. Removed(s, C[l], C[l - 1], r) /\ Removed(r, C[l], C[l - 1], x)
        BY <1>1, <2>1
    <2>3. /\ \E D, d : Shorter(s, C, l, r, D, d, {s.owner[C[l]]})
          /\ \E D, d : Shorter(s, C, l, x, D, d, {s.owner[C[l]]})
          /\ SameBehind(s, r, C, l) /\ SameBehind(s, x, C, l)
        BY <2>1, <2>2, RemoveLast
    <2> QED BY <1>4, <2>3
<1> QED BY <1>2, <1>3, <1>4
-----------------------------------------------------------------------------
\* A loop over the chain C that has ke = k, mess = s until the node at place J
\* and ke = k2, mess = r from then on, before its step i + 1.
KeAt(k, k2, J, i) == IF i < J THEN k ELSE k2

MessAt(s, r, J, i) == IF i < J THEN s ELSE r

IteratorAt(C, i) == IF i < Len(C) THEN C[i + 1] ELSE NoNode

PrevAt(s, C, i) == IF i = 0 \/ Len(C) = 0 THEN s.first
                   ELSE IF i < Len(C) THEN C[i] ELSE C[Len(C)]

At(k, k2, s, r, C, J, i) ==
    [ke |-> KeAt(k, k2, J, i), mess |-> MessAt(s, r, J, i),
     iterator |-> IteratorAt(C, i), prev |-> PrevAt(s, C, i)]

\* The same in step i + 1, before its body.
Ahead(k, k2, s, r, C, J, i) ==
    [ke |-> KeAt(k, k2, J, i), mess |-> MessAt(s, r, J, i),
     iterator |-> C[i + 1], prev |-> Before(C, i + 1)]

\* The same after the body of step i, before next is read.
After(k, k2, s, r, C, J, i) ==
    [ke |-> KeAt(k, k2, J, i), mess |-> MessAt(s, r, J, i),
     iterator |-> C[i], prev |-> Before(C, i)]

\* The end of a step: the pointers move on.
Moved(a, c) == [a EXCEPT !.prev = c, !.iterator = a.mess.next[c]]

LEMMA MovedFields ==
    ASSUME NEW k, NEW s, NEW n, NEW prev, NEW c, NEW a,
           a = [ke |-> k, mess |-> s, iterator |-> n, prev |-> prev]
    PROVE  Moved(a, c) = [ke |-> k, mess |-> s, iterator |-> s.next[c], prev |-> c]
<1> DEFINE S == [ke : {k}, mess : {s}, iterator : {n, s.next[c]}, prev : {prev, c}]
           e == [a EXCEPT !.prev = c, !.iterator = s.next[c]]
<1>1. a \in S /\ a.mess = s
    OBVIOUS
<1>2. e \in S /\ e.ke = k /\ e.mess = s /\ e.iterator = s.next[c] /\ e.prev = c
    BY <1>1
<1>3. Moved(a, c) = e
    BY <1>1 DEF Moved
<1> HIDE DEF e
<1>4. e = [ke |-> e.ke, mess |-> e.mess, iterator |-> e.iterator, prev |-> e.prev]
    BY <1>2
<1> QED BY <1>2, <1>3, <1>4

LEMMA AtStart ==
    ASSUME NEW s, NEW C, NEW l, Ordered(s, C, l), NEW J \in 1 .. Len(C) + 1,
           NEW r, NEW k, NEW k2
    PROVE  At(k, k2, s, r, C, J, 0) =
               [ke |-> k, mess |-> s, iterator |-> s.first, prev |-> s.first]
<1>1. /\ Len(C) \in Nat /\ l \in Nat /\ l <= Len(C) /\ (l = 0 <=> Len(C) = 0) /\ 0 < J
      /\ s.first = IF l = 0 THEN NoNode ELSE C[1]
    BY OrderedFacts DEF Ordered
<1>2. /\ KeAt(k, k2, J, 0) = k /\ MessAt(s, r, J, 0) = s
      /\ IteratorAt(C, 0) = s.first /\ PrevAt(s, C, 0) = s.first
    BY <1>1 DEF KeAt, MessAt, IteratorAt, PrevAt
<1> QED BY <1>2 DEF At

LEMMA AtStep ==
    ASSUME NEW s, NEW C, NEW l, Ordered(s, C, l), NEW J \in 1 .. Len(C) + 1,
           NEW r, NEW k, NEW k2, NEW i \in Nat, i + 1 \in 1 .. Len(C)
    PROVE  At(k, k2, s, r, C, J, i) = Ahead(k, k2, s, r, C, J, i)
<1>1. /\ Len(C) \in Nat /\ l \in Nat /\ l <= Len(C) /\ (l = 0 <=> Len(C) = 0)
      /\ s.first = IF l = 0 THEN NoNode ELSE C[1]
    BY OrderedFacts DEF Ordered
<1>2. CASE i = 0
    <2>1. IteratorAt(C, i) = C[i + 1] /\ PrevAt(s, C, i) = Before(C, i + 1)
        BY <1>1, <1>2 DEF IteratorAt, PrevAt, Before
    <2> QED BY <2>1 DEF At, Ahead
<1>3. CASE i # 0
    <2>1. (i + 1) - 1 = i /\ i + 1 # 1
        BY <1>3
    <2>2. IteratorAt(C, i) = C[i + 1] /\ PrevAt(s, C, i) = Before(C, i + 1)
        BY <1>1, <1>3, <2>1 DEF IteratorAt, PrevAt, Before
    <2> QED BY <2>2 DEF At, Ahead
<1> QED BY <1>2, <1>3

LEMMA AtEnd ==
    ASSUME NEW s, NEW C, NEW l, Ordered(s, C, l), NEW J \in 1 .. Len(C) + 1, NEW r,
           NEW k, NEW k2, J = Len(C) + 1 => k2 = k /\ r = s,
           NEW i \in Nat, i >= Len(C)
    PROVE  /\ At(k, k2, s, r, C, J, i).iterator = NoNode
           /\ At(k, k2, s, r, C, J, i + 1) = At(k, k2, s, r, C, J, i)
<1> DEFINE N == Len(C)
<1>1. N \in Nat /\ J \in Nat /\ J <= N + 1
    BY OrderedFacts
<1>2. ~(i < N) /\ ~(i + 1 < N) /\ i + 1 # 0 /\ (J # N + 1 => ~(i < J) /\ ~(i + 1 < J))
    <2> HIDE DEF N
    <2>1. i >= N
        BY DEF N
    <2> QED BY <1>1, <2>1
<1>3. i = 0 => N = 0
    BY <1>1
<1>4. KeAt(k, k2, J, i + 1) = KeAt(k, k2, J, i) /\ MessAt(s, r, J, i + 1) = MessAt(s, r, J, i)
    BY <1>2 DEF KeAt, MessAt
<1>5. IteratorAt(C, i + 1) = IteratorAt(C, i) /\ PrevAt(s, C, i + 1) = PrevAt(s, C, i)
    BY <1>2, <1>3 DEF IteratorAt, PrevAt
<1>6. IteratorAt(C, i) = NoNode
    BY <1>2 DEF IteratorAt
<1> QED BY <1>4, <1>5, <1>6 DEF At

LEMMA AtMoved ==
    ASSUME NEW s, NEW C, NEW l, Ordered(s, C, l), NEW J \in 1 .. Len(C) + 1, NEW r,
           SameBehind(s, r, C, J), NEW k, NEW k2, NEW i \in 1 .. Len(C)
    PROVE  At(k, k2, s, r, C, J, i) = Moved(After(k, k2, s, r, C, J, i), C[i])
<1> DEFINE N == Len(C)
           M == MessAt(s, r, J, i)
           K == KeAt(k, k2, J, i)
           a == After(k, k2, s, r, C, J, i)
<1>1. /\ N \in Nat /\ J \in Nat
      /\ \A x \in 1 .. N : s.next[C[x]] = IF x = N THEN NoNode ELSE C[x + 1]
    BY OrderedFacts DEF Ordered
<1>2. M.next[C[i]] = s.next[C[i]]
    <2>1. CASE i < J
        BY <2>1 DEF MessAt
    <2>2. CASE ~(i < J)
        <3>1. i \in J .. N
            BY <1>1, <2>2
        <3> QED BY <2>2, <3>1 DEF MessAt, SameBehind
    <2> QED BY <2>1, <2>2
<1>3. s.next[C[i]] = IteratorAt(C, i)
    <2>1. i = N <=> ~(i < N)
        BY <1>1
    <2> QED BY <1>1, <2>1 DEF IteratorAt
<1>4. PrevAt(s, C, i) = C[i]
    <2>1. i # 0 /\ N # 0 /\ (~(i < N) => i = N)
        BY <1>1
    <2> QED BY <1>1, <2>1 DEF PrevAt
<1>5. a = [ke |-> K, mess |-> M, iterator |-> C[i], prev |-> Before(C, i)]
    BY DEF After
<1>6. At(k, k2, s, r, C, J, i) = [ke |-> K, mess |-> M, iterator |-> M.next[C[i]], prev |-> C[i]]
    BY <1>2, <1>3, <1>4 DEF At
<1> HIDE DEF a, M, K
<1>7. Moved(a, C[i]) = [ke |-> K, mess |-> M, iterator |-> M.next[C[i]], prev |-> C[i]]
    BY <1>5, MovedFields
<1> QED BY <1>6, <1>7 DEF a

\* p has the node at place J, or none if there is no such place.
PlaceIs(s, C, p, J) == \A i \in 1 .. Len(C) : s.owner[C[i]] = p <=> i = J

\* The ResumeMethod of a process that has no node finds none.
LEMMA ResumeMethodIs ==
    ASSUME NEW s, NEW C, NEW l, Ordered(s, C, l), NEW J \in 1 .. Len(C) + 1, NEW r,
           SameBehind(s, r, C, J), J = Len(C) + 1 => r = s,
           r.owner = s.owner, NEW p, PlaceIs(s, C, p, J),
           J # Len(C) + 1 => Removed(s, C[J], Before(C, J), r), NEW k
    PROVE  ResumeMethod(k, s, p) = r
<1> DEFINE N == Len(C)
           Body(b) == IF s.owner[b.iterator] = p
                      THEN [b EXCEPT !.mess = RemoveProcessFromQueue(@, b.iterator, b.prev)]
                      ELSE b
           start == [ke |-> k, mess |-> s, iterator |-> s.first, prev |-> s.first]
           Def(f) == [i \in Nat |->
                        IF i = 0
                        THEN start
                        ELSE LET b == f[i - 1]
                                 a == Body(b)
                             IN  IF b.iterator = NoNode
                                 THEN b
                                 ELSE [a EXCEPT !.prev = b.iterator,
                                                !.iterator = a.mess.next[b.iterator]]]
           T(i) == At(k, k, s, r, C, J, i)
           B(i) == Ahead(k, k, s, r, C, J, i)
           A(i) == After(k, k, s, r, C, J, i)
           t == [i \in Nat |-> T(i)]
           f == CHOOSE g : g = Def(g)
<1>1. /\ N \in Nat /\ N <= NodeCount /\ NodeCount \in Nat /\ J \in Nat
      /\ \A i \in 1 .. N : C[i] # NoNode
    BY OrderedFacts, MessagesAssumption
<1>2. T(0) = start
    BY AtStart
<1>3. ASSUME NEW i \in Nat, i < N PROVE T(i) = B(i)
    <2>1. i + 1 \in 1 .. N
        BY <1>1, <1>3
    <2> QED BY <2>1, AtStep
<1>4. ASSUME NEW i \in Nat, i >= N PROVE T(i).iterator = NoNode /\ T(i + 1) = T(i)
    BY <1>4, AtEnd
<1>5. ASSUME NEW i \in 1 .. N PROVE T(i) = Moved(A(i), C[i])
    BY AtMoved
<1>6. ASSUME NEW i \in Nat, i < N
      PROVE  Body(T(i)) = A(i + 1) /\ T(i).iterator = C[i + 1] /\ T(i).iterator # NoNode
    <2>1. T(i) = [ke |-> k, mess |-> MessAt(s, r, J, i),
                  iterator |-> C[i + 1], prev |-> Before(C, i + 1)]
        BY <1>6, <1>3 DEF Ahead, KeAt
    <2>2. i + 1 \in 1 .. N
        BY <1>1, <1>6
    <2>3. s.owner[C[i + 1]] = p <=> i + 1 = J
        BY <2>2 DEF PlaceIs
    <2>4. A(i + 1) = [ke |-> k, mess |-> MessAt(s, r, J, i + 1),
                      iterator |-> C[i + 1], prev |-> Before(C, i + 1)]
        BY DEF After, KeAt
    <2>5. C[i + 1] # NoNode
        BY <1>1, <2>2
    <2> HIDE DEF T, A
    <2>6. CASE i + 1 = J
        <3>1. MessAt(s, r, J, i) = s /\ MessAt(s, r, J, i + 1) = r /\ J # N + 1
            BY <1>1, <1>6, <2>6 DEF MessAt
        <3>2. r = RemoveProcessFromQueue(s, C[i + 1], Before(C, i + 1))
            BY <2>6, <3>1 DEF Removed
        <3>3. Body(T(i)) = [T(i) EXCEPT !.mess = RemoveProcessFromQueue(@, T(i).iterator, T(i).prev)]
            BY <2>1, <2>3, <2>6
        <3> HIDE DEF Body
        <3> QED BY <2>1, <2>4, <2>5, <3>1, <3>2, <3>3
    <2>7. CASE i + 1 # J
        <3>1. MessAt(s, r, J, i + 1) = MessAt(s, r, J, i)
            BY <1>1, <2>7 DEF MessAt
        <3>2. Body(T(i)) = T(i)
            BY <2>1, <2>3, <2>7
        <3> HIDE DEF Body
        <3> QED BY <2>1, <2>4, <2>5, <3>1, <3>2
    <2> QED BY <2>6, <2>7
<1> HIDE DEF T, A, Body, start
<1>7. ASSUME NEW i \in Nat
      PROVE  LET b == T(i)
                 a == Body(b)
             IN  T(i + 1) = IF b.iterator = NoNode
                            THEN b
                            ELSE [a EXCEPT !.prev = b.iterator,
                                           !.iterator = a.mess.next[b.iterator]]
    <2>1. CASE i < N
        <3>1. i + 1 \in 1 .. N
            BY <1>1, <2>1
        <3>2. T(i + 1) = Moved(A(i + 1), C[i + 1])
            BY <1>5, <3>1
        <3> QED BY <1>6, <2>1, <3>2 DEF Moved
    <2>2. CASE i >= N
        BY <1>4, <2>2
    <2> QED BY <1>1, <2>1, <2>2
<1>8. t = Def(t)
    <2>1. ASSUME NEW i \in Nat PROVE t[i] = Def(t)[i]
        <3>1. CASE i = 0
            BY <1>2, <3>1
        <3>2. CASE i # 0
            <4>1. PICK n \in Nat : i = n + 1
                <5>1. i - 1 \in Nat /\ i = (i - 1) + 1
                    BY <3>2
                <5> QED BY <5>1
            <4>2. i - 1 = n
                BY <4>1
            <4> QED BY <1>7, <3>2, <4>1, <4>2
        <3> QED BY <3>1, <3>2
    <2> QED BY <2>1
<1>9. f = Def(f)
    <2> HIDE DEF Def, t
    <2> QED BY <1>8
<1> HIDE DEF f
<1>10. \A i \in Nat : f[i] = T(i)
    <2> DEFINE S == {i \in Nat : f[i] = T(i)}
    <2>1. f[0] = Def(f)[0]
        BY <1>9, Zenon
    <2>2. 0 \in S
        BY <1>2, <2>1
    <2>3. ASSUME NEW i \in Nat, i \in S PROVE i + 1 \in S
        <3>1. f[i + 1] = Def(f)[i + 1]
            BY <1>9, Zenon
        <3>2. (i + 1) - 1 = i /\ i + 1 # 0 /\ i + 1 \in Nat
            OBVIOUS
        <3>3. LET b == f[i]
                  a == Body(b)
              IN  Def(f)[i + 1] = IF b.iterator = NoNode
                                  THEN b
                                  ELSE [a EXCEPT !.prev = b.iterator,
                                                 !.iterator = a.mess.next[b.iterator]]
            BY <3>2
        <3> QED BY <1>7, <2>3, <3>1, <3>2, <3>3
    <2> HIDE DEF S
    <2>4. Nat \subseteq S
        BY <2>2, <2>3, NatSetInduction
    <2> QED BY <2>4 DEF S
<1>11. ResumeMethod(k, s, p) = f[NodeCount].mess
    BY DEF ResumeMethod, Walk, f, Body, start
<1>12. T(NodeCount).mess = r
    <2>1. ~(NodeCount < J) \/ r = s
        BY <1>1
    <2> QED BY <2>1 DEF T, At, MessAt
<1> QED BY <1>1, <1>10, <1>11, <1>12

\* Each process has one node at most.
LEMMA PlaceOf ==
    ASSUME NEW s, NEW C, NEW l, Ordered(s, C, l), NEW p
    PROVE  \E J \in 1 .. Len(C) + 1 : PlaceIs(s, C, p, J)
<1>1. /\ Len(C) \in Nat
      /\ \A i, j \in 1 .. Len(C) : s.owner[C[i]] = s.owner[C[j]] => i = j
    BY OrderedFacts DEF Ordered
<1>2. CASE \E j \in 1 .. Len(C) : s.owner[C[j]] = p
    <2>1. PICK j \in 1 .. Len(C) : s.owner[C[j]] = p
        BY <1>2
    <2>2. \A i \in 1 .. Len(C) : s.owner[C[i]] = p <=> i = j
        BY <1>1, <2>1
    <2>3. j \in 1 .. Len(C) + 1
        BY <1>1
    <2> QED BY <2>2, <2>3 DEF PlaceIs
<1>3. CASE ~ \E j \in 1 .. Len(C) : s.owner[C[j]] = p
    <2>1. Len(C) + 1 \in 1 .. Len(C) + 1 /\ \A i \in 1 .. Len(C) : i # Len(C) + 1
        BY <1>1
    <2> QED BY <1>3, <2>1 DEF PlaceIs
<1> QED BY <1>2, <1>3

\* The ResumeMethod takes the node of the process out, if it has one.
LEMMA ResumeShorter ==
    ASSUME NEW s \in MessState, NEW C, NEW l, Ordered(s, C, l), NEW p, NEW k
    PROVE  \E D, d : Shorter(s, C, l, ResumeMethod(k, s, p), D, d, {p})
<1>1. PICK J \in 1 .. Len(C) + 1 : PlaceIs(s, C, p, J)
    BY PlaceOf
<1>2. Len(C) \in Nat /\ l \in Nat /\ l <= Len(C)
    BY OrderedFacts
<1>3. CASE J = Len(C) + 1
    <2>1. SameBehind(s, s, C, J)
        BY DEF SameBehind
    <2>2. ResumeMethod(k, s, p) = s
        BY <1>1, <1>3, <2>1, ResumeMethodIs
    <2>3. \A i \in 1 .. l : i \in 1 .. Len(C) /\ i # J
        BY <1>2, <1>3
    <2>4. \A n \in UpTo(C, l) : s.owner[n] # p
        BY <1>1, <2>3 DEF UpTo, PlaceIs
    <2>5. Shorter(s, C, l, s, C, l, {p})
        BY <2>4 DEF Shorter, SameButPointers
    <2> QED BY <2>2, <2>5
<1>4. CASE J # Len(C) + 1
    <2> DEFINE r == RemoveProcessFromQueue(s, C[J], Before(C, J))
               x == RemoveProcessFromQueue(r, C[J], Before(C, J))
    <2>1. J \in 1 .. Len(C)
        BY <1>2, <1>4
    <2>2. Removed(s, C[J], Before(C, J), r) /\ Removed(r, C[J], Before(C, J), x)
        BY DEF Removed
    <2> HIDE DEF r, x
    <2>3. /\ \E D, d : Shorter(s, C, l, r, D, d, {s.owner[C[J]]})
          /\ SameBehind(s, r, C, J)
        BY <2>1, <2>2, RemoveNode
    <2>4. s.owner[C[J]] = p
        BY <1>1, <2>1 DEF PlaceIs
    <2>5. r.owner = s.owner
        BY <2>3 DEF Shorter, SameButPointers
    <2>6. ResumeMethod(k, s, p) = r
        BY <1>1, <1>4, <2>2, <2>3, <2>5, ResumeMethodIs
    <2> QED BY <2>3, <2>4, <2>6
<1> QED BY <1>3, <1>4

\* The body of MessSendMessage's loop leads from k and s to k2 and r when it
\* stands on the node at place J.
Delivered(k, s, C, J, p, m, k2, r) ==
    Deliver([ke |-> k, mess |-> s, iterator |-> C[J], prev |-> Before(C, J)], p, m) =
        [ke |-> k2, mess |-> r, iterator |-> C[J], prev |-> Before(C, J)]

\* The message has its type.
Sent(m, t) == [mess EXCEPT !.kind[m] = t]

IsSent(s, m, t) == s = Sent(m, t)

\* The message is on the queue of p.
Queued(s, p, m) == [s EXCEPT !.queue[p] = Append(@, m)]

LEMMA SendMessageIs ==
    ASSUME NEW m, NEW t0, NEW s, IsSent(s, m, t0),
           NEW C, NEW l, Ordered(s, C, l), NEW J \in 1 .. Len(C) + 1, NEW r,
           SameBehind(s, r, C, J), NEW k2, J = Len(C) + 1 => k2 = ke /\ r = s,
           r.owner = s.owner, NEW p, PlaceIs(s, C, p, J),
           J # Len(C) + 1 => Delivered(ke, s, C, J, p, m, k2, r)
    PROVE  MessSendMessage(p, m, t0) = [ke |-> k2, mess |-> Queued(r, p, m)]
<1> DEFINE N == Len(C)
           Body(b) == Deliver(b, p, m)
           start == [ke |-> ke, mess |-> s, iterator |-> s.first, prev |-> s.first]
           Def(f) == [i \in Nat |->
                        IF i = 0
                        THEN start
                        ELSE LET b == f[i - 1]
                                 a == Body(b)
                             IN  IF b.iterator = NoNode
                                 THEN b
                                 ELSE [a EXCEPT !.prev = b.iterator,
                                                !.iterator = a.mess.next[b.iterator]]]
           T(i) == At(ke, k2, s, r, C, J, i)
           B(i) == Ahead(ke, k2, s, r, C, J, i)
           A(i) == After(ke, k2, s, r, C, J, i)
           t == [i \in Nat |-> T(i)]
           f == CHOOSE g : g = Def(g)
<1>1. /\ N \in Nat /\ N <= NodeCount /\ NodeCount \in Nat /\ J \in Nat
      /\ \A i \in 1 .. N : C[i] # NoNode
    BY OrderedFacts, MessagesAssumption
<1>2. T(0) = start
    BY AtStart
<1>3. ASSUME NEW i \in Nat, i < N PROVE T(i) = B(i)
    <2>1. i + 1 \in 1 .. N
        BY <1>1, <1>3
    <2> QED BY <2>1, AtStep
<1>4. ASSUME NEW i \in Nat, i >= N PROVE T(i).iterator = NoNode /\ T(i + 1) = T(i)
    BY <1>4, AtEnd
<1>5. ASSUME NEW i \in 1 .. N PROVE T(i) = Moved(A(i), C[i])
    BY AtMoved
<1>6. ASSUME NEW i \in Nat, i < N
      PROVE  Body(T(i)) = A(i + 1) /\ T(i).iterator = C[i + 1] /\ T(i).iterator # NoNode
    <2> DEFINE c == C[i + 1]
               v == Before(C, i + 1)
    <2>1. T(i) = [ke |-> KeAt(ke, k2, J, i), mess |-> MessAt(s, r, J, i),
                  iterator |-> c, prev |-> v]
        BY <1>6, <1>3 DEF Ahead
    <2>2. i + 1 \in 1 .. N
        BY <1>1, <1>6
    <2>3. s.owner[c] = p <=> i + 1 = J
        BY <2>2 DEF PlaceIs
    <2>4. A(i + 1) = [ke |-> KeAt(ke, k2, J, i + 1), mess |-> MessAt(s, r, J, i + 1),
                      iterator |-> c, prev |-> v]
        BY DEF After
    <2>5. c # NoNode
        BY <1>1, <2>2
    <2>6. CASE i + 1 = J
        <3>1. /\ KeAt(ke, k2, J, i) = ke /\ KeAt(ke, k2, J, i + 1) = k2
              /\ MessAt(s, r, J, i) = s /\ MessAt(s, r, J, i + 1) = r /\ J # N + 1
            BY <1>1, <1>6, <2>6 DEF MessAt, KeAt
        <3>2. Deliver([ke |-> ke, mess |-> s, iterator |-> c, prev |-> v], p, m) =
                  [ke |-> k2, mess |-> r, iterator |-> c, prev |-> v]
            BY <2>6, <3>1 DEF Delivered
        <3> HIDE DEF T, A, c, v
        <3>3. T(i) = [ke |-> ke, mess |-> s, iterator |-> c, prev |-> v]
            BY <2>1, <3>1
        <3>4. A(i + 1) = [ke |-> k2, mess |-> r, iterator |-> c, prev |-> v]
            BY <2>4, <3>1
        <3>5. Body(T(i)) = A(i + 1)
            BY <3>2, <3>3, <3>4
        <3> QED BY <2>5, <3>3, <3>5 DEF c
    <2>7. CASE i + 1 # J
        <3>1. /\ MessAt(s, r, J, i + 1) = MessAt(s, r, J, i)
              /\ KeAt(ke, k2, J, i + 1) = KeAt(ke, k2, J, i)
              /\ MessAt(s, r, J, i).owner = s.owner
            BY <1>1, <2>7 DEF MessAt, KeAt
        <3> HIDE DEF T, A, c, v
        <3>2. T(i).mess.owner[T(i).iterator] # p
            BY <2>1, <2>3, <2>7, <3>1
        <3>3. Body(T(i)) = T(i)
            BY <3>2 DEF Deliver
        <3>4. T(i) = A(i + 1)
            BY <2>1, <2>4, <3>1
        <3>5. T(i).iterator = c
            BY <2>1
        <3> QED BY <2>5, <3>3, <3>4, <3>5 DEF c
    <2> QED BY <2>6, <2>7
<1> HIDE DEF T, A, Body, start
<1>7. ASSUME NEW i \in Nat
      PROVE  LET b == T(i)
                 a == Body(b)
             IN  T(i + 1) = IF b.iterator = NoNode
                            THEN b
                            ELSE [a EXCEPT !.prev = b.iterator,
                                           !.iterator = a.mess.next[b.iterator]]
    <2>1. CASE i < N
        <3>1. i + 1 \in 1 .. N
            BY <1>1, <2>1
        <3>2. T(i + 1) = Moved(A(i + 1), C[i + 1])
            BY <1>5, <3>1
        <3> QED BY <1>6, <2>1, <3>2 DEF Moved
    <2>2. CASE i >= N
        BY <1>4, <2>2
    <2> QED BY <1>1, <2>1, <2>2
<1>8. t = Def(t)
    <2>1. ASSUME NEW i \in Nat PROVE t[i] = Def(t)[i]
        <3>1. CASE i = 0
            BY <1>2, <3>1
        <3>2. CASE i # 0
            <4>1. PICK n \in Nat : i = n + 1
                <5>1. i - 1 \in Nat /\ i = (i - 1) + 1
                    BY <3>2
                <5> QED BY <5>1
            <4>2. i - 1 = n
                BY <4>1
            <4> QED BY <1>7, <3>2, <4>1, <4>2
        <3> QED BY <3>1, <3>2
    <2> QED BY <2>1
<1>9. f = Def(f)
    <2> HIDE DEF Def, t
    <2> QED BY <1>8
<1> HIDE DEF f
<1>10. \A i \in Nat : f[i] = T(i)
    <2> DEFINE S == {i \in Nat : f[i] = T(i)}
    <2>1. f[0] = Def(f)[0]
        BY <1>9, Zenon
    <2>2. 0 \in S
        BY <1>2, <2>1
    <2>3. ASSUME NEW i \in Nat, i \in S PROVE i + 1 \in S
        <3>1. f[i + 1] = Def(f)[i + 1]
            BY <1>9, Zenon
        <3>2. (i + 1) - 1 = i /\ i + 1 # 0 /\ i + 1 \in Nat
            OBVIOUS
        <3>3. LET b == f[i]
                  a == Body(b)
              IN  Def(f)[i + 1] = IF b.iterator = NoNode
                                  THEN b
                                  ELSE [a EXCEPT !.prev = b.iterator,
                                                 !.iterator = a.mess.next[b.iterator]]
            BY <3>2
        <3> QED BY <1>7, <2>3, <3>1, <3>2, <3>3
    <2> HIDE DEF S
    <2>4. Nat \subseteq S
        BY <2>2, <2>3, NatSetInduction
    <2> QED BY <2>4 DEF S
<1>11. MessSendMessage(p, m, t0) =
          [ke |-> f[NodeCount].ke, mess |-> Queued(f[NodeCount].mess, p, m)]
    BY DEF MessSendMessage, Walk, f, Body, start, IsSent, Sent, Queued
<1>12. T(NodeCount).mess = r /\ T(NodeCount).ke = k2
    <2>1. ~(NodeCount < J) \/ (r = s /\ k2 = ke)
        BY <1>1
    <2> QED BY <2>1 DEF T, At, MessAt, KeAt
<1>13. f[NodeCount] = T(NodeCount)
    BY <1>1, <1>10
<1> HIDE DEF T
<1> QED BY <1>11, <1>12, <1>13

-----------------------------------------------------------------------------
\* p gets m.
Got(s, p, m) == [s EXCEPT !.result[p] = m]

LEMMA GotFacts ==
    ASSUME NEW s \in MessState, NEW p \in Process, NEW m \in Message \cup {NoMessage}
    PROVE  /\ Got(s, p, m) \in MessState
           /\ Got(s, p, m).first = s.first /\ Got(s, p, m).last = s.last
           /\ Got(s, p, m).next = s.next /\ Got(s, p, m).owner = s.owner
           /\ Got(s, p, m).waitsFor = s.waitsFor /\ Got(s, p, m).queue = s.queue
           /\ Got(s, p, m).kind = s.kind
           /\ Got(s, p, m).result = [s.result EXCEPT ![p] = m]
<1> DEFINE V == [s.result EXCEPT ![p] = m]
<1>1. V \in [Process -> Message \cup {NoMessage}]
    BY DEF MessState
<1>2. Got(s, p, m) = [s EXCEPT !.result = V]
    BY DEF Got, MessState
<1> HIDE DEF V
<1>3. /\ Got(s, p, m) \in MessState
      /\ Got(s, p, m).first = s.first /\ Got(s, p, m).last = s.last
      /\ Got(s, p, m).next = s.next /\ Got(s, p, m).owner = s.owner
      /\ Got(s, p, m).waitsFor = s.waitsFor /\ Got(s, p, m).queue = s.queue
      /\ Got(s, p, m).kind = s.kind
      /\ Got(s, p, m).result = V
    BY <1>1, <1>2 DEF MessState
<1> QED BY <1>3 DEF V

\* Removing a node and storing a result are done in either order.
LEMMA RemovedGot ==
    ASSUME NEW s \in MessState, NEW n \in Node, NEW prev \in Node, NEW r, Removed(s, n, prev, r),
           NEW p \in Process, NEW m \in Message
    PROVE  Removed(Got(s, p, m), n, prev, Got(r, p, m))
<1> DEFINE v == Got(s, p, m)
           y == RemoveProcessFromQueue(v, n, prev)
           z == Got(r, p, m)
<1>1. /\ v \in MessState /\ v.first = s.first /\ v.last = s.last /\ v.next = s.next
      /\ v.owner = s.owner /\ v.waitsFor = s.waitsFor /\ v.queue = s.queue /\ v.kind = s.kind
      /\ v.result = [s.result EXCEPT ![p] = m]
    BY GotFacts
<1>2. Removed(v, n, prev, y)
    BY DEF Removed
<1> HIDE DEF v, y
<1>3. /\ SameButPointers(v, y) /\ SameButPointers(s, r)
      /\ y.first = r.first /\ y.last = r.last /\ y.next = r.next
    <2>1. CASE s.first = n \/ s.last = n
        BY <1>1, <1>2, <2>1, RemoveEnds
    <2>2. CASE s.first # n /\ s.last # n
        <3>1. /\ SameButPointers(s, r) /\ r.first = s.first /\ r.last = s.last
              /\ r.next = [s.next EXCEPT ![prev] = s.next[n]]
            BY <2>2, RemoveMiddle
        <3>2. v.first # n /\ v.last # n
            BY <1>1, <2>2
        <3>3. /\ SameButPointers(v, y) /\ y.first = v.first /\ y.last = v.last
              /\ y.next = [v.next EXCEPT ![prev] = v.next[n]]
            BY <1>1, <1>2, <3>2, RemoveMiddle
        <3> QED BY <1>1, <3>1, <3>3
    <2> QED BY <2>1, <2>2
<1>4. r \in MessState /\ y \in MessState
    BY <1>3 DEF SameButPointers
<1>5. /\ z \in MessState /\ z.first = r.first /\ z.last = r.last /\ z.next = r.next
      /\ z.owner = r.owner /\ z.waitsFor = r.waitsFor /\ z.queue = r.queue /\ z.kind = r.kind
      /\ z.result = [r.result EXCEPT ![p] = m]
    BY <1>4, GotFacts
<1> HIDE DEF z
<1>6. SameButPointers(y, z)
    BY <1>1, <1>3, <1>5 DEF SameButPointers
<1>7. z = y
    BY <1>3, <1>4, <1>5, <1>6, SamePointers
<1> QED BY <1>2, <1>7 DEF y, v, z, Removed

\* The receiver is not blocked: its node is taken out.
LEMMA DeliverAwake ==
    ASSUME NEW k, NEW s \in MessState, NEW C, NEW l, Ordered(s, C, l), NEW J \in 1 .. Len(C),
           NEW p \in Process, s.owner[C[J]] = p, NEW m, k.state[p] # "blocked"
    PROVE  \E r : /\ Delivered(k, s, C, J, p, m, k, r)
                  /\ SameBehind(s, r, C, J)
                  /\ \E D, d : Shorter(s, C, l, r, D, d, {p})
<1> DEFINE c == C[J]
           v == Before(C, J)
           r == RemoveProcessFromQueue(s, c, v)
           x == RemoveProcessFromQueue(r, c, v)
           b == [ke |-> k, mess |-> s, iterator |-> c, prev |-> v]
<1>1. Removed(s, c, v, r) /\ Removed(r, c, v, x)
    BY DEF Removed
<1>2. b.ke = k /\ b.mess = s /\ b.iterator = c /\ b.prev = v
    OBVIOUS
<1> HIDE DEF r, x, b
<1>3. SameBehind(s, r, C, J) /\ \E D, d : Shorter(s, C, l, r, D, d, {s.owner[C[J]]})
    BY <1>1, RemoveNode
<1> HIDE DEF c, v
<1>4. Deliver(b, p, m) = [b EXCEPT !.mess = RemoveProcessFromQueue(s, c, v)]
    <2>1. b.mess.owner[b.iterator] = p /\ b.ke.state[p] # "blocked"
        BY <1>2 DEF c
    <2>2. Deliver(b, p, m) = [b EXCEPT !.mess = RemoveProcessFromQueue(@, b.iterator, b.prev)]
        BY <2>1 DEF Deliver
    <2> QED BY <1>2, <2>2
<1>5. [b EXCEPT !.mess = r] = [ke |-> k, mess |-> r, iterator |-> c, prev |-> v]
    <2> DEFINE S == [ke : {k}, mess : {s, r}, iterator : {c}, prev : {v}]
               e == [b EXCEPT !.mess = r]
    <2>1. b \in S
        BY DEF b
    <2>2. e \in S /\ e.ke = k /\ e.mess = r /\ e.iterator = c /\ e.prev = v
        BY <1>2, <2>1
    <2> HIDE DEF e
    <2>3. e = [ke |-> e.ke, mess |-> e.mess, iterator |-> e.iterator, prev |-> e.prev]
        BY <2>2
    <2> QED BY <2>2, <2>3 DEF e
<1>6. Delivered(k, s, C, J, p, m, k, r)
    BY <1>4, <1>5 DEF Delivered, b, r, c, v
<1> QED BY <1>3, <1>6

\* The receiver waits for a message of another type.
LEMMA DeliverOther ==
    ASSUME NEW k, NEW s, NEW C, NEW J, NEW p, s.owner[C[J]] = p, NEW m,
           k.state[p] = "blocked", s.waitsFor[C[J]] \notin {MESSAGE_TYPE_FIRST, s.kind[m]}
    PROVE  Delivered(k, s, C, J, p, m, k, s)
<1> DEFINE b == [ke |-> k, mess |-> s, iterator |-> C[J], prev |-> Before(C, J)]
<1>1. /\ b.mess.owner[b.iterator] = p /\ b.ke.state[p] = "blocked"
      /\ b.mess.waitsFor[b.iterator] \notin {MESSAGE_TYPE_FIRST, b.mess.kind[m]}
    OBVIOUS
<1> HIDE DEF b
<1>2. Deliver(b, p, m) = b
    BY <1>1 DEF Deliver
<1> QED BY <1>2 DEF b, Delivered

\* The receiver waits for the message, or sleeps and has a node still.
LEMMA DeliverWanted ==
    ASSUME NEW k, NEW s \in MessState, NEW C, NEW l, Ordered(s, C, l), NEW J \in 1 .. Len(C),
           NEW p \in Process, s.owner[C[J]] = p, PlaceIs(s, C, p, J), NEW m \in Message,
           k.state[p] = "blocked", s.waitsFor[C[J]] \in {MESSAGE_TYPE_FIRST, s.kind[m]}
    PROVE  \E r : /\ Delivered(k, s, C, J, p, m, KeResumeProcess(k, p), r)
                  /\ SameBehind(s, r, C, J)
                  /\ r.owner = s.owner
                  /\ \E D, d : Shorter(IF k.method[p] THEN Got(s, p, m) ELSE s, C, l, r, D, d, {p})
<1> DEFINE c == C[J]
           v == Before(C, J)
           s0 == IF k.method[p] THEN Got(s, p, m) ELSE s
           r0 == RemoveProcessFromQueue(s0, c, v)
           x0 == RemoveProcessFromQueue(r0, c, v)
           r == IF k.method[p] THEN x0 ELSE r0
           b == [ke |-> k, mess |-> s, iterator |-> c, prev |-> v]
           K == KeResumeProcess(k, p)
           y == [Resumed(k, s, p) EXCEPT !.result[p] = IF k.method[p] THEN m ELSE @]
<1>1. /\ s0 \in MessState /\ s0.owner = s.owner /\ s0.next = s.next
      /\ s0.first = s.first /\ s0.last = s.last
    <2>1. CASE k.method[p]
        <3>1. s0 = Got(s, p, m) /\ m \in Message \cup {NoMessage}
            BY <2>1
        <3> HIDE DEF s0
        <3> QED BY <3>1, GotFacts
    <2>2. CASE ~k.method[p]
        BY <2>2
    <2> QED BY <2>1, <2>2
<1>2. Removed(s0, c, v, r0) /\ Removed(r0, c, v, x0)
    BY DEF Removed
<1> HIDE DEF s0, r0, x0
<1>3. Ordered(s0, C, l)
    BY <1>1 DEF Ordered
<1>4. /\ SameBehind(s0, r0, C, J) /\ SameBehind(s0, x0, C, J)
      /\ \E D, d : Shorter(s0, C, l, r0, D, d, {s0.owner[C[J]]})
      /\ \E D, d : Shorter(s0, C, l, x0, D, d, {s0.owner[C[J]]})
    <2> HIDE DEF r, y, b, K
    <2>1. Removed(s0, C[J], Before(C, J), r0) /\ Removed(r0, C[J], Before(C, J), x0)
        BY <1>2
    <2> HIDE DEF c, v
    <2> QED BY <1>1, <1>3, <2>1, RemoveNode
<1>5. SameBehind(s, r, C, J) /\ \E D, d : Shorter(s0, C, l, r, D, d, {p})
    <2>1. s0.owner[C[J]] = p
        BY <1>1
    <2>2. r = x0 \/ r = r0
        OBVIOUS
    <2> HIDE DEF r
    <2>3. SameBehind(s, r, C, J)
        BY <1>1, <1>4, <2>2 DEF SameBehind
    <2>4. \E D, d : Shorter(s0, C, l, r, D, d, {p})
        BY <1>4, <2>1, <2>2
    <2> QED BY <2>3, <2>4
<1>6. r.owner = s.owner
    BY <1>1, <1>5 DEF Shorter, SameButPointers
<1>7. b.ke = k /\ b.mess = s /\ b.iterator = c /\ b.prev = v
    OBVIOUS
<1>8. c \in Node /\ v \in Node
    BY OrderedFacts DEF Before
<1>9. r = RemoveProcessFromQueue(y, c, v)
    <2>1. CASE k.method[p]
        <3> DEFINE z == RemoveProcessFromQueue(s, c, v)
                   w == RemoveProcessFromQueue(z, c, v)
        <3>1. Removed(s, c, v, z) /\ Removed(z, c, v, w)
            BY DEF Removed
        <3> HIDE DEF z, w
        <3>2. SameBehind(s, z, C, J) /\ \E D, d : Shorter(s, C, l, z, D, d, {s.owner[C[J]]})
            BY <3>1, RemoveNode
        <3>3. z.owner = s.owner
            BY <3>2 DEF Shorter, SameButPointers
        <3>4. J \in 1 .. Len(C) + 1 /\ J # Len(C) + 1
            BY OrderedFacts
        <3>5. ResumeMethod(k, s, p) = z
            BY <3>1, <3>2, <3>3, <3>4, ResumeMethodIs
        <3>6. Removed(s0, c, v, Got(z, p, m))
            BY <1>8, <2>1, <3>1, RemovedGot DEF s0
        <3>7. Got(z, p, m) = r0
            BY <1>2, <3>6 DEF Removed
        <3>8. y = r0
            BY <2>1, <3>5, <3>7 DEF Resumed, Got
        <3> QED BY <1>2, <2>1, <3>8 DEF Removed
    <2>2. CASE ~k.method[p]
        <3>1. [s EXCEPT !.result[p] = @] = s
            <4> DEFINE e == Got(s, p, s.result[p])
            <4>1. s.result[p] \in Message \cup {NoMessage}
                BY DEF MessState
            <4>2. /\ e \in MessState /\ e.first = s.first /\ e.last = s.last /\ e.next = s.next
                  /\ e.owner = s.owner /\ e.waitsFor = s.waitsFor /\ e.queue = s.queue
                  /\ e.kind = s.kind /\ e.result = [s.result EXCEPT ![p] = s.result[p]]
                BY <4>1, GotFacts
            <4> HIDE DEF e
            <4>3. e.result = s.result
                BY <4>2 DEF MessState
            <4>4. e = s
                BY <4>2, <4>3, SamePointers DEF SameButPointers
            <4> QED BY <4>4 DEF e, Got
        <3>2. y = s
            BY <2>2, <3>1 DEF Resumed
        <3>3. s0 = s /\ r = r0
            BY <2>2 DEF s0
        <3> QED BY <1>2, <3>2, <3>3 DEF Removed
    <2> QED BY <2>1, <2>2
<1> HIDE DEF c, v, r, b, y, K
<1>10. Deliver(b, p, m) = [b EXCEPT !.ke = K, !.mess = r]
    <2>1. /\ b.mess.owner[b.iterator] = p /\ b.ke.state[p] = "blocked"
          /\ b.mess.waitsFor[b.iterator] \in {MESSAGE_TYPE_FIRST, b.mess.kind[m]}
        BY <1>7 DEF c
    <2>2. Deliver(b, p, m) =
              [b EXCEPT !.ke = KeResumeProcess(@, p),
                        !.mess = RemoveProcessFromQueue(
                                     [Resumed(b.ke, b.mess, p)
                                         EXCEPT !.result[p] = IF b.ke.method[p] THEN m ELSE @],
                                     b.iterator, b.prev)]
        BY <2>1 DEF Deliver
    <2> QED BY <1>7, <1>9, <2>2 DEF K, y
<1>11. [b EXCEPT !.ke = K, !.mess = r] = [ke |-> K, mess |-> r, iterator |-> c, prev |-> v]
    <2> DEFINE S == [ke : {k, K}, mess : {s, r}, iterator : {c}, prev : {v}]
               e == [b EXCEPT !.ke = K, !.mess = r]
    <2>1. b \in S
        BY DEF b
    <2>2. e \in S /\ e.ke = K /\ e.mess = r /\ e.iterator = c /\ e.prev = v
        BY <1>7, <2>1
    <2> HIDE DEF e
    <2>3. e = [ke |-> e.ke, mess |-> e.mess, iterator |-> e.iterator, prev |-> e.prev]
        BY <2>2
    <2> QED BY <2>2, <2>3 DEF e
<1>12. Delivered(k, s, C, J, p, m, K, r)
    BY <1>10, <1>11 DEF Delivered, b, c, v
<1> QED BY <1>5, <1>6, <1>12 DEF K, s0

LEMMA SentFacts ==
    ASSUME mess \in MessState, NEW m \in Message, NEW t \in Types
    PROVE  /\ Sent(m, t) \in MessState
           /\ Sent(m, t).first = mess.first /\ Sent(m, t).last = mess.last
           /\ Sent(m, t).next = mess.next /\ Sent(m, t).owner = mess.owner
           /\ Sent(m, t).waitsFor = mess.waitsFor /\ Sent(m, t).queue = mess.queue
           /\ Sent(m, t).result = mess.result
           /\ Sent(m, t).kind = [mess.kind EXCEPT ![m] = t]
<1> DEFINE V == [mess.kind EXCEPT ![m] = t]
<1>1. V \in [Message -> Types]
    BY DEF MessState
<1>2. Sent(m, t) = [mess EXCEPT !.kind = V]
    BY DEF Sent, MessState
<1> HIDE DEF V
<1>3. /\ Sent(m, t) \in MessState
      /\ Sent(m, t).first = mess.first /\ Sent(m, t).last = mess.last
      /\ Sent(m, t).next = mess.next /\ Sent(m, t).owner = mess.owner
      /\ Sent(m, t).waitsFor = mess.waitsFor /\ Sent(m, t).queue = mess.queue
      /\ Sent(m, t).result = mess.result
      /\ Sent(m, t).kind = V
    BY <1>1, <1>2 DEF MessState
<1> QED BY <1>3 DEF V

\* What MessSendMessage does to the scheduler and to the queue of receivers:
\* nothing, or p loses a node it left behind, or is resumed.
Passed(C, p, t, k2, s, r) ==
    /\ k2 = ke /\ r = s
    /\ \A n \in NodesOf(C) : mess.owner[n] = p =>
          ke.state[p] = "blocked" /\ mess.waitsFor[n] \notin {MESSAGE_TYPE_FIRST, t}

Dropped(C, l, p, k2, s, r) ==
    /\ k2 = ke /\ ke.state[p] # "blocked"
    /\ \E D, d : Shorter(s, C, l, r, D, d, {p})

Woken(C, l, p, m, t, k2, s, r) ==
    /\ k2 = KeResumeProcess(ke, p) /\ ke.state[p] = "blocked"
    /\ \E n \in NodesOf(C) :
          mess.owner[n] = p /\ mess.waitsFor[n] \in {MESSAGE_TYPE_FIRST, t}
    /\ \E D, d : Shorter(IF ke.method[p] THEN Got(s, p, m) ELSE s, C, l, r, D, d, {p})

LEMMA SendCases ==
    ASSUME mess \in MessState, NEW C, NEW l, Ordered(mess, C, l),
           NEW p \in Process, NEW m \in Message, NEW t \in Types
    PROVE  \E k2, r :
              /\ MessSendMessage(p, m, t) = [ke |-> k2, mess |-> Queued(r, p, m)]
              /\ \/ Passed(C, p, t, k2, Sent(m, t), r)
                 \/ Dropped(C, l, p, k2, Sent(m, t), r)
                 \/ Woken(C, l, p, m, t, k2, Sent(m, t), r)
<1> DEFINE s == Sent(m, t)
<1>1. /\ s \in MessState /\ s.owner = mess.owner /\ s.waitsFor = mess.waitsFor
      /\ s.next = mess.next /\ s.first = mess.first /\ s.last = mess.last /\ s.kind[m] = t
    <2>1. s.kind = [mess.kind EXCEPT ![m] = t] /\ mess.kind \in [Message -> Types]
        BY SentFacts DEF MessState
    <2>2. s.kind[m] = t
        BY <2>1
    <2>3. /\ s \in MessState /\ s.owner = mess.owner /\ s.waitsFor = mess.waitsFor
          /\ s.next = mess.next /\ s.first = mess.first /\ s.last = mess.last
        BY SentFacts
    <2> QED BY <2>2, <2>3
<1>2. s = Sent(m, t) /\ IsSent(s, m, t)
    BY DEF IsSent
<1> HIDE DEF s
<1>3. Ordered(s, C, l)
    BY <1>1 DEF Ordered
<1>4. PICK J \in 1 .. Len(C) + 1 : PlaceIs(s, C, p, J)
    BY <1>3, PlaceOf
<1>5. Len(C) \in Nat /\ \A i \in 1 .. Len(C) : C[i] \in NodesOf(C)
    BY OrderedFacts DEF NodesOf, UpTo
<1>6. \A n \in NodesOf(C) : mess.owner[n] = p => J # Len(C) + 1 /\ n = C[J]
    BY <1>1, <1>4, <1>5 DEF NodesOf, UpTo, PlaceIs
<1>7. CASE J = Len(C) + 1
    <2>1. SameBehind(s, s, C, J)
        BY DEF SameBehind
    <2>2. MessSendMessage(p, m, t) = [ke |-> ke, mess |-> Queued(s, p, m)]
        BY <1>2, <1>3, <1>4, <1>7, <2>1, SendMessageIs
    <2>3. Passed(C, p, t, ke, s, s)
        BY <1>6, <1>7 DEF Passed
    <2> QED BY <1>2, <2>2, <2>3
<1>8. CASE J # Len(C) + 1
    <2>1. J \in 1 .. Len(C)
        BY <1>5, <1>8
    <2>2. s.owner[C[J]] = p /\ C[J] \in NodesOf(C)
        BY <1>4, <1>5, <2>1 DEF PlaceIs
    <2>3. CASE ke.state[p] # "blocked"
        <3>1. PICK r : /\ Delivered(ke, s, C, J, p, m, ke, r)
                       /\ SameBehind(s, r, C, J)
                       /\ \E D, d : Shorter(s, C, l, r, D, d, {p})
            BY <1>1, <1>3, <2>1, <2>2, <2>3, DeliverAwake
        <3>2. r.owner = s.owner
            BY <3>1 DEF Shorter, SameButPointers
        <3>3. MessSendMessage(p, m, t) = [ke |-> ke, mess |-> Queued(r, p, m)]
            BY <1>2, <1>3, <1>4, <1>8, <3>1, <3>2, SendMessageIs
        <3>4. Dropped(C, l, p, ke, s, r)
            BY <2>3, <3>1 DEF Dropped
        <3> QED BY <1>2, <3>3, <3>4
    <2>4. CASE ke.state[p] = "blocked" /\ s.waitsFor[C[J]] \notin {MESSAGE_TYPE_FIRST, s.kind[m]}
        <3>1. Delivered(ke, s, C, J, p, m, ke, s)
            BY <2>2, <2>4, DeliverOther
        <3>2. SameBehind(s, s, C, J)
            BY DEF SameBehind
        <3>3. MessSendMessage(p, m, t) = [ke |-> ke, mess |-> Queued(s, p, m)]
            BY <1>2, <1>3, <1>4, <1>8, <3>1, <3>2, SendMessageIs
        <3>4. Passed(C, p, t, ke, s, s)
            BY <1>1, <1>6, <2>4 DEF Passed
        <3> QED BY <1>2, <3>3, <3>4
    <2>5. CASE ke.state[p] = "blocked" /\ s.waitsFor[C[J]] \in {MESSAGE_TYPE_FIRST, s.kind[m]}
        <3> DEFINE K == KeResumeProcess(ke, p)
        <3>1. PICK r : /\ Delivered(ke, s, C, J, p, m, K, r)
                       /\ SameBehind(s, r, C, J)
                       /\ r.owner = s.owner
                       /\ \E D, d : Shorter(IF ke.method[p] THEN Got(s, p, m) ELSE s,
                                            C, l, r, D, d, {p})
            BY <1>1, <1>3, <1>4, <2>1, <2>2, <2>5, DeliverWanted
        <3> HIDE DEF K
        <3>2. MessSendMessage(p, m, t) = [ke |-> K, mess |-> Queued(r, p, m)]
            BY <1>2, <1>3, <1>4, <1>8, <3>1, SendMessageIs
        <3>3. Woken(C, l, p, m, t, K, s, r)
            BY <1>1, <2>2, <2>5, <3>1 DEF Woken, K
        <3> QED BY <1>2, <3>2, <3>3
    <2> QED BY <2>3, <2>4, <2>5
<1> QED BY <1>7, <1>8

-----------------------------------------------------------------------------
\* Those of the list before that have left a receive call, up to place i.
LeftUpTo(before, later, i) ==
    {before[x] : x \in {y \in 1 .. i : ~Contains(later, before[y]) /\ ke.method[before[y]]}}

\* The time-outs of a tick take the nodes of the woken receivers out, whatever
\* their order.
LEMMA LeftShorter ==
    ASSUME mess \in MessState, NEW C, NEW l, Ordered(mess, C, l),
           NEW before, NEW later, Len(before) \in Nat
    PROVE  \E D, d : Shorter(mess, C, l, Left(before, later), D, d,
                             LeftUpTo(before, later, Len(before)))
<1> DEFINE N == Len(before)
           P(i) == LeftUpTo(before, later, i)
           Go(i, x) == IF Contains(later, before[i + 1])
                       THEN x
                       ELSE Resumed(ke, x, before[i + 1])
           G == [i \in Nat |-> [x \in MessState |-> IF Go(i, x) \in MessState
                                                    THEN Go(i, x) ELSE x]]
           Def(a) == [i \in 0 .. N |->
                        IF i = 0
                        THEN mess
                        ELSE IF Contains(later, before[i])
                        THEN a[i - 1]
                        ELSE Resumed(ke, a[i - 1], before[i])]
           g == CHOOSE a : a = Def(a)
           Is(i, x) == \E D, d : Shorter(mess, C, l, x, D, d, P(i))
<1>1. N \in Nat
    OBVIOUS
<1>2. PICK f : IsIteration(f, MessState, mess, G)
    <2>1. G \in [Nat -> [MessState -> MessState]]
        OBVIOUS
    <2> HIDE DEF G
    <2> QED BY <2>1, IterateExists
<1>3. /\ f \in [Nat -> MessState] /\ f[0] = mess
      /\ \A i \in Nat : f[i + 1] = IF Go(i, f[i]) \in MessState THEN Go(i, f[i]) ELSE f[i]
    <2>1. f \in [Nat -> MessState] /\ f[0] = mess /\ \A i \in Nat : f[i + 1] = G[i][f[i]]
        BY <1>2 DEF IsIteration
    <2> HIDE DEF Go
    <2> QED BY <2>1
<1>4. ASSUME NEW i \in Nat, Is(i, f[i])
      PROVE  Is(i + 1, Go(i, f[i])) /\ Go(i, f[i]) \in MessState
    <2> DEFINE q == before[i + 1]
               x == f[i]
               z == Go(i, x)
    <2>1. PICK D, d : Shorter(mess, C, l, x, D, d, P(i))
        BY <1>4
    <2>2. x \in MessState
        BY <1>3
    <2>3. CASE ~Contains(later, q) /\ ke.method[q]
        <3>1. z = ResumeMethod(ke, x, q)
            BY <2>3 DEF Resumed
        <3>2. Ordered(x, D, d)
            BY <2>1 DEF Shorter
        <3> HIDE DEF z, x, q, Go
        <3>3. PICK E, e : Shorter(x, D, d, z, E, e, {q})
            BY <2>2, <3>1, <3>2, ResumeShorter
        <3> HIDE DEF P
        <3>4. Shorter(mess, C, l, z, E, e, P(i) \cup {q})
            BY <2>1, <3>3, ShorterTwice
        <3>5. P(i) \cup {q} = P(i + 1)
            <4>1. \A y : y \in 1 .. i + 1 <=> y \in 1 .. i \/ y = i + 1
                BY <1>4
            <4> QED BY <2>3, <4>1 DEF P, LeftUpTo, q
        <3>6. z \in MessState
            BY <3>3 DEF Shorter, SameButPointers
        <3> QED BY <3>4, <3>5, <3>6 DEF z, x
    <2>4. CASE ~(~Contains(later, q) /\ ke.method[q])
        <3>1. z = x
            BY <2>4 DEF Resumed
        <3>2. P(i) = P(i + 1)
            <4>1. \A y : y \in 1 .. i + 1 <=> y \in 1 .. i \/ y = i + 1
                BY <1>4
            <4> QED BY <2>4, <4>1 DEF LeftUpTo
        <3> HIDE DEF z, P, Go
        <3>3. Is(i + 1, z) /\ z \in MessState
            BY <1>4, <2>2, <3>1, <3>2
        <3> QED BY <3>3 DEF z
    <2> QED BY <2>3, <2>4
<1>5. Is(0, mess)
    <2>1. P(0) = {}
        BY DEF LeftUpTo
    <2> HIDE DEF P
    <2>2. Shorter(mess, C, l, mess, C, l, {})
        BY DEF Shorter, SameButPointers
    <2> QED BY <2>1, <2>2
<1> HIDE DEF Is, Go
<1>6. \A i \in Nat : Is(i, f[i])
    <2> DEFINE S == {i \in Nat : Is(i, f[i])}
    <2>1. 0 \in S
        BY <1>3, <1>5
    <2>2. ASSUME NEW i \in Nat, i \in S PROVE i + 1 \in S
        <3>1. Is(i + 1, Go(i, f[i])) /\ Go(i, f[i]) \in MessState
            BY <1>4, <2>2
        <3>2. f[i + 1] = Go(i, f[i])
            BY <1>3, <3>1
        <3> QED BY <3>1, <3>2
    <2> HIDE DEF S
    <2>3. Nat \subseteq S
        BY <2>1, <2>2, NatSetInduction
    <2> QED BY <2>3 DEF S
<1>7. \A i \in Nat : f[i + 1] = Go(i, f[i])
    BY <1>3, <1>4, <1>6
<1> DEFINE t == [i \in 0 .. N |-> f[i]]
<1>8. t = Def(t)
    <2>1. ASSUME NEW i \in 0 .. N PROVE t[i] = Def(t)[i]
        <3>1. CASE i = 0
            BY <1>3, <3>1
        <3>2. CASE i # 0
            <4>1. PICK n \in 0 .. N : i = n + 1 /\ i - 1 = n /\ n \in Nat
                <5>1. i - 1 \in 0 .. N /\ i = (i - 1) + 1 /\ i - 1 \in Nat
                    BY <1>1, <3>2
                <5> QED BY <5>1
            <4>2. t[i] = Go(n, t[n])
                BY <1>7, <4>1
            <4> HIDE DEF t
            <4> QED BY <3>2, <4>1, <4>2 DEF Go
        <3> QED BY <3>1, <3>2
    <2> QED BY <2>1
<1>9. g = Def(g)
    <2> HIDE DEF Def, t
    <2> QED BY <1>8
<1> HIDE DEF g
<1>10. \A i \in Nat : i <= N => g[i] = f[i]
    <2> DEFINE S == {i \in Nat : i <= N => g[i] = f[i]}
    <2>1. 0 \in S
        <3>1. g[0] = Def(g)[0]
            BY <1>9, Zenon
        <3>2. 0 \in 0 .. N
            BY <1>1
        <3> QED BY <1>3, <3>1, <3>2
    <2>2. ASSUME NEW i \in Nat, i \in S, i + 1 <= N PROVE g[i + 1] = f[i + 1]
        <3>1. g[i + 1] = Def(g)[i + 1]
            BY <1>9, Zenon
        <3>2. i + 1 \in 0 .. N /\ i + 1 # 0 /\ (i + 1) - 1 = i /\ i <= N
            BY <1>1, <2>2
        <3>3. g[i] = f[i]
            BY <2>2, <3>2
        <3>4. Def(g)[i + 1] = Go(i, g[i])
            BY <3>2 DEF Go
        <3> QED BY <1>7, <3>1, <3>3, <3>4
    <2>3. \A i \in S : i + 1 \in S
        BY <2>2
    <2> HIDE DEF S
    <2>4. Nat \subseteq S
        <3>1. S \subseteq Nat
            BY DEF S
        <3> QED BY <2>1, <2>3, <3>1, NatSetInduction
    <2> QED BY <2>4 DEF S
<1>11. Left(before, later) = g[N]
    BY DEF Left, g
<1>12. Is(N, g[N])
    BY <1>1, <1>6, <1>10
<1> QED BY <1>11, <1>12 DEF Is

-----------------------------------------------------------------------------
IsTidy(y, s) == y = Tidy(s)

\* Tidying forgets what was in nodes the queue does not lead to, and nothing else.
LEMMA TidyFacts ==
    ASSUME NEW s \in MessState, NEW C, NEW l, Ordered(s, C, l), NEW y, IsTidy(y, s)
    PROVE  /\ y \in MessState /\ Ordered(y, C, l)
           /\ y.queue = s.queue /\ y.result = s.result
           /\ \A n \in NodesOf(C) : y.owner[n] = s.owner[n] /\ y.waitsFor[n] = s.waitsFor[n]
           /\ \A n \in Node \ NodesOf(C) : y.owner[n] = Idle
           /\ \A m \in Message : ~Unused(s, m) => y.kind[m] = s.kind[m]
<1> DEFINE gone == Node \ Linked(s)
           V1 == [n \in Node |-> IF n \in gone THEN NoNode ELSE s.next[n]]
           V2 == [n \in Node |-> IF n \in gone THEN Idle ELSE s.owner[n]]
           V3 == [n \in Node |-> IF n \in gone THEN MESSAGE_TYPE_FIRST ELSE s.waitsFor[n]]
           V4 == [m \in Message |-> IF Unused(s, m) THEN MESSAGE_TYPE_FIRST ELSE s.kind[m]]
<1>1. /\ V1 \in [Node -> Node \cup {NoNode}] /\ V2 \in [Node -> Process]
      /\ V3 \in [Node -> Types] /\ V4 \in [Message -> Types]
    BY MessagesAssumption, SchedulerAssumption DEF MessState
<1>2. y = [s EXCEPT !.next = V1, !.owner = V2, !.waitsFor = V3, !.kind = V4]
    BY DEF IsTidy, Tidy, MessState
<1>3. Linked(s) = NodesOf(C) /\ NodesOf(C) \subseteq Node
    BY LinkedChain, OrderedFacts
<1>4. /\ \A n \in NodesOf(C) : V1[n] = s.next[n] /\ V2[n] = s.owner[n] /\ V3[n] = s.waitsFor[n]
      /\ \A n \in Node \ NodesOf(C) : V2[n] = Idle
      /\ \A m \in Message : ~Unused(s, m) => V4[m] = s.kind[m]
    BY <1>3
<1> HIDE DEF V1, V2, V3, V4
<1>5. /\ y \in MessState /\ y.first = s.first /\ y.last = s.last
      /\ y.queue = s.queue /\ y.result = s.result
      /\ y.next = V1 /\ y.owner = V2 /\ y.waitsFor = V3 /\ y.kind = V4
    BY <1>1, <1>2 DEF MessState
<1>6. \A i \in 1 .. Len(C) : C[i] \in NodesOf(C)
    BY DEF NodesOf, UpTo
<1>7. \A i \in 1 .. Len(C) : y.next[C[i]] = s.next[C[i]] /\ y.owner[C[i]] = s.owner[C[i]]
    BY <1>4, <1>5, <1>6
<1>8. Ordered(y, C, l)
    BY <1>5, <1>7 DEF Ordered
<1> QED BY <1>4, <1>5, <1>8

IsAdded(w, s, p, t) == w = AddProcessToQueue(s, p, t)

\* The nodes of s up to the last, and behind them node n for p, are those of w.
Entered(w, s, C, l, D, n, p, t) ==
    /\ w.owner = [s.owner EXCEPT ![n] = p]
    /\ w.waitsFor = [s.waitsFor EXCEPT ![n] = t]
    /\ Ordered(w, D, l + 1)
    /\ NodesOf(D) = UpTo(C, l) \cup {n}
    /\ UpTo(D, l + 1) = UpTo(C, l) \cup {n}

\* The queue is entered behind its last node; what was linked behind that is
\* lost.
LEMMA AddFacts ==
    ASSUME NEW s \in MessState, NEW C, NEW l, Ordered(s, C, l), Node \ Linked(s) # {},
           NEW p \in Process, NEW t \in Types, \A n \in UpTo(C, l) : s.owner[n] # p,
           NEW w, IsAdded(w, s, p, t)
    PROVE  /\ w \in MessState
           /\ w.queue = s.queue /\ w.kind = s.kind /\ w.result = s.result
           /\ \E n \in Node \ NodesOf(C) : \E D : Entered(w, s, C, l, D, n, p, t)
<1> DEFINE n == FreeNode(s)
           L == C[l]
           V1 == [s.next EXCEPT ![n] = NoNode]
           V2 == [s.owner EXCEPT ![n] = p]
           V3 == [s.waitsFor EXCEPT ![n] = t]
           v == [s EXCEPT !.owner[n] = p, !.waitsFor[n] = t, !.next[n] = NoNode]
<1>1. n \in Node /\ n \notin NodesOf(C)
    <2>1. Linked(s) = NodesOf(C)
        BY LinkedChain
    <2>2. \E x \in Node \ Linked(s) : \A z \in Node \ Linked(s) : x <= z
        <3> DEFINE S == Node \ Linked(s)
        <3>1. S \subseteq Nat /\ S # {}
            BY DEF Node
        <3> HIDE DEF S
        <3>2. \E x \in S : \A z \in S : x <= z
            BY <3>1, LeastOfNat
        <3> QED BY <3>2 DEF S
    <2>3. n \in Node \ Linked(s)
        BY <2>2 DEF FreeNode
    <2> QED BY <2>1, <2>3
<1> HIDE DEF n
<1>2. /\ V1 \in [Node -> Node \cup {NoNode}] /\ V2 \in [Node -> Process]
      /\ V3 \in [Node -> Types]
      /\ V1[n] = NoNode /\ V2[n] = p
      /\ \A x \in Node : x # n => V1[x] = s.next[x] /\ V2[x] = s.owner[x]
    BY <1>1 DEF MessState
<1>3. v = [s EXCEPT !.owner = V2, !.waitsFor = V3, !.next = V1]
    BY <1>1 DEF MessState
<1>4. /\ v \in MessState /\ v.first = s.first /\ v.last = s.last
      /\ v.queue = s.queue /\ v.result = s.result /\ v.kind = s.kind
      /\ v.next = V1 /\ v.owner = V2 /\ v.waitsFor = V3
    <2> HIDE DEF V1, V2, V3
    <2> QED BY <1>2, <1>3 DEF MessState
<1>5. w = IF v.first = NoNode /\ v.last = NoNode
          THEN [v EXCEPT !.first = n, !.last = n]
          ELSE [v EXCEPT !.next[v.last] = n, !.last = n]
    BY DEF IsAdded, AddProcessToQueue, n
<1> HIDE DEF v
<1>6. /\ Len(C) \in Nat /\ l \in Nat /\ l <= Len(C) /\ (l = 0 <=> Len(C) = 0)
      /\ \A i \in 1 .. Len(C) : C[i] \in Node /\ C[i] # NoNode /\ C[i] # n
      /\ \A i, j \in 1 .. Len(C) : C[i] = C[j] => i = j
      /\ \A i \in 1 .. l : i \in 1 .. Len(C)
    <2>1. \A i \in 1 .. Len(C) : C[i] # n
        BY <1>1 DEF NodesOf, UpTo
    <2>2. l = 0 <=> Len(C) = 0
        BY DEF Ordered
    <2>3. /\ Len(C) \in Nat /\ l \in Nat /\ l <= Len(C)
          /\ \A i \in 1 .. Len(C) : C[i] \in Node /\ C[i] # NoNode
          /\ \A i, j \in 1 .. Len(C) : C[i] = C[j] => i = j
        BY OrderedFacts
    <2>4. \A i \in 1 .. l : i \in 1 .. Len(C)
        BY <2>3
    <2> QED BY <2>1, <2>2, <2>3, <2>4
<1>7. /\ w \in MessState /\ w.queue = s.queue /\ w.result = s.result /\ w.kind = s.kind
      /\ w.owner = V2 /\ w.waitsFor = V3 /\ w.last = n
      /\ w.first = IF l = 0 THEN n ELSE C[1]
      /\ l = 0 => w.next = V1
      /\ l # 0 => w.next = [V1 EXCEPT ![L] = n]
    <2>1. CASE l = 0
        <3>1. v.first = NoNode /\ v.last = NoNode
            BY <1>4, <2>1 DEF Ordered
        <3>2. w = [v EXCEPT !.first = n, !.last = n]
            BY <1>5, <3>1
        <3> HIDE DEF V1, V2, V3
        <3>3. /\ w \in MessState /\ w.queue = v.queue /\ w.result = v.result /\ w.kind = v.kind
              /\ w.owner = v.owner /\ w.waitsFor = v.waitsFor /\ w.next = v.next
              /\ w.first = n /\ w.last = n
            BY <1>1, <1>4, <3>2 DEF MessState
        <3> QED BY <1>4, <2>1, <3>3
    <2>2. CASE l # 0
        <3>1. L \in Node /\ L # NoNode /\ v.last = L /\ v.first = C[1]
            BY <1>4, <1>6, <2>2 DEF Ordered
        <3> DEFINE V4 == [V1 EXCEPT ![L] = n]
        <3>2. V4 \in [Node -> Node \cup {NoNode}]
            BY <1>1, <1>2
        <3>3. w = [v EXCEPT !.next = V4, !.last = n]
            <4> HIDE DEF V1, L
            <4> QED BY <1>4, <1>5, <3>1 DEF MessState
        <3> HIDE DEF V1, V2, V3, V4
        <3>4. /\ w \in MessState /\ w.queue = v.queue /\ w.result = v.result /\ w.kind = v.kind
              /\ w.owner = v.owner /\ w.waitsFor = v.waitsFor /\ w.next = V4
              /\ w.first = v.first /\ w.last = n
            BY <1>1, <1>4, <3>2, <3>3 DEF MessState
        <3> QED BY <1>4, <2>2, <3>1, <3>4 DEF V4
    <2> QED BY <2>1, <2>2
<1> DEFINE D == [i \in 1 .. l + 1 |-> IF i <= l THEN C[i] ELSE n]
<1>8. /\ D \in Seq(Node) /\ Len(D) = l + 1 /\ D[l + 1] = n
      /\ \A i \in 1 .. l : D[i] = C[i] /\ i # l + 1 /\ i \in 1 .. l + 1
      /\ \A i \in 1 .. l + 1 : i \in 1 .. l \/ i = l + 1
    BY <1>1, <1>6
<1> HIDE DEF D
<1>9. /\ w.owner[n] = p
      /\ \A i \in 1 .. l : w.owner[C[i]] = s.owner[C[i]] /\ s.owner[C[i]] # p
    BY <1>2, <1>6, <1>7 DEF UpTo
<1>10. /\ w.next[n] = NoNode
       /\ \A i \in 1 .. l : w.next[C[i]] = IF i = l THEN n ELSE C[i + 1]
    <2>1. CASE l = 0
        BY <1>2, <1>7, <2>1
    <2>2. CASE l # 0
        <3>1. L \in Node /\ L # n /\ l \in 1 .. Len(C)
            BY <1>6, <2>2
        <3>2. w.next[n] = NoNode
            BY <1>1, <1>2, <1>7, <2>2, <3>1
        <3>3. ASSUME NEW i \in 1 .. l PROVE w.next[C[i]] = IF i = l THEN n ELSE C[i + 1]
            <4>1. C[i] \in Node /\ C[i] # n /\ i \in 1 .. Len(C) /\ (C[i] = L <=> i = l)
                BY <1>6, <3>1
            <4>2. i # l => s.next[C[i]] = C[i + 1]
                <5>1. i # l => i # Len(C)
                    BY <1>6
                <5> QED BY <4>1, <5>1 DEF Ordered
            <4> QED BY <1>2, <1>7, <2>2, <4>1, <4>2
        <3> QED BY <3>2, <3>3
    <2> QED BY <2>1, <2>2
<1>11. Ordered(w, D, l + 1)
    <2>1. w.first = IF l + 1 = 0 THEN NoNode ELSE D[1]
        <3>1. l + 1 # 0 /\ 1 \in 1 .. l + 1 /\ (l # 0 => 1 \in 1 .. l) /\ (l = 0 => l + 1 = 1)
            BY <1>6
        <3> QED BY <1>7, <1>8, <3>1
    <2>2. ASSUME NEW i \in 1 .. l + 1
          PROVE  w.next[D[i]] = IF i = l + 1 THEN NoNode ELSE D[i + 1]
        <3>1. CASE i = l + 1
            BY <1>8, <1>10, <3>1
        <3>2. CASE i \in 1 .. l /\ i # l + 1
            <4>1. D[i + 1] = IF i = l THEN n ELSE C[i + 1]
                <5>1. i # l => i + 1 \in 1 .. l
                    BY <1>6, <3>2
                <5> QED BY <1>8, <5>1
            <4> QED BY <1>8, <1>10, <3>2, <4>1
        <3> QED BY <1>8, <3>1, <3>2
    <2>3. ASSUME NEW i \in 1 .. l + 1, NEW j \in 1 .. l + 1, w.owner[D[i]] = w.owner[D[j]]
          PROVE  i = j
        <3>1. \A x \in 1 .. l : w.owner[D[x]] = s.owner[C[x]] /\ w.owner[D[x]] # w.owner[D[l + 1]]
            BY <1>8, <1>9
        <3>2. CASE i \in 1 .. l /\ j \in 1 .. l
            BY <1>6, <2>3, <3>1, <3>2 DEF Ordered
        <3>3. CASE ~(i \in 1 .. l /\ j \in 1 .. l)
            BY <1>8, <2>3, <3>1, <3>3
        <3> QED BY <3>2, <3>3
    <2>4. w.last = IF l + 1 = 0 THEN NoNode ELSE D[l + 1]
        BY <1>6, <1>7, <1>8
    <2>5. l + 1 \in 0 .. Len(D) /\ (l + 1 = 0 <=> Len(D) = 0)
        BY <1>6, <1>8
    <2> QED BY <1>8, <2>1, <2>2, <2>3, <2>4, <2>5 DEF Ordered
<1>12. UpTo(D, l + 1) = UpTo(C, l) \cup {n}
    <2>1. ASSUME NEW x \in UpTo(D, l + 1) PROVE x \in UpTo(C, l) \cup {n}
        BY <1>8 DEF UpTo
    <2>2. ASSUME NEW x \in UpTo(C, l) PROVE x \in UpTo(D, l + 1)
        BY <1>8 DEF UpTo
    <2>3. n \in UpTo(D, l + 1)
        <3>1. l + 1 \in 1 .. l + 1
            BY <1>6
        <3> QED BY <1>8, <3>1 DEF UpTo
    <2> QED BY <2>1, <2>2, <2>3
<1>13. NodesOf(D) = UpTo(C, l) \cup {n}
    BY <1>8, <1>12 DEF NodesOf
<1>14. Entered(w, s, C, l, D, n, p, t)
    BY <1>7, <1>11, <1>12, <1>13 DEF Entered, V2, V3
<1> QED BY <1>1, <1>7, <1>14

-----------------------------------------------------------------------------
\* The queue of receivers is in order: up to its last node it holds those that
\* wait, each once, and processes killed while they waited.
Lined(k, s, C, l) ==
    /\ Ordered(s, C, l)
    /\ \A n \in UpTo(C, l) : InReceive(k, s.owner[n]) \/ s.owner[n] \notin k.scheduled
    /\ \A p : InReceive(k, p) => \E n \in UpTo(C, l) : s.owner[n] = p

\* No message is twice on a queue, and nobody waits for a second message.
Mailed(k, s) ==
    \A p \in Process :
        IsInjective(s.queue[p]) /\ (InReceive(k, p) => s.result[p] = NoMessage)

\* Nodes the queue does not lead to are forgotten.
LinedUp(k, s) ==
    \E C, l : Lined(k, s, C, l) /\ \A n \in Node \ NodesOf(C) : s.owner[n] = Idle

\* The inductive invariant.
Orderly(k, s) == Quiet(k) /\ s \in MessState /\ Mailed(k, s) /\ LinedUp(k, s)

\* The same processes receive in k and in r, but those in P.
ReceiversBut(k, r, P) ==
    /\ r.scheduled \subseteq k.scheduled
    /\ \A x : InReceive(r, x) <=> InReceive(k, x) /\ x \notin P

LEMMA LinedStep ==
    ASSUME NEW k, NEW s, NEW C, NEW l, Lined(k, s, C, l),
           NEW r, NEW D, NEW d, Ordered(r, D, d), r.owner = s.owner, NEW P,
           \A n : n \in UpTo(D, d) <=> n \in UpTo(C, l) /\ s.owner[n] \notin P,
           NEW k2, ReceiversBut(k, k2, P)
    PROVE  Lined(k2, r, D, d)
<1>1. ASSUME NEW n \in UpTo(D, d)
      PROVE  InReceive(k2, r.owner[n]) \/ r.owner[n] \notin k2.scheduled
    BY DEF Lined, ReceiversBut
<1>2. ASSUME NEW p, InReceive(k2, p) PROVE \E n \in UpTo(D, d) : r.owner[n] = p
    <2>1. InReceive(k, p) /\ p \notin P
        BY <1>2 DEF ReceiversBut
    <2>2. PICK n \in UpTo(C, l) : s.owner[n] = p
        BY <2>1 DEF Lined
    <2> QED BY <2>1, <2>2
<1> QED BY <1>1, <1>2 DEF Lined

\* The queue itself does not change.
LEMMA LinedSame ==
    ASSUME NEW k, NEW s, NEW C, NEW l, Lined(k, s, C, l),
           NEW r, r.first = s.first, r.last = s.last, r.next = s.next, r.owner = s.owner,
           NEW k2, ReceiversBut(k, k2, {x \in Process : x \notin k2.scheduled})
    PROVE  Lined(k2, r, C, l)
<1>1. Ordered(r, C, l)
    BY DEF Lined, Ordered
<1>2. ASSUME NEW n \in UpTo(C, l)
      PROVE  InReceive(k2, r.owner[n]) \/ r.owner[n] \notin k2.scheduled
    BY DEF Lined, ReceiversBut
<1>3. ASSUME NEW p, InReceive(k2, p) PROVE \E n \in UpTo(C, l) : r.owner[n] = p
    BY <1>3 DEF Lined, ReceiversBut
<1> QED BY <1>1, <1>2, <1>3 DEF Lined

LEMMA TidyOrderly ==
    ASSUME NEW k, Quiet(k), NEW s \in MessState, Mailed(k, s), NEW C, NEW l, Lined(k, s, C, l),
           NEW y, IsTidy(y, s)
    PROVE  Orderly(k, y)
<1>1. Ordered(s, C, l)
    BY DEF Lined
<1>2. /\ y \in MessState /\ Ordered(y, C, l)
      /\ y.queue = s.queue /\ y.result = s.result
      /\ \A n \in NodesOf(C) : y.owner[n] = s.owner[n]
      /\ \A n \in Node \ NodesOf(C) : y.owner[n] = Idle
    BY <1>1, TidyFacts
<1>3. \A n \in UpTo(C, l) : y.owner[n] = s.owner[n]
    BY <1>1, <1>2, OrderedFacts
<1>4. Lined(k, y, C, l)
    BY <1>2, <1>3 DEF Lined
<1>5. Mailed(k, y)
    BY <1>2 DEF Mailed
<1> QED BY <1>2, <1>4, <1>5 DEF Orderly, LinedUp

\* The mail of process c: its queue, and the message it got last.
Mail(s, c, q, m) == [s EXCEPT !.queue[c] = q, !.result[c] = m]

LEMMA MailFacts ==
    ASSUME NEW s \in MessState, NEW c \in Process, NEW q \in Seq(Message),
           NEW m \in Message \cup {NoMessage}, NEW r, r = Mail(s, c, q, m)
    PROVE  /\ r \in MessState
           /\ r.first = s.first /\ r.last = s.last /\ r.next = s.next /\ r.owner = s.owner
           /\ r.waitsFor = s.waitsFor /\ r.kind = s.kind
           /\ r.queue[c] = q /\ r.result[c] = m
           /\ \A p \in Process : p # c => r.queue[p] = s.queue[p] /\ r.result[p] = s.result[p]
<1> DEFINE V1 == [s.queue EXCEPT ![c] = q]
           V2 == [s.result EXCEPT ![c] = m]
<1>1. /\ V1 \in [Process -> Seq(Message)] /\ V2 \in [Process -> Message \cup {NoMessage}]
      /\ V1[c] = q /\ V2[c] = m
      /\ \A p \in Process : p # c => V1[p] = s.queue[p] /\ V2[p] = s.result[p]
    BY DEF MessState
<1>2. r = [s EXCEPT !.queue = V1, !.result = V2]
    BY DEF Mail, MessState
<1> HIDE DEF V1, V2
<1> QED BY <1>1, <1>2 DEF MessState

LEMMA QueuedFacts ==
    ASSUME NEW s \in MessState, NEW c \in Process, NEW m \in Message, NEW r, r = Queued(s, c, m)
    PROVE  /\ r \in MessState
           /\ r.first = s.first /\ r.last = s.last /\ r.next = s.next /\ r.owner = s.owner
           /\ r.waitsFor = s.waitsFor /\ r.kind = s.kind /\ r.result = s.result
           /\ r.queue[c] = Append(s.queue[c], m)
           /\ \A p \in Process : p # c => r.queue[p] = s.queue[p]
<1> DEFINE V == [s.queue EXCEPT ![c] = Append(s.queue[c], m)]
<1>1. s.queue[c] \in Seq(Message) /\ Append(s.queue[c], m) \in Seq(Message)
    BY DEF MessState
<1>2. /\ V \in [Process -> Seq(Message)] /\ V[c] = Append(s.queue[c], m)
      /\ \A p \in Process : p # c => V[p] = s.queue[p]
    BY <1>1 DEF MessState
<1>3. r = [s EXCEPT !.queue = V]
    BY DEF Queued, MessState
<1> HIDE DEF V
<1> QED BY <1>2, <1>3 DEF MessState

\* A message is taken out of a queue.
LEMMA UnlinkMessage ==
    ASSUME NEW q \in Seq(Message), IsInjective(q), NEW m
    PROVE  /\ Unlink(q, m) \in Seq(Message) /\ IsInjective(Unlink(q, m))
           /\ \A x : Contains(Unlink(q, m), x) <=> Contains(q, x) /\ x # m
<1>1. CASE Contains(q, m)
    <2>1. DOMAIN q = 1 .. Len(q)
        OBVIOUS
    <2>2. Position(q, m) \in DOMAIN q /\ q[Position(q, m)] = m
        BY <1>1, <2>1 DEF Contains, Position
    <2> QED BY <1>1, <2>2, RemoveAtFacts DEF Unlink
<1>2. CASE ~Contains(q, m)
    BY <1>2 DEF Unlink
<1> QED BY <1>1, <1>2

-----------------------------------------------------------------------------
\* The nodes keep their order when the mail of a process changes.
LEMMA MailOrderly ==
    ASSUME NEW k, NEW s, Orderly(k, s),
           NEW k2, Quiet(k2), ReceiversBut(k, k2, {x \in Process : x \notin k2.scheduled}),
           NEW c \in Process, NEW q \in Seq(Message), IsInjective(q),
           NEW m \in Message \cup {NoMessage}, ~InReceive(k2, c) \/ m = NoMessage,
           NEW r, r = Mail(s, c, q, m), NEW y, IsTidy(y, r)
    PROVE  Orderly(k2, y)
<1>1. s \in MessState /\ Mailed(k, s) /\ LinedUp(k, s)
    BY DEF Orderly
<1>2. PICK C, l : Lined(k, s, C, l)
    BY <1>1 DEF LinedUp
<1>3. /\ r \in MessState
      /\ r.first = s.first /\ r.last = s.last /\ r.next = s.next /\ r.owner = s.owner
      /\ r.queue[c] = q /\ r.result[c] = m
      /\ \A p \in Process : p # c => r.queue[p] = s.queue[p] /\ r.result[p] = s.result[p]
    BY <1>1, MailFacts
<1>4. Lined(k2, r, C, l)
    BY <1>2, <1>3, LinedSame
<1>5. ASSUME NEW p \in Process
      PROVE  IsInjective(r.queue[p]) /\ (InReceive(k2, p) => r.result[p] = NoMessage)
    <2>1. InReceive(k2, p) => InReceive(k, p)
        BY DEF ReceiversBut
    <2>2. CASE p = c
        BY <1>3, <2>2
    <2>3. CASE p # c
        BY <1>1, <1>3, <2>1, <2>3 DEF Mailed
    <2> QED BY <2>2, <2>3
<1>6. Mailed(k2, r)
    BY <1>5 DEF Mailed
<1> QED BY <1>3, <1>4, <1>6, TidyOrderly

\* A process that has ended was on the list no more.
LEMMA CreateOrderly ==
    ASSUME Orderly(ke, mess), NEW p \in Process, NEW prio \in Priorities, Create(p, prio)
    PROVE  Orderly(ke', mess')
<1>1. Quiet(ke) /\ mess \in MessState /\ Mailed(ke, mess) /\ LinedUp(ke, mess)
    BY DEF Orderly
<1>2. /\ p \notin ke.scheduled /\ mess' = mess
      /\ ke' = KeStartSchedulingProcess(NewProcess(ke, p, prio), p)
      /\ \A n \in Linked(mess) : mess.owner[n] # p
    BY DEF Create, StartProcess
<1>3. /\ Quiet(ke') /\ ke'.scheduled = ke.scheduled \cup {p}
      /\ ke'.timer = ke.timer /\ ke'.method = ke.method
    BY <1>1, <1>2, StartQuiet
<1>4. ~Contains(ke.timer, p)
    BY <1>1, <1>2, QuietFacts
<1>5. \A x : InReceive(ke', x) <=> InReceive(ke, x)
    BY <1>3, <1>4 DEF InReceive
<1>6. PICK C, l : Lined(ke, mess, C, l) /\ \A n \in Node \ NodesOf(C) : mess.owner[n] = Idle
    BY <1>1 DEF LinedUp
<1>7. Ordered(mess, C, l)
    BY <1>6 DEF Lined
<1>8. UpTo(C, l) \subseteq Linked(mess)
    BY <1>7, LinkedChain, OrderedFacts
<1>9. Lined(ke', mess, C, l)
    BY <1>2, <1>3, <1>5, <1>6, <1>8 DEF Lined
<1>10. Mailed(ke', mess)
    BY <1>1, <1>5 DEF Mailed
<1> QED BY <1>1, <1>2, <1>3, <1>6, <1>9, <1>10 DEF Orderly, LinedUp

\* The mail of a dead process is thrown away; its nodes stay where they are.
LEMMA DeadOrderly ==
    ASSUME Orderly(ke, mess), NEW k, Quiet(k), NEW p \in Process, p \notin k.scheduled,
           k.scheduled = ke.scheduled \ {p}, SleepersBut(ke, k, p),
           NEW left \in States, left # "running",
           ke' = [k EXCEPT !.state[p] = left, !.priority[p] = 0],
           Becomes(MessDeleteMessageQueue(mess, p))
    PROVE  Orderly(ke', mess')
<1> DEFINE e == [k EXCEPT !.state[p] = left, !.priority[p] = 0]
           r == MessDeleteMessageQueue(mess, p)
<1>1. Quiet(ke) /\ ke' = e /\ IsTidy(mess', r)
    BY DEF Orderly, Becomes, IsTidy
<1>2. ke.scheduled \subseteq Process
    BY <1>1, QuietFacts
<1>3. Quiet(e) /\ e.scheduled = k.scheduled /\ e.timer = k.timer /\ e.method = k.method
    BY ForgetQuiet
<1>4. r = Mail(mess, p, <<>>, NoMessage)
    BY DEF MessDeleteMessageQueue, Mail
<1> HIDE DEF e, r
<1>5. ReceiversBut(ke, ke', {x \in Process : x \notin ke'.scheduled})
    BY <1>1, <1>2, <1>3 DEF ReceiversBut, InReceive, SleepersBut
<1>6. <<>> \in Seq(Message) /\ IsInjective(<<>>)
    BY DEF IsInjective
<1>7. ReceiversBut(ke, ke', {x \in Process : x \notin ke'.scheduled}) /\ Quiet(ke')
    BY <1>1, <1>3, <1>5
<1> QED BY <1>1, <1>4, <1>6, <1>7, MailOrderly

\* What a kill leaves of p.
LEMMA KillLeaves ==
    ASSUME Quiet(ke), NEW p \in Process, Kill(p)
    PROVE  \E k : \E left \in States \ {"running"} :
              /\ Quiet(k) /\ p \notin k.scheduled
              /\ k.scheduled = ke.scheduled \ {p} /\ SleepersBut(ke, k, p)
              /\ ke' = [k EXCEPT !.state[p] = left, !.priority[p] = 0]
<1> DEFINE k == KeStopSchedulingProcess(ke, p)
<1>1. ke.current # Idle /\ p \in ke.scheduled /\ p # Idle
    BY DEF Kill, Calls
<1>2. PICK left \in {k.state[p], "created"} :
          ke' = [k EXCEPT !.state[p] = left, !.priority[p] = 0]
    BY DEF Kill
<1>3. Quiet(k) /\ k.scheduled = ke.scheduled \ {p} /\ SleepersBut(ke, k, p)
    BY <1>1, StopQuiet
<1> HIDE DEF k
<1>4. k.state[p] \in States \ {"running"}
    <2>1. k \in KeState /\ DeadDoNotRun(k)
        BY <1>3, QuietFacts DEF Quiet, Healthy, Alive
    <2> QED BY <1>3, <2>1 DEF DeadDoNotRun, KeState
<1>5. left \in States \ {"running"}
    BY <1>2, <1>4 DEF States
<1> QED BY <1>2, <1>3, <1>5

LEMMA KillOrderly ==
    ASSUME Orderly(ke, mess), NEW p \in Process, Kill(p)
    PROVE  Orderly(ke', mess')
<1>1. Quiet(ke)
    BY DEF Orderly
<1>2. PICK k : \E left \in States \ {"running"} :
          /\ Quiet(k) /\ p \notin k.scheduled
          /\ k.scheduled = ke.scheduled \ {p} /\ SleepersBut(ke, k, p)
          /\ ke' = [k EXCEPT !.state[p] = left, !.priority[p] = 0]
    BY <1>1, KillLeaves
<1>3. Becomes(MessDeleteMessageQueue(mess, p))
    BY DEF Kill
<1> QED BY <1>2, <1>3, DeadOrderly

LEMMA LastReferenceOrderly ==
    ASSUME Orderly(ke, mess), NEW p \in Process, LastReference(p)
    PROVE  Orderly(ke', mess')
<1>1. /\ Quiet(ke) /\ p \notin ke.scheduled /\ "created" \in States
      /\ ke' = [ke EXCEPT !.state[p] = "created", !.priority[p] = 0]
      /\ Becomes(MessDeleteMessageQueue(mess, p))
    BY DEF Orderly, LastReference, States
<1>2. ~Contains(ke.timer, p)
    BY <1>1, QuietFacts
<1>3. ke.scheduled = ke.scheduled \ {p} /\ SleepersBut(ke, ke, p)
    BY <1>1, <1>2 DEF SleepersBut
<1> QED BY <1>1, <1>3, DeadOrderly

\* The receivers when the current process is suspended, to receive or to sleep.
LEMMA SuspendedReceivers ==
    ASSUME Quiet(ke), ke.current # Idle, NEW ms \in Ulong, NEW resume \in BOOLEAN,
           NEW k, k = KeSuspendProcess(ke, ms, resume)
    PROVE  /\ Quiet(k) /\ k.scheduled = ke.scheduled
           /\ ke.current \in Process /\ ke.current \in ke.scheduled
           /\ ~InReceive(ke, ke.current)
           /\ \A x : InReceive(k, x) <=> InReceive(ke, x) \/ (x = ke.current /\ resume)
<1> DEFINE c == ke.current
<1>1. /\ Quiet(k) /\ k.scheduled = ke.scheduled
      /\ \A x : Contains(k.timer, x) <=> Contains(ke.timer, x) \/ x = c
      /\ k.method = [ke.method EXCEPT ![c] = resume]
    BY SuspendQuiet
<1>2. /\ ke \in KeState /\ c \in ke.scheduled /\ ke.scheduled \subseteq Process
      /\ ~Contains(ke.timer, c)
    BY QuietFacts
<1>3. ke.method \in [Process -> BOOLEAN]
    BY <1>2 DEF KeState
<1>4. k.method[c] = resume /\ \A x \in Process : x # c => k.method[x] = ke.method[x]
    BY <1>1, <1>2, <1>3
<1>5. ASSUME NEW x PROVE InReceive(k, x) <=> InReceive(ke, x) \/ (x = c /\ resume)
    <2>1. CASE x = c
        BY <1>1, <1>2, <1>4, <2>1 DEF InReceive
    <2>2. CASE x # c
        BY <1>1, <1>2, <1>4, <2>2 DEF InReceive
    <2> QED BY <2>1, <2>2
<1> QED BY <1>1, <1>2, <1>5 DEF InReceive

\* A process that sleeps does not wait for a message.
LEMMA SleepOrderly ==
    ASSUME Orderly(ke, mess), NEW ms \in Sleeps, Sleep(ms)
    PROVE  Orderly(ke', mess')
<1>1. /\ Quiet(ke) /\ mess \in MessState /\ Mailed(ke, mess) /\ LinedUp(ke, mess)
      /\ ke.current # Idle /\ ke' = KeSuspendProcess(ke, ms, FALSE) /\ mess' = mess
      /\ ms \in Ulong
    BY SchedulerAssumption DEF Orderly, Sleep, Calls
<1>2. /\ Quiet(ke') /\ ke'.scheduled = ke.scheduled
      /\ \A x : InReceive(ke', x) <=> InReceive(ke, x)
    BY <1>1, SuspendedReceivers
<1>3. PICK C, l : Lined(ke, mess, C, l) /\ \A n \in Node \ NodesOf(C) : mess.owner[n] = Idle
    BY <1>1 DEF LinedUp
<1>4. Lined(ke', mess, C, l)
    BY <1>2, <1>3 DEF Lined
<1>5. Mailed(ke', mess)
    BY <1>1, <1>2 DEF Mailed
<1> QED BY <1>1, <1>2, <1>3, <1>4, <1>5 DEF Orderly, LinedUp

\* No receiver is off the list of receivers while the scheduler stays as it is.
LEMMA SameReceivers ==
    ASSUME NEW k, NEW P, \A x \in P : ~InReceive(k, x)
    PROVE  ReceiversBut(k, k, P)
BY DEF ReceiversBut

\* A message leaves the queue of the current process.
LEMMA TakeOrderly ==
    ASSUME Orderly(ke, mess), NEW m \in Message \cup {NoMessage}, NEW rest \in Seq(Message),
           IsInjective(rest), ke' = ke, NEW y,
           IsTidy(y, [mess EXCEPT !.queue[ke.current] = rest, !.result[ke.current] = m])
    PROVE  Orderly(ke', y)
<1> DEFINE c == ke.current
           r == [mess EXCEPT !.queue[c] = rest, !.result[c] = m]
<1>1. Quiet(ke)
    BY DEF Orderly
<1>2. c \in Process /\ ~InReceive(ke, c)
    BY <1>1, QuietFacts DEF InReceive
<1>3. ReceiversBut(ke, ke, {x \in Process : x \notin ke.scheduled})
    BY SameReceivers DEF InReceive
<1>4. r = Mail(mess, c, rest, m)
    BY DEF Mail
<1>5. IsTidy(y, r)
    OBVIOUS
<1> HIDE DEF r, c
<1>6. Orderly(ke, y)
    BY <1>1, <1>2, <1>3, <1>4, <1>5, MailOrderly
<1> QED BY <1>6

\* The current process waits behind the last receiver.
LEMMA WaitOrderly ==
    ASSUME Orderly(ke, mess), ke.current # Idle, mess.result[ke.current] = NoMessage,
           NEW ms \in TimeOuts, NEW t \in Types, Wait(ms, t)
    PROVE  Orderly(ke', mess')
<1> DEFINE c == ke.current
           w == AddProcessToQueue(mess, c, t)
<1>1. /\ Quiet(ke) /\ mess \in MessState /\ Mailed(ke, mess) /\ LinedUp(ke, mess)
      /\ Node \ Linked(mess) # {} /\ ke' = KeSuspendProcess(ke, ms, TRUE)
      /\ ms \in Ulong
    BY MessagesAssumption DEF Orderly, Wait
<1>2. IsTidy(mess', w) /\ IsAdded(w, mess, c, t)
    BY DEF Wait, Becomes, IsTidy, IsAdded
<1>3. /\ Quiet(ke') /\ ke'.scheduled = ke.scheduled
      /\ c \in Process /\ c \in ke.scheduled /\ ~InReceive(ke, c)
      /\ \A x : InReceive(ke', x) <=> InReceive(ke, x) \/ x = c
    <2> HIDE DEF w
    <2>1. TRUE \in BOOLEAN /\ ke.current # Idle
        OBVIOUS
    <2>2. /\ Quiet(ke') /\ ke'.scheduled = ke.scheduled
          /\ ke.current \in Process /\ ke.current \in ke.scheduled
          /\ ~InReceive(ke, ke.current)
          /\ \A x : InReceive(ke', x) <=> InReceive(ke, x) \/ (x = ke.current /\ TRUE)
        BY <1>1, <2>1, SuspendedReceivers
    <2> QED BY <2>2
<1> HIDE DEF w
<1>4. PICK C, l : Lined(ke, mess, C, l)
    BY <1>1 DEF LinedUp
<1>5. /\ Ordered(mess, C, l)
      /\ \A n \in UpTo(C, l) : mess.owner[n] # c
    BY <1>3, <1>4 DEF Lined
<1>6. /\ w \in MessState
      /\ w.queue = mess.queue /\ w.result = mess.result
      /\ \E n \in Node \ NodesOf(C) : \E D : Entered(w, mess, C, l, D, n, c, t)
    BY <1>1, <1>2, <1>3, <1>5, AddFacts
<1>7. PICK n \in Node \ NodesOf(C) : \E D : Entered(w, mess, C, l, D, n, c, t)
    BY <1>6
<1>8. PICK D : Entered(w, mess, C, l, D, n, c, t)
    BY <1>7
<1>9. UpTo(C, l) \subseteq Node /\ n \notin UpTo(C, l)
    BY <1>5, OrderedFacts
<1>10. /\ Ordered(w, D, l + 1)
       /\ UpTo(D, l + 1) = UpTo(C, l) \cup {n}
       /\ w.owner[n] = c /\ \A x \in UpTo(C, l) : w.owner[x] = mess.owner[x]
    BY <1>1, <1>8, <1>9 DEF MessState, Entered
<1>11. ASSUME NEW x \in UpTo(D, l + 1)
       PROVE  InReceive(ke', w.owner[x]) \/ w.owner[x] \notin ke'.scheduled
    BY <1>3, <1>4, <1>10 DEF Lined
<1>12. ASSUME NEW p, InReceive(ke', p) PROVE \E x \in UpTo(D, l + 1) : w.owner[x] = p
    <2>1. CASE p = c
        BY <1>10, <2>1
    <2>2. CASE p # c
        <3>1. PICK x \in UpTo(C, l) : mess.owner[x] = p
            BY <1>3, <1>4, <1>12, <2>2 DEF Lined
        <3> QED BY <1>10, <3>1
    <2> QED BY <2>1, <2>2
<1>13. Lined(ke', w, D, l + 1)
    BY <1>10, <1>11, <1>12 DEF Lined
<1>14. Mailed(ke', w)
    BY <1>1, <1>3, <1>6 DEF Mailed
<1> QED BY <1>2, <1>3, <1>6, <1>13, <1>14, TidyOrderly

LEMMA ReceiveFirstOrderly ==
    ASSUME Orderly(ke, mess), NEW ms \in TimeOuts, MessReceiveFirst(ms)
    PROVE  Orderly(ke', mess')
<1> DEFINE q == mess.queue[ke.current]
<1>1. ke.current # Idle /\ mess.result[ke.current] = NoMessage
    BY DEF MessReceiveFirst, Receives, Calls
<1>2. q \in Seq(Message) /\ IsInjective(q)
    BY QuietFacts DEF Orderly, MessState, Mailed
<1>3. CASE q = <<>>
    <2>1. Wait(ms, MESSAGE_TYPE_FIRST) /\ MESSAGE_TYPE_FIRST \in Types
        BY <1>3, MessagesAssumption DEF MessReceiveFirst
    <2> QED BY <1>1, <2>1, WaitOrderly
<1>4. CASE q # <<>>
    <2>1. Take(Head(q), Tail(q))
        BY <1>4 DEF MessReceiveFirst
    <2>2. Head(q) \in Message /\ Tail(q) \in Seq(Message) /\ IsInjective(Tail(q))
        BY <1>2, <1>4, TailFacts
    <2> HIDE DEF q
    <2>3. /\ ke' = ke
          /\ IsTidy(mess', [mess EXCEPT !.queue[ke.current] = Tail(q),
                                        !.result[ke.current] = Head(q)])
        BY <2>1 DEF Take, Becomes, IsTidy
    <2> QED BY <2>2, <2>3, TakeOrderly
<1> QED BY <1>3, <1>4

LEMMA ReceiveTypeOrderly ==
    ASSUME Orderly(ke, mess), NEW ms \in TimeOuts, NEW t \in Types, MessReceiveType(ms, t)
    PROVE  Orderly(ke', mess')
<1> DEFINE q == mess.queue[ke.current]
           found == {i \in DOMAIN q : mess.kind[q[i]] = t}
<1>1. ke.current # Idle /\ mess.result[ke.current] = NoMessage
    BY DEF MessReceiveType, Receives, Calls
<1>2. q \in Seq(Message) /\ IsInjective(q)
    BY QuietFacts DEF Orderly, MessState, Mailed
<1>3. CASE Wait(ms, t)
    BY <1>1, <1>3, WaitOrderly
<1>4. CASE ~Wait(ms, t)
    <2>1. PICK i \in found : Take(q[i], SubSeq(q, 1, i - 1))
        BY <1>4 DEF MessReceiveType
    <2> DEFINE rest == SubSeq(q, 1, i - 1)
    <2> HIDE DEF q
    <2>2. i \in 1 .. Len(q) /\ q[i] \in Message
        BY <1>2
    <2>3. /\ rest \in Seq(Message) /\ Len(rest) = i - 1
          /\ \A j \in 1 .. i - 1 : rest[j] = q[j]
        BY <1>2, <2>2
    <2>4. DOMAIN rest = 1 .. i - 1 /\ DOMAIN q = 1 .. Len(q)
        BY <1>2, <2>2, <2>3
    <2>5. 1 .. i - 1 \subseteq 1 .. Len(q)
        BY <1>2, <2>2
    <2> HIDE DEF rest
    <2>6. IsInjective(rest)
        BY <1>2, <2>3, <2>4, <2>5 DEF IsInjective
    <2>7. /\ ke' = ke
          /\ IsTidy(mess', [mess EXCEPT !.queue[ke.current] = rest,
                                        !.result[ke.current] = q[i]])
        BY <2>1 DEF Take, Becomes, IsTidy, rest
    <2> QED BY <2>2, <2>3, <2>6, <2>7, TakeOrderly
<1> QED BY <1>3, <1>4

LEMMA DeleteOrderly ==
    ASSUME Orderly(ke, mess), MessDeleteMessage
    PROVE  Orderly(ke', mess')
<1> DEFINE q == mess.queue[ke.current]
           m == mess.result[ke.current]
           rest == Unlink(q, m)
<1>1. q \in Seq(Message) /\ IsInjective(q)
    BY QuietFacts DEF Orderly, MessState, Mailed
<1>2. rest \in Seq(Message) /\ IsInjective(rest)
    BY <1>1, UnlinkMessage
<1>3. /\ ke' = ke
      /\ IsTidy(mess', [mess EXCEPT !.queue[ke.current] = rest,
                                    !.result[ke.current] = NoMessage])
    BY DEF MessDeleteMessage, Becomes, IsTidy
<1> HIDE DEF rest
<1> QED BY <1>2, <1>3, TakeOrderly

\* A message is put on a queue; the receivers and their nodes stay in order.
LEMMA QueuedOrderly ==
    ASSUME NEW k, NEW s, Mailed(k, s),
           NEW k2, Quiet(k2), \A x : InReceive(k2, x) => InReceive(k, x),
           NEW r \in MessState, r.queue = s.queue,
           \A q \in Process : InReceive(k2, q) => r.result[q] = NoMessage,
           NEW D, NEW d, Lined(k2, r, D, d),
           NEW p \in Process, NEW m \in Message, ~Contains(s.queue[p], m),
           NEW y, IsTidy(y, Queued(r, p, m))
    PROVE  Orderly(k2, y)
<1> DEFINE w == Queued(r, p, m)
<1>1. /\ w \in MessState
      /\ w.first = r.first /\ w.last = r.last /\ w.next = r.next /\ w.owner = r.owner
      /\ w.result = r.result /\ w.queue[p] = Append(r.queue[p], m)
      /\ \A q \in Process : q # p => w.queue[q] = r.queue[q]
    BY QueuedFacts
<1>2. IsTidy(y, w)
    OBVIOUS
<1> HIDE DEF w
<1>3. ReceiversBut(k2, k2, {x \in Process : x \notin k2.scheduled})
    BY SameReceivers DEF InReceive
<1>4. Lined(k2, w, D, d)
    BY <1>1, <1>3, LinedSame
<1>5. IsInjective(w.queue[p])
    <2>1. r.queue[p] \in Seq(Message) /\ IsInjective(r.queue[p]) /\ ~Contains(r.queue[p], m)
        BY DEF MessState, Mailed
    <2> QED BY <1>1, <2>1, AppendFacts
<1>6. Mailed(k2, w)
    BY <1>1, <1>5 DEF Mailed
<1> QED BY <1>1, <1>2, <1>4, <1>6, TidyOrderly

\* A message does not wake the dead.
LEMMA DeadHalts ==
    ASSUME NEW k, Quiet(k), NEW p \in Process, p \notin k.scheduled, k.state[p] = "blocked"
    PROVE  /\ KeResumeProcess(k, p) = KeBugCheck(k)
           /\ KeBugCheck(k) = [k EXCEPT !.bugcheck = TRUE] /\ KeBugCheck(k).bugcheck
<1>1. k \in KeState /\ ~Contains(k.timer, p) /\ ~Contains(k.blocked, p)
    BY QuietFacts DEF Quiet, Contains
<1>2. KeBugCheck(k) = [k EXCEPT !.bugcheck = TRUE] /\ KeBugCheck(k).bugcheck
    BY <1>1 DEF KeBugCheck, KeState
<1>3. RemoveFromBlockedLists(k, p) = KeBugCheck(k)
    BY <1>1 DEF RemoveFromBlockedLists
<1> QED BY <1>2, <1>3 DEF KeResumeProcess

\* Whatever a message finds, a receiver, a node left behind or nothing, the
\* queue of receivers is in order after it was sent.
LEMMA SendOrderly ==
    ASSUME Orderly(ke, mess), NEW p \in Process, NEW m \in Message, NEW t \in Types,
           SendMessage(p, m, t), ~ke'.bugcheck
    PROVE  Orderly(ke', mess')
<1> DEFINE s == Sent(m, t)
<1>1. /\ Quiet(ke) /\ mess \in MessState /\ Mailed(ke, mess) /\ LinedUp(ke, mess)
      /\ ~Contains(mess.queue[p], m)
    BY DEF Orderly, SendMessage, Unused
<1>2. PICK C, l : Lined(ke, mess, C, l)
    BY <1>1 DEF LinedUp
<1>3. Ordered(mess, C, l)
    BY <1>2 DEF Lined
<1>4. PICK k2, r :
          /\ MessSendMessage(p, m, t) = [ke |-> k2, mess |-> Queued(r, p, m)]
          /\ \/ Passed(C, p, t, k2, Sent(m, t), r)
             \/ Dropped(C, l, p, k2, Sent(m, t), r)
             \/ Woken(C, l, p, m, t, k2, Sent(m, t), r)
    BY <1>1, <1>3, SendCases
<1>5. ke' = k2 /\ IsTidy(mess', Queued(r, p, m))
    BY <1>4 DEF SendMessage, Becomes, IsTidy
<1>6. /\ s \in MessState
      /\ s.first = mess.first /\ s.last = mess.last /\ s.next = mess.next
      /\ s.owner = mess.owner /\ s.queue = mess.queue /\ s.result = mess.result
    BY <1>1, SentFacts
<1>7. /\ \/ Passed(C, p, t, k2, s, r)
         \/ Dropped(C, l, p, k2, s, r)
         \/ Woken(C, l, p, m, t, k2, s, r)
    BY <1>4
<1> HIDE DEF s
<1>8. ReceiversBut(ke, ke, {x \in Process : x \notin ke.scheduled})
    BY SameReceivers DEF InReceive
<1>9. Lined(ke, s, C, l)
    BY <1>2, <1>6, <1>8, LinedSame
<1>10. CASE Passed(C, p, t, k2, s, r)
    <2>1. k2 = ke /\ r = s
        BY <1>10 DEF Passed
    <2>2. \A q \in Process : InReceive(ke, q) => s.result[q] = NoMessage
        BY <1>1, <1>6 DEF Mailed
    <2>3. IsTidy(mess', Queued(s, p, m))
        BY <1>5, <2>1
    <2>4. Orderly(ke, mess')
        BY <1>1, <1>6, <1>9, <2>2, <2>3, QueuedOrderly
    <2> QED BY <1>5, <2>1, <2>4
<1>11. CASE Dropped(C, l, p, k2, s, r)
    <2>1. k2 = ke /\ ke.state[p] # "blocked"
        BY <1>11 DEF Dropped
    <2>2. PICK D, d : Shorter(s, C, l, r, D, d, {p})
        BY <1>11 DEF Dropped
    <2>3. ~InReceive(ke, p)
        BY <1>1, <2>1, QuietFacts DEF InReceive
    <2>4. ReceiversBut(ke, ke, {p})
        BY <2>3, SameReceivers
    <2>5. /\ r \in MessState /\ r.owner = s.owner
          /\ r.queue = s.queue /\ r.result = s.result
          /\ Ordered(r, D, d)
          /\ \A n : n \in UpTo(D, d) <=> n \in UpTo(C, l) /\ s.owner[n] \notin {p}
        BY <2>2 DEF Shorter, SameButPointers
    <2>6. Lined(ke, r, D, d)
        BY <1>9, <2>4, <2>5, LinedStep
    <2>7. \A q \in Process : InReceive(ke, q) => r.result[q] = NoMessage
        BY <1>1, <1>6, <2>5 DEF Mailed
    <2>8. Orderly(ke, mess')
        BY <1>1, <1>5, <1>6, <2>5, <2>6, <2>7, QueuedOrderly
    <2> QED BY <1>5, <2>1, <2>8
<1>12. CASE Woken(C, l, p, m, t, k2, s, r)
    <2> DEFINE g == IF ke.method[p] THEN Got(s, p, m) ELSE s
    <2>1. k2 = KeResumeProcess(ke, p) /\ ke.state[p] = "blocked"
        BY <1>12 DEF Woken
    <2>2. PICK D, d : Shorter(g, C, l, r, D, d, {p})
        BY <1>12 DEF Woken
    <2>3. /\ Quiet(k2) /\ k2.scheduled = ke.scheduled /\ SleepersBut(ke, k2, p)
        <3>1. p \in ke.scheduled
            BY <1>1, <1>5, <2>1, DeadHalts
        <3> QED BY <1>1, <2>1, <3>1, ResumeQuiet
    <2>4. ke.scheduled \subseteq Process
        BY <1>1, QuietFacts
    <2>5. ReceiversBut(ke, k2, {p})
        BY <2>3, <2>4 DEF ReceiversBut, InReceive, SleepersBut
    <2>6. /\ g \in MessState
          /\ g.first = s.first /\ g.last = s.last /\ g.next = s.next
          /\ g.owner = s.owner /\ g.queue = s.queue
          /\ \A q \in Process : q # p => g.result[q] = s.result[q]
        <3>1. /\ Got(s, p, m) \in MessState
              /\ Got(s, p, m).first = s.first /\ Got(s, p, m).last = s.last
              /\ Got(s, p, m).next = s.next
              /\ Got(s, p, m).owner = s.owner /\ Got(s, p, m).queue = s.queue
              /\ Got(s, p, m).result = [s.result EXCEPT ![p] = m]
            BY <1>6, GotFacts
        <3>2. \A q \in Process : q # p => Got(s, p, m).result[q] = s.result[q]
            BY <1>6, <3>1 DEF MessState
        <3> QED BY <1>6, <3>1, <3>2
    <2> HIDE DEF g
    <2>7. Lined(ke, g, C, l)
        BY <1>8, <1>9, <2>6, LinedSame
    <2>8. /\ r \in MessState /\ r.owner = g.owner
          /\ r.queue = g.queue /\ r.result = g.result
          /\ Ordered(r, D, d)
          /\ \A n : n \in UpTo(D, d) <=> n \in UpTo(C, l) /\ g.owner[n] \notin {p}
        BY <2>2 DEF Shorter, SameButPointers
    <2>9. Lined(k2, r, D, d)
        BY <2>5, <2>7, <2>8, LinedStep
    <2>10. \A x : InReceive(k2, x) => InReceive(ke, x) /\ x # p
        BY <2>5 DEF ReceiversBut
    <2>11. \A q \in Process : InReceive(k2, q) => r.result[q] = NoMessage
        BY <1>1, <1>6, <2>6, <2>8, <2>10 DEF Mailed
    <2>12. Orderly(k2, mess')
        BY <1>1, <1>5, <1>6, <2>3, <2>6, <2>8, <2>9, <2>10, <2>11, QueuedOrderly
    <2> QED BY <1>5, <2>12
<1> QED BY <1>7, <1>10, <1>11, <1>12

\* When a message halts the machine, its receiver is dead and has a node.
LEMMA SendHalts ==
    ASSUME Orderly(ke, mess), NEW p \in Process, NEW m \in Message, NEW t \in Types,
           SendMessage(p, m, t), ke'.bugcheck
    PROVE  /\ ke' = KeBugCheck(ke) /\ mess' = mess
           /\ p \notin ke.scheduled /\ ke.state[p] = "blocked"
           /\ \E n \in Listed(mess) :
                 mess.owner[n] = p /\ mess.waitsFor[n] \in {MESSAGE_TYPE_FIRST, t}
<1>1. Quiet(ke) /\ mess \in MessState /\ LinedUp(ke, mess)
    BY DEF Orderly
<1>2. PICK C, l : Ordered(mess, C, l)
    BY <1>1 DEF LinedUp, Lined
<1>3. PICK k2, r :
          /\ MessSendMessage(p, m, t) = [ke |-> k2, mess |-> Queued(r, p, m)]
          /\ \/ Passed(C, p, t, k2, Sent(m, t), r)
             \/ Dropped(C, l, p, k2, Sent(m, t), r)
             \/ Woken(C, l, p, m, t, k2, Sent(m, t), r)
    BY <1>1, <1>2, SendCases
<1>4. ke' = k2 /\ mess' = mess
    BY <1>3 DEF SendMessage
<1>5. ~ke.bugcheck
    BY <1>1, QuietFacts
<1>6. /\ k2 = KeResumeProcess(ke, p) /\ ke.state[p] = "blocked"
      /\ \E n \in NodesOf(C) :
            mess.owner[n] = p /\ mess.waitsFor[n] \in {MESSAGE_TYPE_FIRST, t}
    BY <1>3, <1>4, <1>5 DEF Passed, Dropped, Woken
<1>7. p \notin ke.scheduled
    <2>1. ASSUME p \in ke.scheduled PROVE ~k2.bugcheck
        BY <1>1, <1>6, <2>1, ResumeQuiet, QuietFacts
    <2> QED BY <1>4, <2>1
<1>8. k2 = KeBugCheck(ke)
    BY <1>1, <1>6, <1>7, DeadHalts
<1>9. Listed(mess) = NodesOf(C)
    BY <1>2, LinkedChain
<1> QED BY <1>4, <1>6, <1>7, <1>8, <1>9

\* A tick takes the receivers whose time is up from the timer list and from the
\* queue.
LEMMA TickReceivers ==
    ASSUME Quiet(ke), NEW k, k = KeHandleTimer(ke)
    PROVE  /\ Len(ke.timer) \in Nat
           /\ ReceiversBut(ke, k, LeftUpTo(ke.timer, k.timer, Len(ke.timer)))
<1> DEFINE N == Len(ke.timer)
           P == LeftUpTo(ke.timer, k.timer, N)
<1>1. /\ k.scheduled = ke.scheduled
      /\ \A x : Contains(k.timer, x) => Contains(ke.timer, x) /\ k.method[x] = ke.method[x]
    BY TickQuiet
<1>2. ke.timer \in Seq(Process)
    BY QuietFacts DEF KeState
<1>3. N \in Nat /\ \A x : Contains(ke.timer, x) <=> \E i \in 1 .. N : ke.timer[i] = x
    BY <1>2 DEF Contains
<1>4. \A x : x \in P <=> Contains(ke.timer, x) /\ ~Contains(k.timer, x) /\ ke.method[x]
    BY <1>3 DEF LeftUpTo
<1> HIDE DEF P
<1>5. ASSUME NEW x PROVE InReceive(k, x) <=> InReceive(ke, x) /\ x \notin P
    BY <1>1, <1>4 DEF InReceive
<1>6. ReceiversBut(ke, k, P)
    BY <1>1, <1>5 DEF ReceiversBut
<1> QED BY <1>3, <1>6 DEF P

LEMMA TickOrderly ==
    ASSUME Orderly(ke, mess), Tick
    PROVE  Orderly(ke', mess')
<1> DEFINE r == Left(ke.timer, ke'.timer)
           P == LeftUpTo(ke.timer, ke'.timer, Len(ke.timer))
<1>1. /\ Quiet(ke) /\ mess \in MessState /\ Mailed(ke, mess) /\ LinedUp(ke, mess)
      /\ ke' = KeHandleTimer(ke) /\ IsTidy(mess', r)
    BY DEF Orderly, Tick, HandleTimer, Becomes, IsTidy
<1>2. Quiet(ke')
    BY <1>1, TickQuiet
<1>3. Len(ke.timer) \in Nat /\ ReceiversBut(ke, ke', P)
    BY <1>1, TickReceivers
<1>4. PICK C, l : Lined(ke, mess, C, l)
    BY <1>1 DEF LinedUp
<1>5. Ordered(mess, C, l)
    BY <1>4 DEF Lined
<1>6. PICK D, d : Shorter(mess, C, l, r, D, d, P)
    BY <1>1, <1>3, <1>5, LeftShorter
<1> HIDE DEF r, P
<1>7. /\ r \in MessState /\ r.owner = mess.owner
      /\ r.queue = mess.queue /\ r.result = mess.result
      /\ Ordered(r, D, d)
      /\ \A n : n \in UpTo(D, d) <=> n \in UpTo(C, l) /\ mess.owner[n] \notin P
    BY <1>6 DEF Shorter, SameButPointers
<1>8. Lined(ke', r, D, d)
    BY <1>3, <1>4, <1>7, LinedStep
<1>9. Mailed(ke', r)
    BY <1>1, <1>3, <1>7 DEF Mailed, ReceiversBut
<1> QED BY <1>1, <1>2, <1>7, <1>8, <1>9, TidyOrderly

LEMMA InitOrderly ==
    ASSUME MessagesInit
    PROVE  Orderly(ke, mess)
<1>1. ke = KeInit /\ mess = MessInit
    BY DEF MessagesInit, Init
<1>2. /\ KeInit.scheduled = {Idle} /\ KeInit.blocked = <<>> /\ KeInit.timer = <<>>
      /\ KeInit.quantum = 1 /\ ~KeInit.bugcheck
      /\ KeInit.state = [q \in Process |-> "created"]
    BY DEF KeInit
<1>3. Quiet(KeInit)
    <2>1. Running(KeInit)
        BY <1>2, InitInv DEF Inv
    <2>2. DeadDoNotRun(KeInit)
        BY <1>2 DEF DeadDoNotRun
    <2> QED BY <1>2, <2>1, <2>2 DEF Quiet, Healthy, Alive
<1>4. \A p : ~InReceive(KeInit, p)
    BY <1>2 DEF InReceive, Contains
<1>5. MessInit \in MessState
    BY SchedulerAssumption, MessagesAssumption DEF MessInit, MessState
<1>6. /\ MessInit.first = NoNode /\ MessInit.last = NoNode
      /\ \A n \in Node : MessInit.owner[n] = Idle
      /\ \A p \in Process : MessInit.queue[p] = <<>>
    BY DEF MessInit
<1> HIDE DEF MessInit, KeInit
<1>7. Ordered(MessInit, <<>>, 0)
    BY <1>6 DEF Ordered
<1>8. UpTo(<<>>, 0) = {}
    BY DEF UpTo
<1>9. Lined(KeInit, MessInit, <<>>, 0)
    BY <1>4, <1>7, <1>8 DEF Lined
<1>10. LinedUp(KeInit, MessInit)
    BY <1>6, <1>9 DEF LinedUp
<1>11. Mailed(KeInit, MessInit)
    BY <1>4, <1>6 DEF Mailed, IsInjective
<1> QED BY <1>1, <1>3, <1>5, <1>10, <1>11 DEF Orderly

\* No call and no tick puts the queues in disorder.
LEMMA NextOrderly ==
    ASSUME Orderly(ke, mess), [MessagesNext]_vars, ~ke'.bugcheck
    PROVE  Orderly(ke', mess')
<1>1. CASE \E p \in Process, prio \in Priorities : Create(p, prio)
    BY <1>1, CreateOrderly
<1>2. CASE \E p \in Process : Kill(p) \/ LastReference(p)
    BY <1>2, KillOrderly, LastReferenceOrderly
<1>3. CASE \E ms \in Sleeps : Sleep(ms)
    BY <1>3, SleepOrderly
<1>4. CASE \E p \in Process, m \in Message, t \in Types : SendMessage(p, m, t)
    BY <1>4, SendOrderly
<1>5. CASE \E ms \in TimeOuts : MessReceiveFirst(ms)
    BY <1>5, ReceiveFirstOrderly
<1>6. CASE \E ms \in TimeOuts, t \in Types \ {MESSAGE_TYPE_FIRST} : MessReceiveType(ms, t)
    BY <1>6, ReceiveTypeOrderly
<1>7. CASE MessDeleteMessage
    BY <1>7, DeleteOrderly
<1>8. CASE Tick
    BY <1>8, TickOrderly
<1>9. CASE UNCHANGED vars
    BY <1>9 DEF vars
<1> QED BY <1>1, <1>2, <1>3, <1>4, <1>5, <1>6, <1>7, <1>8, <1>9 DEF MessagesNext, Spin

\* The machine runs with its queues in order, or it has halted and left them so.
HaltOf(k) == [k EXCEPT !.bugcheck = TRUE]

Kept(k, s) == \E q : Orderly(q, s) /\ k \in {q, HaltOf(q)}

LEMMA HaltFacts ==
    ASSUME NEW q, NEW s, Orderly(q, s)
    PROVE  /\ q \in KeState /\ ~q.bugcheck
           /\ HaltOf(q) \in KeState /\ HaltOf(q).bugcheck
           /\ HaltOf(q).scheduled = q.scheduled /\ HaltOf(q).timer = q.timer
           /\ HaltOf(q).method = q.method /\ HaltOf(q).quantum = q.quantum
<1>1. q \in KeState /\ ~q.bugcheck
    BY QuietFacts DEF Orderly
<1>2. HaltOf(q) = [q EXCEPT !.bugcheck = TRUE]
    BY DEF HaltOf
<1> QED BY <1>1, <1>2 DEF KeState

LEMMA KeptFacts ==
    ASSUME Kept(ke, mess)
    PROVE  /\ ~ke.bugcheck => Orderly(ke, mess)
           /\ ke.bugcheck /\ [MessagesNext]_vars => ke' = ke /\ mess' = mess
<1>1. ~ke.bugcheck => Orderly(ke, mess)
    <2>1. PICK q : Orderly(q, mess) /\ ke \in {q, HaltOf(q)}
        BY DEF Kept
    <2>2. ~ke.bugcheck => ke = q
        BY <2>1, HaltFacts
    <2> QED BY <2>1, <2>2
<1>2. ASSUME ke.bugcheck, [MessagesNext]_vars PROVE ke' = ke /\ mess' = mess
    BY <1>2 DEF MessagesNext, vars, Spin, Create, StartProcess, Kill, LastReference, Sleep,
          SendMessage, MessReceiveFirst, MessReceiveType, MessDeleteMessage, Receives, Calls,
          Tick, HandleTimer
<1> QED BY <1>1, <1>2

\* Only a message to a dead receiver halts the machine.
LEMMA OthersDoNotHalt ==
    ASSUME Orderly(ke, mess), [MessagesNext]_vars,
           ~\E p \in Process, m \in Message, t \in Types : SendMessage(p, m, t)
    PROVE  ~ke'.bugcheck
<1>0. \A k, s : Orderly(k, s) => ~k.bugcheck
    BY QuietFacts DEF Orderly
<1>1. CASE \E p \in Process, prio \in Priorities : Create(p, prio)
    BY <1>0, <1>1, CreateOrderly
<1>2. CASE \E p \in Process : Kill(p) \/ LastReference(p)
    BY <1>0, <1>2, KillOrderly, LastReferenceOrderly
<1>3. CASE \E ms \in Sleeps : Sleep(ms)
    BY <1>0, <1>3, SleepOrderly
<1>4. CASE \E ms \in TimeOuts : MessReceiveFirst(ms)
    BY <1>0, <1>4, ReceiveFirstOrderly
<1>5. CASE \E ms \in TimeOuts, t \in Types \ {MESSAGE_TYPE_FIRST} : MessReceiveType(ms, t)
    BY <1>0, <1>5, ReceiveTypeOrderly
<1>6. CASE MessDeleteMessage
    BY <1>0, <1>6, DeleteOrderly
<1>7. CASE Tick
    BY <1>0, <1>7, TickOrderly
<1>8. CASE UNCHANGED vars \/ Spin
    BY <1>0, <1>8 DEF vars, Spin
<1> QED BY <1>1, <1>2, <1>3, <1>4, <1>5, <1>6, <1>7, <1>8 DEF MessagesNext

LEMMA NextKept ==
    ASSUME Kept(ke, mess), [MessagesNext]_vars
    PROVE  Kept(ke', mess')
<1>1. CASE ke.bugcheck
    BY <1>1, KeptFacts
<1>2. CASE ~ke.bugcheck /\ ~ke'.bugcheck
    <2>1. Orderly(ke', mess')
        BY <1>2, KeptFacts, NextOrderly
    <2> QED BY <2>1 DEF Kept
<1>3. CASE ~ke.bugcheck /\ ke'.bugcheck
    <2>1. Orderly(ke, mess)
        BY <1>3, KeptFacts
    <2>2. \E p \in Process, m \in Message, t \in Types : SendMessage(p, m, t)
        BY <1>3, <2>1, OthersDoNotHalt
    <2>3. ke' = HaltOf(ke) /\ mess' = mess
        <3>1. ke' = KeBugCheck(ke) /\ mess' = mess
            BY <1>3, <2>1, <2>2, SendHalts
        <3> QED BY <3>1 DEF KeBugCheck, HaltOf
    <2> QED BY <2>1, <2>3 DEF Kept
<1> QED BY <1>1, <1>2, <1>3

-----------------------------------------------------------------------------
\* The queues stay in order, also in the state in which the machine halts.
THEOREM MessagesInvariant == MessagesSpec => []Kept(ke, mess)
<1>1. MessagesInit => Kept(ke, mess)
    BY InitOrderly DEF Kept
<1>2. Kept(ke, mess) /\ [MessagesNext]_vars => Kept(ke, mess)'
    BY NextKept
<1> QED BY <1>1, <1>2, PTL DEF MessagesSpec

\* MessTypeOK holds in every state: the queue of receivers has a last node if it
\* has a first one.
THEOREM MessagesTypesCorrect == MessagesSpec => []MessTypeOK
<1>1. Kept(ke, mess) => MessTypeOK
    <2> SUFFICES ASSUME Kept(ke, mess) PROVE MessTypeOK
        OBVIOUS
    <2>1. PICK q : Orderly(q, mess) /\ ke \in {q, HaltOf(q)}
        BY DEF Kept
    <2>2. Quiet(q) /\ mess \in MessState /\ LinedUp(q, mess)
        BY <2>1 DEF Orderly
    <2>3. ke \in KeState /\ (ke.quantum # 0 \/ ke.bugcheck)
        <3>1. q.quantum # 0
            BY <2>2 DEF Quiet, Healthy
        <3> QED BY <2>1, <3>1, HaltFacts
    <2>4. PICK C, l : Ordered(mess, C, l)
        BY <2>2 DEF LinedUp, Lined
    <2>5. l # 0 => C[1] # NoNode /\ C[l] # NoNode
        BY <2>4, OrderedFacts
    <2>6. mess.first = NoNode <=> mess.last = NoNode
        BY <2>4, <2>5 DEF Ordered
    <2> QED BY <2>2, <2>3, <2>6 DEF MessTypeOK, TypeOK
<1> QED BY <1>1, MessagesInvariant, PTL

\* The nodes as far as the last are those the invariant speaks of.
LEMMA UpToLastIs ==
    ASSUME NEW C, NEW l, Ordered(mess, C, l)
    PROVE  UpToLast = UpTo(C, l)
<1>1. /\ Len(C) \in Nat /\ l \in Nat /\ l <= Len(C) /\ (l = 0 <=> Len(C) = 0)
      /\ mess.last = IF l = 0 THEN NoNode ELSE C[l]
      /\ \A i, j \in 1 .. Len(C) : C[i] = C[j] => i = j
    BY OrderedFacts DEF Ordered
<1>2. Listed(mess) = {C[i] : i \in 1 .. Len(C)}
    BY LinkedChain DEF NodesOf, UpTo
<1>3. CASE l = 0
    BY <1>1, <1>2, <1>3 DEF UpToLast, UpTo
<1>4. CASE l # 0
    <2>1. l \in 1 .. Len(C) /\ mess.last = C[l]
        BY <1>1, <1>4
    <2>2. From(mess, C[l]) = {C[i] : i \in l .. Len(C)}
        BY <2>1, FromChain
    <2>3. UpToLast = {C[i] : i \in 1 .. Len(C)} \ ({C[i] : i \in l .. Len(C)} \ {C[l]})
        BY <1>2, <2>1, <2>2 DEF UpToLast
    <2>4. ASSUME NEW x \in UpToLast PROVE x \in UpTo(C, l)
        <3>1. PICK i \in 1 .. Len(C) : x = C[i]
            BY <2>3
        <3>2. i \in l .. Len(C) => C[i] = C[l]
            BY <2>3, <3>1
        <3>3. i \in l .. Len(C) => i = l
            BY <1>1, <2>1, <3>1, <3>2
        <3>4. i \in 1 .. l
            BY <1>1, <2>1, <3>1, <3>3
        <3> QED BY <3>1, <3>4 DEF UpTo
    <2>5. ASSUME NEW x \in UpTo(C, l) PROVE x \in UpToLast
        <3>1. PICK i \in 1 .. l : x = C[i]
            BY DEF UpTo
        <3>2. i \in 1 .. Len(C) /\ (i # l => i \notin l .. Len(C))
            BY <1>1, <3>1
        <3>3. \A j \in l .. Len(C) : j \in 1 .. Len(C)
            BY <1>1, <2>1
        <3>4. x \notin {C[j] : j \in l .. Len(C)} \ {C[l]}
            BY <1>1, <3>1, <3>2, <3>3
        <3> QED BY <2>3, <3>1, <3>2, <3>4
    <2> QED BY <2>4, <2>5
<1> QED BY <1>3, <1>4

\* WaitingListIntact: whatever the loops over the queue of receivers unlink, and
\* however often, it makes no circle, each receiver has one node in it, and the
\* others as far as the last are of processes killed while they waited.
THEOREM WaitingListAlwaysIntact == MessagesSpec => []WaitingListIntact
<1>1. Kept(ke, mess) => WaitingListIntact
    <2> SUFFICES ASSUME Kept(ke, mess) PROVE WaitingListIntact
        OBVIOUS
    <2>0. PICK q : Orderly(q, mess) /\ ke \in {q, HaltOf(q)}
        BY DEF Kept
    <2>1. PICK C, l : Lined(q, mess, C, l)
        BY <2>0 DEF Orderly, LinedUp
    <2>2. Ordered(mess, C, l)
        BY <2>1 DEF Lined
    <2>3. /\ Len(C) \in Nat /\ l \in Nat /\ l <= Len(C)
          /\ \A i, j \in 1 .. Len(C) : C[i] = C[j] => i = j
        BY <2>2, OrderedFacts
    <2>4. Listed(mess) = NodesOf(C) /\ UpToLast = UpTo(C, l)
        BY <2>2, LinkedChain, UpToLastIs
    <2>5. ke.scheduled = q.scheduled /\ \A p : Receiving(p) <=> InReceive(q, p)
        BY <2>0, HaltFacts DEF Receiving, InReceive
    <2>6. mess.last \in Listed(mess) \cup {NoNode}
        <3>1. l # 0 => l \in 1 .. Len(C)
            BY <2>3
        <3> QED BY <2>2, <2>4, <3>1 DEF Ordered, NodesOf, UpTo
    <2>7. ASSUME NEW n \in Listed(mess) PROVE n \notin From(mess, mess.next[n])
        <3>1. PICK i \in 1 .. Len(C) : n = C[i]
            BY <2>4 DEF NodesOf, UpTo
        <3>2. CASE i = Len(C)
            <4>1. mess.next[n] = NoNode
                BY <2>2, <3>1, <3>2 DEF Ordered
            <4> QED BY <4>1, FromNone
        <3>3. CASE i # Len(C)
            <4>1. i + 1 \in 1 .. Len(C) /\ mess.next[n] = C[i + 1]
                BY <2>2, <2>3, <3>1, <3>3 DEF Ordered
            <4>2. From(mess, mess.next[n]) = {C[x] : x \in i + 1 .. Len(C)}
                BY <2>2, <4>1, FromChain
            <4>3. \A x \in i + 1 .. Len(C) : x \in 1 .. Len(C) /\ x # i
                BY <2>3
            <4> QED BY <2>3, <3>1, <4>2, <4>3
        <3> QED BY <3>2, <3>3
    <2>8. \A n \in UpTo(C, l) : Receiving(mess.owner[n]) \/ mess.owner[n] \notin ke.scheduled
        BY <2>1, <2>5 DEF Lined
    <2>9. \A n1, n2 \in UpTo(C, l) : mess.owner[n1] = mess.owner[n2] => n1 = n2
        <3>1. \A i \in 1 .. l : i \in 1 .. Len(C)
            BY <2>3
        <3> QED BY <2>2, <3>1 DEF Ordered, UpTo
    <2>10. \A p \in Process : Receiving(p) => \E n \in UpTo(C, l) : mess.owner[n] = p
        BY <2>1, <2>5 DEF Lined
    <2> QED BY <2>4, <2>6, <2>7, <2>8, <2>9, <2>10 DEF WaitingListIntact
<1> QED BY <1>1, MessagesInvariant, PTL

\* Why a process is no longer in a receive call.
TimedOut(p) == ke.wake[p] < ke'.ticks /\ ke'.ticks # ke.ticks

Answered(p) ==
    \E n \in Listed(mess) :
        /\ mess.owner[n] = p
        /\ mess'.result[p] # NoMessage
        /\ mess.waitsFor[n] \in {MESSAGE_TYPE_FIRST, mess'.kind[mess'.result[p]]}

\* A message that ends the receive call of p is of the type p waits for.
LEMMA SendAnswers ==
    ASSUME Orderly(ke, mess), NEW p \in Process, NEW m \in Message, NEW t \in Types,
           SendMessage(p, m, t), ~ke'.bugcheck, NEW x, InReceive(ke, x), ~Contains(ke'.timer, x)
    PROVE  Answered(x)
<1> DEFINE s == Sent(m, t)
<1>1. /\ Quiet(ke) /\ mess \in MessState /\ LinedUp(ke, mess)
    BY DEF Orderly
<1>2. PICK C, l : Ordered(mess, C, l)
    BY <1>1 DEF LinedUp, Lined
<1>3. PICK k2, r :
          /\ MessSendMessage(p, m, t) = [ke |-> k2, mess |-> Queued(r, p, m)]
          /\ \/ Passed(C, p, t, k2, Sent(m, t), r)
             \/ Dropped(C, l, p, k2, Sent(m, t), r)
             \/ Woken(C, l, p, m, t, k2, Sent(m, t), r)
    BY <1>1, <1>2, SendCases
<1>4. ke' = k2 /\ IsTidy(mess', Queued(r, p, m))
    BY <1>3 DEF SendMessage, Becomes, IsTidy
<1>5. Contains(ke.timer, x) /\ ke.method[x]
    BY DEF InReceive
<1>6. k2 # ke
    BY <1>4, <1>5
<1>7. Woken(C, l, p, m, t, k2, s, r)
    BY <1>3, <1>6 DEF Passed, Dropped
<1>8. s \in MessState /\ s.kind[m] = t /\ s.owner = mess.owner
    <2>1. /\ s \in MessState /\ s.owner = mess.owner
          /\ s.kind = [mess.kind EXCEPT ![m] = t]
        BY <1>1, SentFacts
    <2> QED BY <1>1, <2>1 DEF MessState
<1> HIDE DEF s
<1>9. k2 = KeResumeProcess(ke, p) /\ ke.state[p] = "blocked"
    BY <1>7 DEF Woken
<1>10. SleepersBut(ke, k2, p)
    <2>1. p \in ke.scheduled
        BY <1>1, <1>4, <1>9, DeadHalts
    <2> QED BY <1>1, <1>9, <2>1, ResumeQuiet
<1>11. x = p
    BY <1>4, <1>5, <1>10 DEF SleepersBut
<1>12. PICK n \in NodesOf(C) : mess.owner[n] = p /\ mess.waitsFor[n] \in {MESSAGE_TYPE_FIRST, t}
    BY <1>7 DEF Woken
<1>13. PICK D, d : Shorter(Got(s, p, m), C, l, r, D, d, {p})
    BY <1>5, <1>7, <1>11 DEF Woken
<1>14. r.result[p] = m /\ r.kind[m] = t /\ r \in MessState /\ Ordered(r, D, d)
    <2>1. Got(s, p, m).kind = s.kind /\ Got(s, p, m).result = [s.result EXCEPT ![p] = m]
        BY <1>8, GotFacts
    <2>2. Got(s, p, m).result[p] = m
        BY <1>8, <2>1 DEF MessState
    <2> QED BY <1>8, <1>13, <2>1, <2>2 DEF Shorter, SameButPointers
<1> DEFINE w == Queued(r, p, m)
<1>15. /\ w \in MessState /\ w.result[p] = m /\ w.kind[m] = t /\ IsTidy(mess', w)
       /\ w.first = r.first /\ w.last = r.last /\ w.next = r.next /\ w.owner = r.owner
    BY <1>4, <1>14, QueuedFacts
<1> HIDE DEF w
<1>16. Ordered(w, D, d)
    BY <1>14, <1>15 DEF Ordered
<1>17. ~Unused(w, m)
    BY <1>15 DEF Unused
<1>18. mess'.result[p] = m /\ mess'.kind[m] = t
    BY <1>15, <1>16, <1>17, TidyFacts
<1>19. m # NoMessage
    BY MessagesAssumption
<1>20. n \in Listed(mess)
    BY <1>2, LinkedChain
<1> QED BY <1>11, <1>12, <1>18, <1>19, <1>20 DEF Answered

\* No other call ends a receive call.
LEMMA OthersKeepReceivers ==
    ASSUME Orderly(ke, mess), [MessagesNext]_vars, ~Tick,
           ~\E p \in Process, m \in Message, t \in Types : SendMessage(p, m, t),
           NEW x, InReceive(ke, x), x \in ke'.scheduled
    PROVE  Contains(ke'.timer, x)
<1>1. Quiet(ke) /\ Contains(ke.timer, x)
    BY DEF Orderly, InReceive
<1>2. ASSUME NEW p \in Process, NEW prio \in Priorities, Create(p, prio)
      PROVE  Contains(ke'.timer, x)
    <2>1. /\ p \notin ke.scheduled
          /\ ke' = KeStartSchedulingProcess(NewProcess(ke, p, prio), p)
        BY <1>2 DEF Create, StartProcess
    <2>2. ke'.timer = ke.timer
        BY <1>1, <2>1, StartQuiet
    <2> QED BY <1>1, <2>2
<1>3. ASSUME NEW p \in Process, Kill(p)
      PROVE  Contains(ke'.timer, x)
    <2>1. PICK k : \E left \in States \ {"running"} :
              /\ Quiet(k) /\ p \notin k.scheduled
              /\ k.scheduled = ke.scheduled \ {p} /\ SleepersBut(ke, k, p)
              /\ ke' = [k EXCEPT !.state[p] = left, !.priority[p] = 0]
        BY <1>1, <1>3, KillLeaves
    <2>2. ke'.scheduled = k.scheduled /\ ke'.timer = k.timer
        BY <2>1, ForgetQuiet
    <2> QED BY <1>1, <2>1, <2>2 DEF SleepersBut
<1>12. ASSUME NEW p \in Process, LastReference(p)
      PROVE  Contains(ke'.timer, x)
    <2>1. ke'.timer = ke.timer
        BY <1>1, <1>12, QuietFacts DEF LastReference, KeState
    <2> QED BY <1>1, <2>1
<1>4. ASSUME ke.current # Idle, NEW ms \in Ulong, NEW resume \in BOOLEAN,
             ke' = KeSuspendProcess(ke, ms, resume)
      PROVE  Contains(ke'.timer, x)
    BY <1>1, <1>4, SuspendQuiet
<1>5. ASSUME ke' = ke
      PROVE  Contains(ke'.timer, x)
    BY <1>1, <1>5
<1>6. ASSUME NEW ms \in Sleeps, Sleep(ms) PROVE Contains(ke'.timer, x)
    <2>1. ms \in Ulong /\ ke.current # Idle /\ ke' = KeSuspendProcess(ke, ms, FALSE)
        BY <1>6, SchedulerAssumption DEF Sleep, Calls
    <2> QED BY <1>4, <2>1
<1>7. ASSUME NEW ms \in TimeOuts, NEW t, Wait(ms, t), ke.current # Idle
      PROVE  Contains(ke'.timer, x)
    <2>1. ms \in Ulong /\ ke' = KeSuspendProcess(ke, ms, TRUE)
        BY <1>7, MessagesAssumption DEF Wait
    <2> QED BY <1>4, <1>7, <2>1
<1>8. ASSUME NEW ms \in TimeOuts, MessReceiveFirst(ms) PROVE Contains(ke'.timer, x)
    <2>1. ke.current # Idle /\ (ke' = ke \/ Wait(ms, MESSAGE_TYPE_FIRST))
        BY <1>8 DEF MessReceiveFirst, Take, Receives, Calls
    <2> QED BY <1>5, <1>7, <2>1
<1>9. ASSUME NEW ms \in TimeOuts, NEW t \in Types, MessReceiveType(ms, t)
      PROVE  Contains(ke'.timer, x)
    <2>1. ke.current # Idle /\ (ke' = ke \/ Wait(ms, t))
        BY <1>9 DEF MessReceiveType, Take, Receives, Calls
    <2> QED BY <1>5, <1>7, <2>1
<1>10. CASE MessDeleteMessage
    BY <1>5, <1>10 DEF MessDeleteMessage
<1>11. CASE UNCHANGED vars \/ Spin
    BY <1>5, <1>11 DEF vars, Spin
<1> QED BY <1>2, <1>3, <1>6, <1>8, <1>9, <1>10, <1>11, <1>12
       DEF MessagesNext

\* ReceiveEndsForAReason: whatever unlinks its node, a receive call ends by a
\* message of the type it waits for, or when its time is over.
THEOREM ReceivesEndForAReason == MessagesSpec => ReceiveEndsForAReason
<1>1. ASSUME Orderly(ke, mess), [MessagesNext]_vars, NEW p \in Process,
             Receiving(p), p \in ke'.scheduled, ~Contains(ke'.timer, p)
      PROVE  TimedOut(p) \/ Answered(p)
    <2>1. InReceive(ke, p)
        BY <1>1 DEF Receiving, InReceive
    <2>2. CASE Tick
        <3>1. Quiet(ke) /\ ke' = KeHandleTimer(ke) /\ Contains(ke.timer, p)
            BY <1>1, <2>1, <2>2 DEF Orderly, Tick, HandleTimer, InReceive
        <3>2. ke'.ticks # ke.ticks /\ ke.wake[p] < ke'.ticks
            BY <1>1, <3>1, TickQuiet
        <3> QED BY <3>2 DEF TimedOut
    <2>3. CASE \E q \in Process, m \in Message, t \in Types : SendMessage(q, m, t)
        <3>1. ~ke'.bugcheck
            <4>1. ASSUME ke'.bugcheck PROVE FALSE
                <5>1. ke' = HaltOf(ke)
                    BY <1>1, <2>3, <4>1, SendHalts DEF KeBugCheck, HaltOf
                <5> QED BY <1>1, <2>1, <5>1, HaltFacts DEF InReceive
            <4> QED BY <4>1
        <3> QED BY <1>1, <2>1, <2>3, <3>1, SendAnswers
    <2>4. CASE /\ ~Tick
               /\ ~\E q \in Process, m \in Message, t \in Types : SendMessage(q, m, t)
        BY <1>1, <2>1, <2>4, OthersKeepReceivers
    <2> QED BY <2>2, <2>3, <2>4
<1>2. ASSUME Kept(ke, mess), [MessagesNext]_vars, NEW p \in Process,
             Receiving(p), p \in ke'.scheduled, ~Contains(ke'.timer, p)
      PROVE  TimedOut(p) \/ Answered(p)
    <2>1. Contains(ke.timer, p)
        BY <1>2 DEF Receiving
    <2>2. ~ke.bugcheck
        BY <1>2, <2>1, KeptFacts
    <2> QED BY <1>1, <1>2, <2>2, KeptFacts
<1>3. Kept(ke, mess) /\ [MessagesNext]_vars =>
          [\A p \in Process :
              Receiving(p) /\ p \in ke'.scheduled /\ ~Contains(ke'.timer, p) =>
                  \/ ke.wake[p] < ke'.ticks /\ ke'.ticks # ke.ticks
                  \/ \E n \in Listed(mess) :
                        /\ mess.owner[n] = p
                        /\ mess'.result[p] # NoMessage
                        /\ mess.waitsFor[n] \in
                              {MESSAGE_TYPE_FIRST, mess'.kind[mess'.result[p]]}]_vars
    BY <1>2 DEF TimedOut, Answered
<1> QED BY <1>3, MessagesInvariant, PTL DEF MessagesSpec, ReceiveEndsForAReason

\* OnlyDeadReceiversHalt: whatever nodes the calls leave behind, the machine goes
\* on but for a message to a dead process that still has a node and a PCB.
THEOREM OnlyMessagesToTheDeadHalt == MessagesSpec => OnlyDeadReceiversHalt
<1>1. ASSUME Kept(ke, mess), [MessagesNext]_vars, ~ke.bugcheck, ke'.bugcheck
      PROVE  \E n \in Listed(mess), m \in Message, t \in Types :
                /\ mess.owner[n] \notin ke.scheduled /\ ke.state[mess.owner[n]] = "blocked"
                /\ mess.waitsFor[n] \in {MESSAGE_TYPE_FIRST, t}
                /\ SendMessage(mess.owner[n], m, t)
    <2>1. Orderly(ke, mess)
        BY <1>1, KeptFacts
    <2>2. PICK p \in Process, m \in Message, t \in Types : SendMessage(p, m, t)
        BY <1>1, <2>1, OthersDoNotHalt
    <2>3. /\ p \notin ke.scheduled /\ ke.state[p] = "blocked"
          /\ \E n \in Listed(mess) :
                mess.owner[n] = p /\ mess.waitsFor[n] \in {MESSAGE_TYPE_FIRST, t}
        BY <1>1, <2>1, <2>2, SendHalts
    <2> QED BY <2>2, <2>3
<1>2. Kept(ke, mess) /\ [MessagesNext]_vars =>
          [~ke.bugcheck /\ ke'.bugcheck =>
             \E n \in Listed(mess), m \in Message, t \in Types :
                LET p == mess.owner[n]
                IN  /\ p \notin ke.scheduled /\ ke.state[p] = "blocked"
                    /\ mess.waitsFor[n] \in {MESSAGE_TYPE_FIRST, t}
                    /\ SendMessage(p, m, t)]_vars
    BY <1>1
<1> QED BY <1>2, MessagesInvariant, PTL DEF MessagesSpec, OnlyDeadReceiversHalt

-----------------------------------------------------------------------------
\* What the boxes of Mailboxes stand for: the letters of a queue, the inbox of p,
\* what p waits for and what it has got, in state k of the scheduler and s of the
\* queues.
LetterIn(s, m) == [id |-> m, type |-> s.kind[m]]

Letters(s, q) == [i \in DOMAIN q |-> LetterIn(s, q[i])]

InboxIn(s, p) == Letters(s, Unlink(s.queue[p], s.result[p]))

NodeAt(s, p) == CHOOSE n \in Node : s.owner[n] = p

WaitsIn(k, s, p) == IF InReceive(k, p) THEN s.waitsFor[NodeAt(s, p)] ELSE NoNode

GotIn(s, p) == IF s.result[p] = NoMessage THEN NoMessage ELSE LetterIn(s, s.result[p])

Box(I, W, G) == [inbox |-> I, waits |-> W, got |-> G]

Inboxes(s) == [p \in Receiver |-> InboxIn(s, p)]

Waits(k, s) == [p \in Receiver |-> WaitsIn(k, s, p)]

Gots(s) == [p \in Receiver |-> GotIn(s, p)]

Boxes(k, s) == Box(Inboxes(s), Waits(k, s), Gots(s))

\* The boxes, as the refinement mapping has them.
MailBoxes ==
    [inbox |-> [p \in Receiver |-> Inbox(p)],
     waits |-> [p \in Receiver |->
                   IF Receiving(p) THEN mess.waitsFor[NodeOf(p)] ELSE NoNode],
     got   |-> [p \in Receiver |->
                   IF mess.result[p] = NoMessage
                   THEN NoMessage
                   ELSE Letter(mess.result[p])]]

LEMMA BoxesAre == MailBoxes = Boxes(ke, mess) /\ MailBoxes' = Boxes(ke', mess')
<1>1. MailBoxes = Boxes(ke, mess)
    BY DEF MailBoxes, Boxes, Box, Inboxes, Waits, Gots, GotIn, WaitsIn, InboxIn, Letters,
           LetterIn, NodeAt, Inbox, Letter, Receiving, NodeOf, InReceive
<1>2. MailBoxes' = Boxes(ke', mess')
    BY DEF MailBoxes, Boxes, Box, Inboxes, Waits, Gots, GotIn, WaitsIn, InboxIn, Letters,
           LetterIn, NodeAt, Inbox, Letter, Receiving, NodeOf, InReceive
<1> QED BY <1>1, <1>2

\* The operators of Mailboxes on boxes given by their parts.
LEMMA PutIn ==
    ASSUME NEW I, NEW W, NEW G, NEW p, NEW m, W[p] \notin {MESSAGE_TYPE_FIRST, m.type}
    PROVE  Promise!Put(Box(I, W, G), p, m) = Box([I EXCEPT ![p] = Append(@, m)], W, G)
BY DEF Promise!Put, Box

LEMMA ClearIs ==
    ASSUME NEW I, NEW W, NEW G, NEW p
    PROVE  Promise!Clear(Box(I, W, G), p)
              = Box([I EXCEPT ![p] = <<>>], [W EXCEPT ![p] = NoNode],
                    [G EXCEPT ![p] = NoMessage])
<1> DEFINE V1 == [I EXCEPT ![p] = <<>>]
           V2 == [W EXCEPT ![p] = NoNode]
           b1 == Box(V1, W, G)
           b2 == Box(V1, V2, G)
<1>1. [Box(I, W, G) EXCEPT !.inbox[p] = <<>>] = b1
    BY DEF Box
<1>2. [b1 EXCEPT !.waits[p] = NoNode] = b2
    BY DEF Box
<1>3. [b2 EXCEPT !.got[p] = NoMessage] = Box(V1, V2, [G EXCEPT ![p] = NoMessage])
    BY DEF Box
<1>4. Promise!Clear(Box(I, W, G), p)
          = [[[Box(I, W, G) EXCEPT !.inbox[p] = <<>>] EXCEPT !.waits[p] = NoNode]
                EXCEPT !.got[p] = NoMessage]
    BY DEF Promise!Clear
<1> HIDE DEF b1, b2
<1> QED BY <1>1, <1>2, <1>3, <1>4

LEMMA TakeFirstWaits ==
    ASSUME NEW I, NEW W, NEW G, NEW p, I[p] = <<>>
    PROVE  Promise!TakeFirst(Box(I, W, G), p) = Box(I, [W EXCEPT ![p] = MESSAGE_TYPE_FIRST], G)
BY DEF Promise!TakeFirst, Box

LEMMA TakeFirstTakes ==
    ASSUME NEW I, NEW W, NEW G, NEW p, I[p] # <<>>
    PROVE  Promise!TakeFirst(Box(I, W, G), p)
              = Box([I EXCEPT ![p] = Tail(@)], W, [G EXCEPT ![p] = Head(I[p])])
BY DEF Promise!TakeFirst, Box

LEMMA StopWaitingIs ==
    ASSUME NEW I, NEW W, NEW G, NEW S
    PROVE  Promise!StopWaiting(Box(I, W, G), S)
              = Box(I, [p \in Receiver |-> IF p \in S THEN NoNode ELSE W[p]], G)
BY DEF Promise!StopWaiting, Box

LEMMA DeleteIs ==
    ASSUME NEW I, NEW W, NEW G, NEW p
    PROVE  Promise!Delete(Box(I, W, G), p) = Box(I, W, [G EXCEPT ![p] = NoMessage])
BY DEF Promise!Delete, Box

-----------------------------------------------------------------------------
\* Letters keep the order of their messages.
LEMMA LettersFacts ==
    ASSUME NEW s, NEW q \in Seq(Message)
    PROVE  /\ Len(Letters(s, q)) = Len(q) /\ DOMAIN Letters(s, q) = 1 .. Len(q)
           /\ \A i \in 1 .. Len(q) : Letters(s, q)[i] = LetterIn(s, q[i])
           /\ \A P : (\A m \in Message : LetterIn(s, m) \in P) => Letters(s, q) \in Seq(P)
<1> DEFINE L == Letters(s, q)
<1>1. DOMAIN q = 1 .. Len(q) /\ Len(q) \in Nat /\ \A i \in 1 .. Len(q) : q[i] \in Message
    OBVIOUS
<1>2. L = [i \in 1 .. Len(q) |-> LetterIn(s, q[i])]
    BY <1>1 DEF Letters
<1> HIDE DEF L
<1>3. DOMAIN L = 1 .. Len(q) /\ \A i \in 1 .. Len(q) : L[i] = LetterIn(s, q[i])
    BY <1>2
<1>4. ASSUME NEW P, \A m \in Message : LetterIn(s, m) \in P PROVE L \in Seq(P)
    <2>1. L \in [1 .. Len(q) -> P]
        BY <1>1, <1>2, <1>4
    <2> QED BY <1>1, <2>1, SeqDef
<1>5. Len(L) = Len(q)
    <2>1. L \in Seq({LetterIn(s, m) : m \in Message})
        BY <1>4
    <2> QED BY <1>1, <1>3, <2>1
<1> QED BY <1>3, <1>4, <1>5 DEF L

\* The letters of messages whose types are the same.
LEMMA LettersSame ==
    ASSUME NEW s, NEW y, NEW q \in Seq(Message),
           \A m \in Message : Contains(q, m) => y.kind[m] = s.kind[m]
    PROVE  Letters(y, q) = Letters(s, q)
<1>1. DOMAIN q = 1 .. Len(q) /\ \A i \in 1 .. Len(q) : q[i] \in Message /\ Contains(q, q[i])
    BY DEF Contains
<1>2. \A i \in 1 .. Len(q) : LetterIn(y, q[i]) = LetterIn(s, q[i])
    BY <1>1 DEF LetterIn
<1> QED BY <1>1, <1>2 DEF Letters

LEMMA LettersAppend ==
    ASSUME NEW s, NEW q \in Seq(Message), NEW m \in Message
    PROVE  Letters(s, Append(q, m)) = Append(Letters(s, q), LetterIn(s, m))
<1> DEFINE A == Append(q, m)
           P == {LetterIn(s, x) : x \in Message}
           L == Letters(s, q)
           B == Append(L, LetterIn(s, m))
<1>1. A \in Seq(Message) /\ Len(A) = Len(q) + 1 /\ Len(q) \in Nat
    OBVIOUS
<1>2. A[Len(q) + 1] = m /\ \A i \in 1 .. Len(q) : A[i] = q[i]
    OBVIOUS
<1>3. L \in Seq(P) /\ Len(L) = Len(q) /\ \A i \in 1 .. Len(q) : L[i] = LetterIn(s, q[i])
    BY LettersFacts
<1> HIDE DEF A
<1>4. /\ Letters(s, A) \in Seq(P) /\ Len(Letters(s, A)) = Len(q) + 1
      /\ \A i \in 1 .. Len(q) + 1 : Letters(s, A)[i] = LetterIn(s, A[i])
    BY <1>1, LettersFacts
<1>5. LetterIn(s, m) \in P
    OBVIOUS
<1> HIDE DEF L, P
<1>6. /\ B \in Seq(P) /\ Len(B) = Len(q) + 1 /\ B[Len(q) + 1] = LetterIn(s, m)
      /\ \A i \in 1 .. Len(q) : B[i] = L[i]
    BY <1>3, <1>5
<1> HIDE DEF B
<1>7. ASSUME NEW i \in 1 .. Len(q) + 1 PROVE Letters(s, A)[i] = B[i]
    <2>1. CASE i = Len(q) + 1
        BY <1>2, <1>4, <1>6, <2>1
    <2>2. CASE i \in 1 .. Len(q)
        <3>1. B[i] = LetterIn(s, q[i])
            BY <1>3, <1>6, <2>2
        <3>2. Letters(s, A)[i] = LetterIn(s, A[i])
            BY <1>4
        <3> QED BY <1>2, <2>2, <3>1, <3>2
    <2> QED BY <1>1, <2>1, <2>2
<1> QED BY <1>4, <1>6, <1>7, SeqEqual DEF A, B, L

LEMMA LettersTail ==
    ASSUME NEW s, NEW q \in Seq(Message), q # <<>>
    PROVE  /\ Letters(s, q) # <<>>
           /\ Head(Letters(s, q)) = LetterIn(s, Head(q))
           /\ Letters(s, Tail(q)) = Tail(Letters(s, q))
<1> DEFINE T == Tail(q)
           P == {LetterIn(s, x) : x \in Message}
           L == Letters(s, q)
<1>1. /\ T \in Seq(Message) /\ Len(T) = Len(q) - 1 /\ Head(q) = q[1]
      /\ \A i \in 1 .. Len(q) - 1 : T[i] = q[i + 1]
    OBVIOUS
<1>2. Len(q) \in Nat \ {0}
    OBVIOUS
<1>3. L \in Seq(P) /\ Len(L) = Len(q) /\ \A i \in 1 .. Len(q) : L[i] = LetterIn(s, q[i])
    BY LettersFacts
<1> HIDE DEF T
<1>4. /\ Letters(s, T) \in Seq(P) /\ Len(Letters(s, T)) = Len(q) - 1
      /\ \A i \in 1 .. Len(q) - 1 : Letters(s, T)[i] = LetterIn(s, T[i])
    BY <1>1, LettersFacts
<1> HIDE DEF L, P
<1>5. L # <<>> /\ Head(L) = L[1]
    BY <1>2, <1>3
<1>6. /\ Tail(L) \in Seq(P) /\ Len(Tail(L)) = Len(q) - 1
      /\ \A i \in 1 .. Len(q) - 1 : Tail(L)[i] = L[i + 1]
    BY <1>3, <1>5
<1>7. ASSUME NEW i \in 1 .. Len(q) - 1 PROVE Letters(s, T)[i] = Tail(L)[i]
    <2>1. i + 1 \in 1 .. Len(q)
        BY <1>2
    <2>2. Tail(L)[i] = LetterIn(s, q[i + 1])
        BY <1>3, <1>6, <2>1
    <2>3. Letters(s, T)[i] = LetterIn(s, T[i])
        BY <1>4
    <2>4. T[i] = q[i + 1]
        BY <1>1
    <2> QED BY <2>2, <2>3, <2>4
<1>8. Letters(s, T) = Tail(L)
    BY <1>4, <1>6, <1>7, SeqEqual
<1>9. Head(L) = LetterIn(s, Head(q))
    <2>1. 1 \in 1 .. Len(q)
        BY <1>2
    <2> QED BY <1>1, <1>3, <1>5, <2>1
<1> QED BY <1>5, <1>8, <1>9 DEF L, T

LEMMA LettersCut ==
    ASSUME NEW s, NEW q \in Seq(Message), NEW i \in 1 .. Len(q)
    PROVE  /\ SubSeq(q, 1, i - 1) \in Seq(Message)
           /\ Letters(s, SubSeq(q, 1, i - 1)) = SubSeq(Letters(s, q), 1, i - 1) \o <<>>
<1> DEFINE T == SubSeq(q, 1, i - 1)
           P == {LetterIn(s, x) : x \in Message}
           L == Letters(s, q)
           B == SubSeq(L, 1, i - 1)
<1>1. /\ T \in Seq(Message) /\ Len(T) = i - 1
      /\ \A j \in 1 .. i - 1 : T[j] = q[j]
    OBVIOUS
<1>2. L \in Seq(P) /\ Len(L) = Len(q) /\ \A j \in 1 .. Len(q) : L[j] = LetterIn(s, q[j])
    BY LettersFacts
<1>3. Len(q) \in Nat /\ i \in Nat /\ 1 .. i - 1 \subseteq 1 .. Len(q)
    OBVIOUS
<1> HIDE DEF T
<1>4. /\ Letters(s, T) \in Seq(P) /\ Len(Letters(s, T)) = i - 1
      /\ \A j \in 1 .. i - 1 : Letters(s, T)[j] = LetterIn(s, T[j])
    BY <1>1, LettersFacts
<1> HIDE DEF L, P
<1>5. B \in Seq(P) /\ Len(B) = i - 1 /\ \A j \in 1 .. i - 1 : B[j] = L[j]
    BY <1>2, <1>3
<1> HIDE DEF B
<1>6. ASSUME NEW j \in 1 .. i - 1 PROVE Letters(s, T)[j] = B[j]
    <2>1. B[j] = LetterIn(s, q[j])
        BY <1>2, <1>3, <1>5
    <2>2. Letters(s, T)[j] = LetterIn(s, T[j])
        BY <1>4
    <2>3. T[j] = q[j]
        BY <1>1
    <2> QED BY <2>1, <2>2, <2>3
<1>7. Letters(s, T) = B
    BY <1>4, <1>5, <1>6, SeqEqual
<1>8. B \o <<>> = B
    BY <1>5, ConcatEmptySeq
<1> QED BY <1>1, <1>7, <1>8 DEF B, L, T

\* Messages that are not on a queue are not taken out of it.
LEMMA UnlinkAbsent ==
    ASSUME NEW q, NEW m, ~Contains(q, m)
    PROVE  Unlink(q, m) = q
BY DEF Unlink

LEMMA UnlinkAppended ==
    ASSUME NEW q \in Seq(Message), IsInjective(q), NEW m \in Message, ~Contains(q, m)
    PROVE  /\ Unlink(Append(q, m), m) = q
           /\ \A x : x # m => Unlink(Append(q, m), x) = Append(Unlink(q, x), m)
<1> DEFINE A == Append(q, m)
           N == Len(q)
<1>1. /\ A \in Seq(Message) /\ Len(A) = N + 1 /\ A[N + 1] = m /\ N \in Nat
      /\ \A i \in 1 .. N : A[i] = q[i]
    OBVIOUS
<1>2. DOMAIN A = 1 .. N + 1 /\ DOMAIN q = 1 .. N
    BY <1>1
<1>3. \A x : Contains(A, x) <=> Contains(q, x) \/ x = m
    BY AppendFacts
<1> HIDE DEF A
<1>4. \A i \in 1 .. N : q[i] # m
    BY DEF Contains
<1>5. Unlink(A, m) = q
    <2>1. Position(A, m) = N + 1
        <3>1. \A i \in 1 .. N + 1 : A[i] = m <=> i = N + 1
            BY <1>1, <1>4
        <3>2. N + 1 \in DOMAIN A /\ \A i \in DOMAIN A : A[i] = m <=> i = N + 1
            BY <1>1, <1>2, <3>1
        <3> HIDE DEF N
        <3> QED BY <3>2 DEF Position
    <2>2. N + 1 \in DOMAIN A
        BY <1>1, <1>2
    <2>3. /\ RemoveAt(A, N + 1) \in Seq(Message) /\ Len(RemoveAt(A, N + 1)) = N
          /\ \A j \in 1 .. N : RemoveAt(A, N + 1)[j] = A[j]
        <3>1. /\ RemoveAt(A, N + 1) \in Seq(Message)
              /\ Len(RemoveAt(A, N + 1)) = Len(A) - 1
              /\ \A j \in 1 .. Len(A) - 1 :
                   (j < N + 1 => RemoveAt(A, N + 1)[j] = A[j])
                   /\ (j >= N + 1 => RemoveAt(A, N + 1)[j] = A[j + 1])
            BY <1>1, <2>2, RemoveAtElements
        <3>2. Len(A) - 1 = N /\ \A j \in 1 .. N : j < N + 1
            BY <1>1
        <3> QED BY <3>1, <3>2
    <2>4. RemoveAt(A, N + 1) = q
        BY <1>1, <2>3, SeqEqual
    <2> QED BY <1>3, <2>1, <2>4 DEF Unlink
<1>6. ASSUME NEW x, x # m PROVE Unlink(A, x) = Append(Unlink(q, x), m)
    <2>1. CASE ~Contains(q, x)
        BY <1>3, <1>6, <2>1 DEF Unlink, A
    <2>2. CASE Contains(q, x)
        <3>1. PICK i \in 1 .. N : q[i] = x
            BY <2>2 DEF Contains
        <3>2. Position(q, x) = i
            <4>1. i \in DOMAIN q /\ \A j \in DOMAIN q : q[j] = x <=> j = i
                BY <1>2, <3>1 DEF IsInjective
            <4> QED BY <4>1 DEF Position
        <3>3. Position(A, x) = i
            <4>1. i \in DOMAIN A /\ \A j \in DOMAIN A : A[j] = x <=> j = i
                <5>1. \A j \in 1 .. N + 1 : j \in 1 .. N \/ j = N + 1
                    BY <1>1
                <5>2. \A j \in 1 .. N : A[j] = x <=> j = i
                    BY <1>1, <1>2, <3>1 DEF IsInjective
                <5>3. i \in 1 .. N + 1
                    BY <1>1, <3>1
                <5>4. ~(N + 1 \in 1 .. N)
                    BY <1>1
                <5> QED BY <1>1, <1>2, <1>6, <3>1, <5>1, <5>2, <5>3, <5>4
            <4> QED BY <4>1 DEF Position
        <3> DEFINE R == RemoveAt(q, i)
                   Q == RemoveAt(A, i)
                   B == Append(R, m)
        <3>4. /\ R \in Seq(Message) /\ Len(R) = N - 1
              /\ \A j \in 1 .. N - 1 : (j < i => R[j] = q[j]) /\ (j >= i => R[j] = q[j + 1])
            BY <1>2, <3>1, RemoveAtElements
        <3>5. /\ Q \in Seq(Message) /\ Len(Q) = N
              /\ \A j \in 1 .. N : (j < i => Q[j] = A[j]) /\ (j >= i => Q[j] = A[j + 1])
            <4>1. i \in DOMAIN A /\ Len(A) - 1 = N
                BY <1>1, <1>2, <3>1
            <4>2. /\ Q \in Seq(Message) /\ Len(Q) = Len(A) - 1
                  /\ \A j \in 1 .. Len(A) - 1 :
                        (j < i => Q[j] = A[j]) /\ (j >= i => Q[j] = A[j + 1])
                BY <1>1, <4>1, RemoveAtElements
            <4> QED BY <4>1, <4>2
        <3> HIDE DEF R, Q
        <3>6. /\ B \in Seq(Message) /\ Len(B) = N /\ B[N] = m
              /\ \A j \in 1 .. N - 1 : B[j] = R[j]
            BY <1>1, <3>1, <3>4
        <3> HIDE DEF B
        <3>7. ASSUME NEW j \in 1 .. N PROVE Q[j] = B[j]
            <4>1. CASE j = N
                <5>1. j >= i /\ A[j + 1] = m
                    BY <1>1, <3>1, <4>1
                <5> QED BY <3>5, <3>6, <4>1, <5>1
            <4>2. CASE j # N
                <5>1. j \in 1 .. N - 1 /\ j + 1 \in 1 .. N
                    BY <1>1, <4>2
                <5>2. j < i \/ j >= i
                    BY <3>1
                <5>3. A[j] = q[j] /\ A[j + 1] = q[j + 1] /\ B[j] = R[j]
                    BY <1>1, <3>6, <5>1
                <5> QED BY <3>4, <3>5, <5>1, <5>2, <5>3
            <4> QED BY <4>1, <4>2
        <3>8. Q = B
            BY <3>5, <3>6, <3>7, SeqEqual
        <3>9. Contains(A, x)
            BY <1>3, <2>2
        <3> QED BY <2>2, <3>2, <3>3, <3>8, <3>9 DEF Unlink, Q, B, R
    <2> QED BY <2>1, <2>2
<1> QED BY <1>5, <1>6 DEF A

-----------------------------------------------------------------------------
\* A receiver has one node.
LEMMA NodeIs ==
    ASSUME NEW k, NEW s, Orderly(k, s), NEW p \in Receiver, NEW n \in Node, s.owner[n] = p
    PROVE  NodeAt(s, p) = n
<1>1. PICK C, l : Lined(k, s, C, l) /\ \A x \in Node \ NodesOf(C) : s.owner[x] = Idle
    BY DEF Orderly, LinedUp
<1>2. Ordered(s, C, l)
    BY <1>1 DEF Lined
<1>3. ASSUME NEW x \in Node, s.owner[x] = p PROVE x = n
    <2>1. p # Idle
        BY DEF Receiver
    <2>2. x \in NodesOf(C) /\ n \in NodesOf(C)
        BY <1>1, <1>3, <2>1
    <2>3. PICK i \in 1 .. Len(C) : x = C[i]
        BY <2>2 DEF NodesOf, UpTo
    <2>4. PICK j \in 1 .. Len(C) : n = C[j]
        BY <2>2 DEF NodesOf, UpTo
    <2> QED BY <1>2, <1>3, <2>3, <2>4 DEF Ordered
<1> QED BY <1>3 DEF NodeAt

\* What a process waits for is a type, and nothing if it does not receive.
LEMMA WaitsFacts ==
    ASSUME NEW k, NEW s, Orderly(k, s), NEW p \in Receiver
    PROVE  /\ InReceive(k, p) =>
                \E n \in Node : s.owner[n] = p /\ WaitsIn(k, s, p) = s.waitsFor[n]
           /\ InReceive(k, p) <=> WaitsIn(k, s, p) \in Types
           /\ ~InReceive(k, p) <=> WaitsIn(k, s, p) = NoNode
           /\ NoNode \notin Types
<1>1. PICK C, l : Lined(k, s, C, l)
    BY DEF Orderly, LinedUp
<1>2. UpTo(C, l) \subseteq Node
    BY <1>1, OrderedFacts DEF Lined
<1>3. ASSUME InReceive(k, p)
      PROVE  \E n \in Node : s.owner[n] = p /\ WaitsIn(k, s, p) = s.waitsFor[n]
    <2>1. PICK n \in Node : s.owner[n] = p
        BY <1>1, <1>2, <1>3 DEF Lined
    <2>2. NodeAt(s, p) = n
        BY <2>1, NodeIs
    <2> QED BY <1>3, <2>1, <2>2 DEF WaitsIn
<1>4. InReceive(k, p) => WaitsIn(k, s, p) \in Types
    BY <1>3 DEF Orderly, MessState
<1>5. ~InReceive(k, p) => WaitsIn(k, s, p) = NoNode
    BY DEF WaitsIn
<1>6. NoNode \notin Types
    BY MessagesAssumption
<1> QED BY <1>3, <1>4, <1>5, <1>6

\* The node of p is in s and in y, with what p waits for.
NodeKept(s, y, p) ==
    \E n \in Node : s.owner[n] = p /\ y.owner[n] = p /\ y.waitsFor[n] = s.waitsFor[n]

\* p keeps what it waits for.
WaitKept(k, s, k2, y, p) ==
    (InReceive(k2, p) <=> InReceive(k, p)) /\ (InReceive(k, p) => NodeKept(s, y, p))

LEMMA WaitsSame ==
    ASSUME NEW k, NEW s, Orderly(k, s), NEW k2, NEW y, Orderly(k2, y), NEW p \in Receiver,
           WaitKept(k, s, k2, y, p)
    PROVE  WaitsIn(k2, y, p) = WaitsIn(k, s, p)
<1>1. CASE ~InReceive(k, p)
    BY <1>1 DEF WaitsIn, WaitKept
<1>2. CASE InReceive(k, p)
    <2>1. PICK n \in Node : /\ s.owner[n] = p /\ y.owner[n] = p
                            /\ y.waitsFor[n] = s.waitsFor[n]
        BY <1>2 DEF WaitKept, NodeKept
    <2>2. NodeAt(s, p) = n /\ NodeAt(y, p) = n
        BY <2>1, NodeIs
    <2> QED BY <1>2, <2>1, <2>2 DEF WaitsIn, WaitKept
<1> QED BY <1>1, <1>2

\* p keeps its mail, and the messages in it their types.
MailKept(s, y, p) ==
    /\ y.queue[p] = s.queue[p] /\ y.result[p] = s.result[p]
    /\ \A m \in Message : Contains(s.queue[p], m) \/ s.result[p] = m => y.kind[m] = s.kind[m]

LEMMA MailSame ==
    ASSUME NEW k, NEW s, Orderly(k, s), NEW y, NEW p \in Process, MailKept(s, y, p)
    PROVE  InboxIn(y, p) = InboxIn(s, p) /\ GotIn(y, p) = GotIn(s, p)
<1> DEFINE q == Unlink(s.queue[p], s.result[p])
<1>1. s \in MessState /\ s.queue[p] \in Seq(Message) /\ IsInjective(s.queue[p])
    BY DEF Orderly, MessState, Mailed
<1>2. q \in Seq(Message) /\ \A m : Contains(q, m) => Contains(s.queue[p], m)
    BY <1>1, UnlinkMessage
<1>3. q = Unlink(y.queue[p], y.result[p])
    BY DEF MailKept
<1> HIDE DEF q
<1>4. \A m \in Message : Contains(q, m) => y.kind[m] = s.kind[m]
    BY <1>2 DEF MailKept
<1>5. Letters(y, q) = Letters(s, q)
    BY <1>2, <1>4, LettersSame
<1>6. GotIn(y, p) = GotIn(s, p)
    <2>1. CASE s.result[p] = NoMessage
        BY <2>1 DEF GotIn, MailKept
    <2>2. CASE s.result[p] # NoMessage
        <3>1. s.result[p] \in Message
            BY <1>1, <2>2 DEF MessState
        <3> QED BY <2>2, <3>1 DEF GotIn, MailKept, LetterIn
    <2> QED BY <2>1, <2>2
<1> QED BY <1>3, <1>5, <1>6 DEF InboxIn, q

\* The boxes of all but c stay what they are.
OnlyBoxOf(k, s, k2, y, c) ==
    \A p \in Receiver : p # c => WaitKept(k, s, k2, y, p) /\ MailKept(s, y, p)

LEMMA BoxesBut ==
    ASSUME NEW k, NEW s, Orderly(k, s), NEW k2, NEW y, Orderly(k2, y), NEW c \in Receiver,
           OnlyBoxOf(k, s, k2, y, c)
    PROVE  /\ Inboxes(y) = [Inboxes(s) EXCEPT ![c] = InboxIn(y, c)]
           /\ Waits(k2, y) = [Waits(k, s) EXCEPT ![c] = WaitsIn(k2, y, c)]
           /\ Gots(y) = [Gots(s) EXCEPT ![c] = GotIn(y, c)]
<1>1. \A p \in Receiver : p \in Process
    BY DEF Receiver
<1>2. ASSUME NEW p \in Receiver, p # c
      PROVE  /\ InboxIn(y, p) = InboxIn(s, p) /\ GotIn(y, p) = GotIn(s, p)
             /\ WaitsIn(k2, y, p) = WaitsIn(k, s, p)
    BY <1>1, <1>2, WaitsSame, MailSame DEF OnlyBoxOf
<1> QED BY <1>2 DEF Inboxes, Waits, Gots

\* Everything stays what it is.
LEMMA BoxesSame ==
    ASSUME NEW k, NEW s, Orderly(k, s), NEW k2, NEW y, Orderly(k2, y),
           \A p \in Receiver : WaitKept(k, s, k2, y, p) /\ MailKept(s, y, p)
    PROVE  Boxes(k2, y) = Boxes(k, s)
<1>1. \A p \in Receiver : p \in Process
    BY DEF Receiver
<1>2. ASSUME NEW p \in Receiver
      PROVE  /\ InboxIn(y, p) = InboxIn(s, p) /\ GotIn(y, p) = GotIn(s, p)
             /\ WaitsIn(k2, y, p) = WaitsIn(k, s, p)
    BY <1>1, <1>2, WaitsSame, MailSame
<1>3. Inboxes(y) = Inboxes(s) /\ Waits(k2, y) = Waits(k, s) /\ Gots(y) = Gots(s)
    BY <1>2 DEF Inboxes, Waits, Gots
<1> QED BY <1>3 DEF Boxes

\* Writing what is there.
LEMMA PartsStay ==
    ASSUME NEW k, NEW s, NEW c \in Receiver
    PROVE  /\ [Inboxes(s) EXCEPT ![c] = InboxIn(s, c)] = Inboxes(s)
           /\ [Waits(k, s) EXCEPT ![c] = WaitsIn(k, s, c)] = Waits(k, s)
           /\ [Gots(s) EXCEPT ![c] = GotIn(s, c)] = Gots(s)
BY DEF Inboxes, Waits, Gots

LEMMA PartsAt ==
    ASSUME NEW k, NEW s, NEW p \in Receiver
    PROVE  /\ Inboxes(s)[p] = InboxIn(s, p) /\ Waits(k, s)[p] = WaitsIn(k, s, p)
           /\ Gots(s)[p] = GotIn(s, p)
BY DEF Inboxes, Waits, Gots

-----------------------------------------------------------------------------
\* Only the mail of c changes.
LEMMA MailBut ==
    ASSUME NEW k, NEW s, Orderly(k, s), NEW c \in Process, NEW q \in Seq(Message),
           NEW m \in Message \cup {NoMessage}, NEW r, r = Mail(s, c, q, m),
           NEW y, IsTidy(y, r),
           NEW k2, \A p \in Receiver : p # c => (InReceive(k2, p) <=> InReceive(k, p))
    PROVE  /\ OnlyBoxOf(k, s, k2, y, c)
           /\ y.queue[c] = q /\ y.result[c] = m
           /\ \A x \in Message : Contains(q, x) \/ m = x => y.kind[x] = s.kind[x]
<1>1. s \in MessState
    BY DEF Orderly
<1>2. PICK C, l : Lined(k, s, C, l)
    BY DEF Orderly, LinedUp
<1>3. Ordered(s, C, l)
    BY <1>2 DEF Lined
<1>4. /\ r \in MessState
      /\ r.first = s.first /\ r.last = s.last /\ r.next = s.next /\ r.owner = s.owner
      /\ r.waitsFor = s.waitsFor /\ r.kind = s.kind
      /\ r.queue[c] = q /\ r.result[c] = m
      /\ \A p \in Process : p # c => r.queue[p] = s.queue[p] /\ r.result[p] = s.result[p]
    BY <1>1, MailFacts
<1>5. Ordered(r, C, l)
    BY <1>3, <1>4 DEF Ordered
<1>6. /\ y.queue = r.queue /\ y.result = r.result
      /\ \A n \in NodesOf(C) : y.owner[n] = r.owner[n] /\ y.waitsFor[n] = r.waitsFor[n]
      /\ \A x \in Message : ~Unused(r, x) => y.kind[x] = r.kind[x]
    BY <1>4, <1>5, TidyFacts
<1>7. UpTo(C, l) \subseteq NodesOf(C) /\ NodesOf(C) \subseteq Node
    BY <1>3, OrderedFacts
<1>8. ASSUME NEW p, InReceive(k, p) PROVE NodeKept(s, y, p)
    <2>1. PICK n \in UpTo(C, l) : s.owner[n] = p
        BY <1>2, <1>8 DEF Lined
    <2> QED BY <1>4, <1>6, <1>7, <2>1 DEF NodeKept
<1>9. ASSUME NEW p \in Process, NEW x \in Message, Contains(r.queue[p], x) \/ r.result[p] = x
      PROVE  y.kind[x] = s.kind[x]
    BY <1>4, <1>6, <1>9 DEF Unused
<1>10. ASSUME NEW p \in Receiver, p # c
       PROVE  WaitKept(k, s, k2, y, p) /\ MailKept(s, y, p)
    <2>1. p \in Process
        BY DEF Receiver
    <2>2. WaitKept(k, s, k2, y, p)
        BY <1>8, <1>10 DEF WaitKept
    <2> QED BY <1>4, <1>6, <1>9, <1>10, <2>1, <2>2 DEF MailKept
<1> QED BY <1>4, <1>6, <1>9, <1>10 DEF OnlyBoxOf

LEMMA NoMail ==
    ASSUME NEW s, NEW y, NEW p, y.queue[p] = <<>>, y.result[p] = NoMessage
    PROVE  InboxIn(y, p) = <<>> /\ GotIn(y, p) = NoMessage
<1>1. Unlink(<<>>, NoMessage) = <<>>
    BY DEF Unlink, Contains
<1>2. Letters(y, <<>>) = <<>>
    BY DEF Letters
<1> QED BY <1>1, <1>2 DEF InboxIn, GotIn

\* A process that dies, or whose PCB goes, leaves an empty box.
LEMMA DeathClears ==
    ASSUME Orderly(ke, mess), Orderly(ke', mess'), NEW k, Quiet(k),
           NEW p \in Process, p # Idle, p \notin k.scheduled,
           k.scheduled = ke.scheduled \ {p}, SleepersBut(ke, k, p),
           NEW left \in States, left # "running",
           ke' = [k EXCEPT !.state[p] = left, !.priority[p] = 0],
           Becomes(MessDeleteMessageQueue(mess, p))
    PROVE  p \in Receiver /\ Boxes(ke', mess') = Promise!Clear(Boxes(ke, mess), p)
<1> DEFINE e == [k EXCEPT !.state[p] = left, !.priority[p] = 0]
           r == MessDeleteMessageQueue(mess, p)
<1>1. Quiet(ke) /\ ke' = e /\ IsTidy(mess', r)
    BY DEF Orderly, Becomes, IsTidy
<1>3. e.scheduled = k.scheduled /\ e.timer = k.timer /\ e.method = k.method
    BY ForgetQuiet
<1>4. r = Mail(mess, p, <<>>, NoMessage)
    BY DEF MessDeleteMessageQueue, Mail
<1> HIDE DEF e, r
<1>5. ke.scheduled \subseteq Process
    BY <1>1, QuietFacts
<1>6. ~InReceive(ke', p) /\ \A x : x # p => (InReceive(ke', x) <=> InReceive(ke, x))
    BY <1>1, <1>3, <1>5 DEF InReceive, SleepersBut
<1>7. /\ OnlyBoxOf(ke, mess, ke', mess', p)
      /\ mess'.queue[p] = <<>> /\ mess'.result[p] = NoMessage
    <2> DEFINE E == <<>>
    <2>1. E \in Seq(Message) /\ NoMessage \in Message \cup {NoMessage}
        OBVIOUS
    <2>2. \A x \in Receiver : x # p => (InReceive(ke', x) <=> InReceive(ke, x))
        BY <1>6
    <2>3. r = Mail(mess, p, E, NoMessage) /\ IsTidy(mess', r)
        BY <1>1, <1>4
    <2> HIDE DEF E
    <2>4. /\ OnlyBoxOf(ke, mess, ke', mess', p)
          /\ mess'.queue[p] = E /\ mess'.result[p] = NoMessage
          /\ \A x \in Message : Contains(E, x) \/ NoMessage = x =>
                mess'.kind[x] = mess.kind[x]
        BY <2>1, <2>2, <2>3, MailBut
    <2> QED BY <2>4 DEF E
<1>8. p \in Receiver
    BY <1>1 DEF Receiver
<1>9. InboxIn(mess', p) = <<>> /\ GotIn(mess', p) = NoMessage
    BY <1>7, NoMail
<1>10. WaitsIn(ke', mess', p) = NoNode
    BY <1>6 DEF WaitsIn
<1>11. /\ Inboxes(mess') = [Inboxes(mess) EXCEPT ![p] = <<>>]
       /\ Waits(ke', mess') = [Waits(ke, mess) EXCEPT ![p] = NoNode]
       /\ Gots(mess') = [Gots(mess) EXCEPT ![p] = NoMessage]
    BY <1>7, <1>8, <1>9, <1>10, BoxesBut
<1> DEFINE I == [Inboxes(mess) EXCEPT ![p] = <<>>]
           W == [Waits(ke, mess) EXCEPT ![p] = NoNode]
           G == [Gots(mess) EXCEPT ![p] = NoMessage]
<1>12. Promise!Clear(Box(Inboxes(mess), Waits(ke, mess), Gots(mess)), p) = Box(I, W, G)
    BY ClearIs
<1>13. Inboxes(mess') = I /\ Waits(ke', mess') = W /\ Gots(mess') = G
    BY <1>11
<1> HIDE DEF I, W, G
<1> QED BY <1>8, <1>12, <1>13 DEF Boxes

\* The current process waits for nothing.
LEMMA CurrentWaits ==
    ASSUME Orderly(ke, mess), ke.current # Idle
    PROVE  /\ ke.current \in Receiver /\ ke.current \in Process
           /\ ~InReceive(ke, ke.current) /\ WaitsIn(ke, mess, ke.current) = NoNode
           /\ mess.queue[ke.current] \in Seq(Message) /\ IsInjective(mess.queue[ke.current])
<1>1. Quiet(ke)
    BY DEF Orderly
<1>2. ke.current \in Process /\ ~InReceive(ke, ke.current)
    BY <1>1, QuietFacts DEF InReceive
<1> QED BY <1>2 DEF Receiver, WaitsIn, Orderly, MessState, Mailed

\* The inbox of a process that has got no message is its queue.
LEMMA InboxIsQueue ==
    ASSUME NEW s, NEW c, s.queue[c] \in Seq(Message), s.result[c] = NoMessage
    PROVE  InboxIn(s, c) = Letters(s, s.queue[c]) /\ GotIn(s, c) = NoMessage
<1>1. ~Contains(s.queue[c], NoMessage)
    BY MessagesAssumption DEF Contains
<1> QED BY <1>1, UnlinkAbsent DEF InboxIn, GotIn

\* The current process takes m, and rest stays, which m is not in.
LEMMA TakeBoxes ==
    ASSUME Orderly(ke, mess), ke.current # Idle, NEW m \in Message, NEW rest \in Seq(Message),
           ~Contains(rest, m), Orderly(ke', mess'), Take(m, rest)
    PROVE  Boxes(ke', mess') = Box([Inboxes(mess) EXCEPT ![ke.current] = Letters(mess, rest)],
                                   Waits(ke, mess),
                                   [Gots(mess) EXCEPT ![ke.current] = LetterIn(mess, m)])
<1> DEFINE c == ke.current
           r == [mess EXCEPT !.queue[c] = rest, !.result[c] = m]
<1>1. IsTidy(mess', r) /\ ke' = ke
    BY DEF Take, Becomes, IsTidy
<1>2. r = Mail(mess, c, rest, m)
    BY DEF Mail
<1>3. c \in Receiver /\ c \in Process /\ WaitsIn(ke, mess, c) = NoNode /\ ~InReceive(ke, c)
    BY CurrentWaits
<1> HIDE DEF r, c
<1>4. \A p \in Receiver : p # c => (InReceive(ke', p) <=> InReceive(ke, p))
    BY <1>1
<1>5. /\ OnlyBoxOf(ke, mess, ke', mess', c)
      /\ mess'.queue[c] = rest /\ mess'.result[c] = m
      /\ \A x \in Message : Contains(rest, x) \/ m = x => mess'.kind[x] = mess.kind[x]
    <2>1. m \in Message \cup {NoMessage}
        OBVIOUS
    <2> QED BY <1>1, <1>2, <1>3, <1>4, <2>1, MailBut
<1>6. InboxIn(mess', c) = Letters(mess, rest)
    <2>1. Letters(mess', rest) = Letters(mess, rest)
        BY <1>5, LettersSame
    <2>2. Unlink(rest, m) = rest
        BY UnlinkAbsent
    <2> QED BY <1>5, <2>1, <2>2 DEF InboxIn
<1>7. GotIn(mess', c) = LetterIn(mess, m)
    <2>1. m # NoMessage
        BY MessagesAssumption
    <2> QED BY <1>5, <2>1 DEF GotIn, LetterIn
<1>8. WaitsIn(ke', mess', c) = WaitsIn(ke, mess, c)
    BY <1>1, <1>3 DEF WaitsIn
<1>9. /\ Inboxes(mess') = [Inboxes(mess) EXCEPT ![c] = Letters(mess, rest)]
      /\ Waits(ke', mess') = [Waits(ke, mess) EXCEPT ![c] = WaitsIn(ke, mess, c)]
      /\ Gots(mess') = [Gots(mess) EXCEPT ![c] = LetterIn(mess, m)]
    BY <1>3, <1>5, <1>6, <1>7, <1>8, BoxesBut
<1>10. [Waits(ke, mess) EXCEPT ![c] = WaitsIn(ke, mess, c)] = Waits(ke, mess)
    BY <1>3, PartsStay
<1> QED BY <1>9, <1>10 DEF Boxes, c

\* A message that is deleted was in its receiver's inbox no more.
LEMMA DeleteDeletes ==
    ASSUME Orderly(ke, mess), Orderly(ke', mess'), MessDeleteMessage
    PROVE  /\ ke.current \in Receiver
           /\ Gots(mess)[ke.current] # NoMessage
           /\ Boxes(ke', mess') = Promise!Delete(Boxes(ke, mess), ke.current)
<1> DEFINE c == ke.current
           m == mess.result[c]
           rest == Unlink(mess.queue[c], m)
           r == [mess EXCEPT !.queue[c] = rest, !.result[c] = NoMessage]
<1>1. IsTidy(mess', r) /\ ke' = ke /\ c # Idle /\ m # NoMessage
    BY DEF MessDeleteMessage, Calls, Becomes, IsTidy
<1>2. r = Mail(mess, c, rest, NoMessage)
    BY DEF Mail
<1>3. /\ c \in Receiver /\ c \in Process /\ WaitsIn(ke, mess, c) = NoNode
      /\ ~InReceive(ke, c) /\ mess.queue[c] \in Seq(Message) /\ IsInjective(mess.queue[c])
    BY <1>1, CurrentWaits
<1>4. rest \in Seq(Message)
    BY <1>3, UnlinkMessage
<1>5. m \in Message
    BY <1>1, <1>3 DEF Orderly, MessState
<1>6. InboxIn(mess, c) = Letters(mess, rest) /\ GotIn(mess, c) = LetterIn(mess, m)
    BY <1>1 DEF InboxIn, GotIn
<1> HIDE DEF r, rest, m, c
<1>7. \A p \in Receiver : p # c => (InReceive(ke', p) <=> InReceive(ke, p))
    BY <1>1
<1>8. /\ OnlyBoxOf(ke, mess, ke', mess', c)
      /\ mess'.queue[c] = rest /\ mess'.result[c] = NoMessage
      /\ \A x \in Message : Contains(rest, x) \/ NoMessage = x => mess'.kind[x] = mess.kind[x]
    <2>1. NoMessage \in Message \cup {NoMessage}
        OBVIOUS
    <2> QED BY <1>1, <1>2, <1>3, <1>4, <1>7, <2>1, MailBut
<1>9. InboxIn(mess', c) = InboxIn(mess, c) /\ GotIn(mess', c) = NoMessage
    <2>1. Letters(mess', rest) = Letters(mess, rest)
        BY <1>4, <1>8, LettersSame
    <2> QED BY <1>4, <1>6, <1>8, <2>1, InboxIsQueue
<1>10. WaitsIn(ke', mess', c) = WaitsIn(ke, mess, c)
    BY <1>1, <1>3 DEF WaitsIn
<1>11. /\ Inboxes(mess') = Inboxes(mess) /\ Waits(ke', mess') = Waits(ke, mess)
       /\ Gots(mess') = [Gots(mess) EXCEPT ![c] = NoMessage]
    <2>1. /\ Inboxes(mess') = [Inboxes(mess) EXCEPT ![c] = InboxIn(mess, c)]
          /\ Waits(ke', mess') = [Waits(ke, mess) EXCEPT ![c] = WaitsIn(ke, mess, c)]
          /\ Gots(mess') = [Gots(mess) EXCEPT ![c] = NoMessage]
        BY <1>3, <1>8, <1>9, <1>10, BoxesBut
    <2> DEFINE I == [Inboxes(mess) EXCEPT ![c] = InboxIn(mess, c)]
               W == [Waits(ke, mess) EXCEPT ![c] = WaitsIn(ke, mess, c)]
    <2>2. I = Inboxes(mess) /\ W = Waits(ke, mess)
        BY <1>3, PartsStay
    <2>3. Inboxes(mess') = I /\ Waits(ke', mess') = W
        BY <2>1
    <2> HIDE DEF I, W
    <2> QED BY <2>1, <2>2, <2>3
<1>12. Boxes(ke', mess') = Promise!Delete(Boxes(ke, mess), c)
    <2> DEFINE G == [Gots(mess) EXCEPT ![c] = NoMessage]
    <2>1. Promise!Delete(Box(Inboxes(mess), Waits(ke, mess), Gots(mess)), c)
              = Box(Inboxes(mess), Waits(ke, mess), G)
        BY DeleteIs
    <2>2. Gots(mess') = G
        BY <1>11
    <2> HIDE DEF G
    <2> QED BY <1>11, <2>1, <2>2 DEF Boxes
<1>13. LetterIn(mess, m) # NoMessage
    <2>1. LetterIn(mess, m) \in [id : Message, type : Types]
        BY <1>5 DEF LetterIn, Orderly, MessState
    <2> QED BY <2>1, MessagesAssumption
<1>14. Gots(mess)[c] = LetterIn(mess, m)
    BY <1>3, <1>6, PartsAt
<1> QED BY <1>3, <1>12, <1>13, <1>14 DEF c

\* The current process begins to wait for type t, and nothing else changes.
LEMMA WaitBoxes ==
    ASSUME Orderly(ke, mess), ke.current # Idle, mess.result[ke.current] = NoMessage,
           NEW ms \in TimeOuts, NEW t \in Types, Wait(ms, t), Orderly(ke', mess')
    PROVE  Boxes(ke', mess') = Box(Inboxes(mess), [Waits(ke, mess) EXCEPT ![ke.current] = t],
                                   Gots(mess))
<1> DEFINE c == ke.current
           w == AddProcessToQueue(mess, c, t)
<1>1. /\ Quiet(ke) /\ mess \in MessState
      /\ Node \ Linked(mess) # {} /\ ke' = KeSuspendProcess(ke, ms, TRUE)
      /\ ms \in Ulong /\ TRUE \in BOOLEAN /\ ke.current # Idle
    BY MessagesAssumption DEF Orderly, Wait
<1>2. IsTidy(mess', w) /\ IsAdded(w, mess, c, t)
    BY DEF Wait, Becomes, IsTidy, IsAdded
<1> HIDE DEF w
<1>3. /\ c \in Process /\ c \in ke.scheduled /\ ~InReceive(ke, c)
      /\ \A x : InReceive(ke', x) <=> InReceive(ke, x) \/ x = c
    <2>1. /\ Quiet(ke') /\ ke'.scheduled = ke.scheduled
          /\ ke.current \in Process /\ ke.current \in ke.scheduled
          /\ ~InReceive(ke, ke.current)
          /\ \A x : InReceive(ke', x) <=> InReceive(ke, x) \/ (x = ke.current /\ TRUE)
        BY <1>1, SuspendedReceivers
    <2> QED BY <2>1
<1>4. PICK C, l : Lined(ke, mess, C, l)
    BY DEF Orderly, LinedUp
<1>5. Ordered(mess, C, l) /\ \A n \in UpTo(C, l) : mess.owner[n] # c
    BY <1>3, <1>4 DEF Lined
<1>6. /\ w \in MessState
      /\ w.queue = mess.queue /\ w.kind = mess.kind /\ w.result = mess.result
      /\ \E n \in Node \ NodesOf(C) : \E D : Entered(w, mess, C, l, D, n, c, t)
    BY <1>1, <1>2, <1>3, <1>5, AddFacts
<1>7. PICK n \in Node \ NodesOf(C) : \E D : Entered(w, mess, C, l, D, n, c, t)
    BY <1>6
<1>8. PICK D : Entered(w, mess, C, l, D, n, c, t)
    BY <1>7
<1>9. UpTo(C, l) \subseteq Node /\ n \notin UpTo(C, l)
    BY <1>5, OrderedFacts
<1>10. /\ Ordered(w, D, l + 1)
       /\ NodesOf(D) = UpTo(C, l) \cup {n}
       /\ w.owner[n] = c /\ w.waitsFor[n] = t
       /\ \A x \in UpTo(C, l) : w.owner[x] = mess.owner[x] /\ w.waitsFor[x] = mess.waitsFor[x]
    BY <1>1, <1>8, <1>9 DEF MessState, Entered
<1>11. /\ mess'.queue = mess.queue /\ mess'.result = mess.result
       /\ \A x \in NodesOf(D) : mess'.owner[x] = w.owner[x] /\ mess'.waitsFor[x] = w.waitsFor[x]
       /\ \A m \in Message : ~Unused(w, m) => mess'.kind[m] = mess.kind[m]
    BY <1>2, <1>6, <1>10, TidyFacts
<1>12. ASSUME NEW p, InReceive(ke, p) PROVE NodeKept(mess, mess', p)
    <2>1. PICK x \in UpTo(C, l) : mess.owner[x] = p
        BY <1>4, <1>12 DEF Lined
    <2> QED BY <1>9, <1>10, <1>11, <2>1 DEF NodeKept
<1>13. ASSUME NEW p \in Process PROVE MailKept(mess, mess', p)
    BY <1>6, <1>11 DEF MailKept, Unused
<1>14. c \in Receiver
    BY <1>1, <1>3 DEF Receiver
<1>15. OnlyBoxOf(ke, mess, ke', mess', c)
    BY <1>3, <1>12, <1>13 DEF OnlyBoxOf, WaitKept, Receiver
<1>16. InboxIn(mess', c) = InboxIn(mess, c) /\ GotIn(mess', c) = GotIn(mess, c)
    BY <1>3, <1>13, MailSame
<1>17. WaitsIn(ke', mess', c) = t
    <2>1. mess'.owner[n] = c /\ mess'.waitsFor[n] = t
        BY <1>10, <1>11
    <2>2. NodeAt(mess', c) = n
        BY <1>14, <2>1, NodeIs
    <2> QED BY <1>3, <2>1, <2>2 DEF WaitsIn
<1> DEFINE I == [Inboxes(mess) EXCEPT ![c] = InboxIn(mess, c)]
           W == [Waits(ke, mess) EXCEPT ![c] = t]
           G == [Gots(mess) EXCEPT ![c] = GotIn(mess, c)]
<1>18. Inboxes(mess') = I /\ Waits(ke', mess') = W /\ Gots(mess') = G
    BY <1>14, <1>15, <1>16, <1>17, BoxesBut
<1>19. I = Inboxes(mess) /\ G = Gots(mess)
    BY <1>14, PartsStay
<1> HIDE DEF I, G
<1> QED BY <1>18, <1>19 DEF Boxes

\* A receiver of any message takes the first of its inbox, or waits.
LEMMA ReceiveFirstTakes ==
    ASSUME Orderly(ke, mess), Orderly(ke', mess'), NEW ms \in TimeOuts, MessReceiveFirst(ms)
    PROVE  /\ ke.current \in Receiver
           /\ Waits(ke, mess)[ke.current] = NoNode /\ Gots(mess)[ke.current] = NoMessage
           /\ Boxes(ke', mess') = Promise!TakeFirst(Boxes(ke, mess), ke.current)
<1> DEFINE c == ke.current
           q == mess.queue[c]
           L == Letters(mess, q)
           I == Inboxes(mess)
           W == Waits(ke, mess)
           G == Gots(mess)
<1>1. c # Idle /\ mess.result[c] = NoMessage
    BY DEF MessReceiveFirst, Receives, Calls
<1>2. /\ c \in Receiver /\ c \in Process /\ WaitsIn(ke, mess, c) = NoNode
      /\ q \in Seq(Message) /\ IsInjective(q)
    BY <1>1, CurrentWaits
<1>3. InboxIn(mess, c) = L /\ GotIn(mess, c) = NoMessage
    BY <1>1, <1>2, InboxIsQueue
<1>4. I[c] = L /\ W[c] = NoNode /\ G[c] = NoMessage
    BY <1>2, <1>3, PartsAt
<1>5. CASE q = <<>>
    <2>1. Wait(ms, MESSAGE_TYPE_FIRST) /\ MESSAGE_TYPE_FIRST \in Types
        BY <1>5, MessagesAssumption DEF MessReceiveFirst
    <2>2. L = <<>>
        BY <1>5 DEF Letters
    <2> DEFINE V == [W EXCEPT ![c] = MESSAGE_TYPE_FIRST]
    <2>3. Boxes(ke', mess') = Box(I, V, G)
        BY <1>1, <2>1, WaitBoxes
    <2>4. Promise!TakeFirst(Box(I, W, G), c) = Box(I, V, G)
        BY <1>4, <2>2, TakeFirstWaits
    <2> HIDE DEF V
    <2>5. Boxes(ke', mess') = Promise!TakeFirst(Boxes(ke, mess), c)
        BY <2>3, <2>4 DEF Boxes
    <2> QED BY <1>2, <1>4, <2>5
<1>6. CASE q # <<>>
    <2>1. Take(Head(q), Tail(q))
        BY <1>6 DEF MessReceiveFirst
    <2>2. /\ Head(q) \in Message /\ Tail(q) \in Seq(Message) /\ ~Contains(Tail(q), Head(q))
        BY <1>2, <1>6, TailFacts
    <2>3. L # <<>> /\ Head(L) = LetterIn(mess, Head(q)) /\ Letters(mess, Tail(q)) = Tail(L)
        BY <1>2, <1>6, LettersTail
    <2> HIDE DEF q
    <2> DEFINE V1 == [I EXCEPT ![c] = Letters(mess, Tail(q))]
               V2 == [G EXCEPT ![c] = LetterIn(mess, Head(q))]
    <2>4. Boxes(ke', mess') = Box(V1, W, V2)
        BY <1>1, <2>1, <2>2, TakeBoxes
    <2>5. I[c] # <<>>
        BY <1>4, <2>3
    <2>6. Promise!TakeFirst(Box(I, W, G), c)
              = Box([I EXCEPT ![c] = Tail(I[c])], W, [G EXCEPT ![c] = Head(I[c])])
        <3> HIDE DEF I, W, G, c
        <3> QED BY <2>5, TakeFirstTakes
    <2>7. [I EXCEPT ![c] = Tail(I[c])] = V1 /\ [G EXCEPT ![c] = Head(I[c])] = V2
        BY <1>4, <2>3
    <2> HIDE DEF V1, V2
    <2>8. Boxes(ke', mess') = Promise!TakeFirst(Boxes(ke, mess), c)
        BY <2>4, <2>6, <2>7 DEF Boxes
    <2> QED BY <1>2, <1>4, <2>8
<1> QED BY <1>5, <1>6

\* Setting the parts that a receive call for a type sets.
SetWaits(b, p, t) == [b EXCEPT !.waits[p] = t]

SetGot(b, p, m, v) == [b EXCEPT !.got[p] = m, !.inbox[p] = v]

LEMMA WaitSet ==
    ASSUME NEW I, NEW W, NEW G, NEW p, NEW t
    PROVE  SetWaits(Box(I, W, G), p, t) = Box(I, [W EXCEPT ![p] = t], G)
BY DEF Box, SetWaits

LEMMA GotSet ==
    ASSUME NEW I, NEW W, NEW G, NEW p, NEW m, NEW v
    PROVE  SetGot(Box(I, W, G), p, m, v) = Box([I EXCEPT ![p] = v], W, [G EXCEPT ![p] = m])
<1> DEFINE V == [G EXCEPT ![p] = m]
           b == Box(I, W, V)
<1>1. [Box(I, W, G) EXCEPT !.got[p] = m] = b
    BY DEF Box
<1>2. [b EXCEPT !.inbox[p] = v] = Box([I EXCEPT ![p] = v], W, V)
    BY DEF Box
<1>3. SetGot(Box(I, W, G), p, m, v)
          = [[Box(I, W, G) EXCEPT !.got[p] = m] EXCEPT !.inbox[p] = v]
    BY DEF SetGot
<1> HIDE DEF b
<1> QED BY <1>1, <1>2, <1>3

\* The parts of the boxes.
LEMMA BoxParts ==
    /\ MailBoxes.inbox = Inboxes(mess) /\ MailBoxes.waits = Waits(ke, mess)
    /\ MailBoxes.got = Gots(mess)
BY BoxesAre DEF Boxes, Box

\* A receiver of a type takes the first message of the type, or waits.
LEMMA ReceiveTypeTakes ==
    ASSUME Orderly(ke, mess), Orderly(ke', mess'), NEW ms \in TimeOuts, NEW t \in Types,
           MessReceiveType(ms, t)
    PROVE  \E p \in Receiver : Promise!ReceiveType(p, t)
<1> DEFINE c == ke.current
           q == mess.queue[c]
           L == Letters(mess, q)
           I == Inboxes(mess)
           W == Waits(ke, mess)
           G == Gots(mess)
           found == {i \in DOMAIN q : mess.kind[q[i]] = t}
           B == MailBoxes.inbox[c]
           F == {x \in DOMAIN B : B[x].type = t}
<1>1. c # Idle /\ mess.result[c] = NoMessage
    BY DEF MessReceiveType, Receives, Calls
<1>2. /\ c \in Receiver /\ c \in Process /\ WaitsIn(ke, mess, c) = NoNode
      /\ q \in Seq(Message) /\ IsInjective(q)
    BY <1>1, CurrentWaits
<1>3. InboxIn(mess, c) = L /\ GotIn(mess, c) = NoMessage
    BY <1>1, <1>2, InboxIsQueue
<1>4. I[c] = L /\ W[c] = NoNode /\ G[c] = NoMessage
    BY <1>2, <1>3, PartsAt
<1>5. B = L /\ MailBoxes.waits[c] = NoNode /\ MailBoxes.got[c] = NoMessage
    BY <1>4, BoxParts
<1>6. /\ DOMAIN q = 1 .. Len(q) /\ DOMAIN L = 1 .. Len(q)
      /\ \A i \in 1 .. Len(q) : L[i] = LetterIn(mess, q[i])
    BY <1>2, LettersFacts
<1>7. F = found
    <2> HIDE DEF L, q, B
    <2>1. \A i \in 1 .. Len(q) : L[i].type = mess.kind[q[i]]
        BY <1>6 DEF LetterIn
    <2> QED BY <1>5, <1>6, <2>1
<1>8. CASE Wait(ms, t) /\ found = {}
    <2> DEFINE V == [W EXCEPT ![c] = t]
    <2>1. Boxes(ke', mess') = Box(I, V, G)
        BY <1>1, <1>8, WaitBoxes
    <2>2. SetWaits(Box(I, W, G), c, t) = Box(I, V, G)
        <3> HIDE DEF I, W, G, c
        <3> QED BY WaitSet
    <2>3. MailBoxes = Box(I, W, G) /\ MailBoxes' = Boxes(ke', mess')
        BY BoxesAre DEF Boxes
    <2> HIDE DEF V, I, W, G, c
    <2>4. MailBoxes' = [MailBoxes EXCEPT !.waits[c] = t]
        BY <2>1, <2>2, <2>3 DEF SetWaits
    <2>5. F = {}
        BY <1>7, <1>8
    <2>6. PICK p \in Receiver : p = c
        BY <1>2
    <2>7. MailBoxes' = [MailBoxes EXCEPT !.waits[p] = t]
        BY <2>4, <2>6
    <2>8. /\ {x \in DOMAIN MailBoxes.inbox[p] : MailBoxes.inbox[p][x].type = t} = {}
          /\ MailBoxes.waits[p] = NoNode /\ MailBoxes.got[p] = NoMessage
        BY <1>5, <2>5, <2>6
    <2>9. Promise!ReceiveType(p, t)
        BY <2>7, <2>8 DEF Promise!ReceiveType, Promise!Idles, MailBoxes
    <2> QED BY <2>9
<1>9. CASE \E i \in found : /\ \A j \in found : i <= j
                            /\ Take(q[i], SubSeq(q, 1, i - 1))
    <2>1. PICK i \in found : /\ \A j \in found : i <= j
                             /\ Take(q[i], SubSeq(q, 1, i - 1))
        BY <1>9
    <2> DEFINE m == q[i]
               rest == SubSeq(q, 1, i - 1)
               v == SubSeq(L, 1, i - 1) \o <<>>
    <2>2. i \in 1 .. Len(q) /\ m \in Message
        BY <1>2, <1>6, <2>1
    <2>3. rest \in Seq(Message) /\ Letters(mess, rest) = v
        BY <1>2, <2>2, LettersCut
    <2>4. ~Contains(rest, m)
        <3>1. Len(rest) = i - 1 /\ \A j \in 1 .. i - 1 : rest[j] = q[j]
            BY <1>2, <2>2
        <3>2. \A j \in 1 .. i - 1 : j \in 1 .. Len(q) /\ j # i
            BY <1>2, <2>2
        <3> HIDE DEF rest, q
        <3>3. \A j \in 1 .. i - 1 : rest[j] # m
            BY <1>2, <1>6, <2>2, <3>1, <3>2 DEF IsInjective
        <3> QED BY <3>1, <3>3 DEF Contains
    <2>5. LetterIn(mess, m) = L[i]
        BY <1>6, <2>2
    <2>6. Take(m, rest)
        BY <2>1
    <2> HIDE DEF m, rest, q, L, v
    <2> DEFINE V1 == [I EXCEPT ![c] = v]
               V2 == [G EXCEPT ![c] = L[i]]
    <2>7. Boxes(ke', mess') = Box(V1, W, V2)
        BY <1>1, <2>2, <2>3, <2>4, <2>5, <2>6, TakeBoxes
    <2>8. SetGot(Box(I, W, G), c, L[i], v) = Box(V1, W, V2)
        <3> HIDE DEF I, W, G, c
        <3> QED BY GotSet
    <2>9. MailBoxes = Box(I, W, G) /\ MailBoxes' = Boxes(ke', mess')
        BY BoxesAre DEF Boxes
    <2> HIDE DEF V1, V2, I, W, G, c
    <2>10. MailBoxes' = [MailBoxes EXCEPT !.got[c] = L[i], !.inbox[c] = v]
        BY <2>7, <2>8, <2>9 DEF SetGot
    <2>11. L[i] = B[i] /\ v = SubSeq(B, 1, i - 1) \o <<>>
        BY <1>5 DEF v
    <2>12. MailBoxes' = [MailBoxes EXCEPT !.got[c] = B[i],
                                          !.inbox[c] = SubSeq(B, 1, i - 1) \o <<>>]
        BY <2>10, <2>11
    <2>13. i \in F /\ \A j \in F : i <= j
        BY <1>7, <2>1
    <2>14. PICK p \in Receiver : p = c
        BY <1>2
    <2> DEFINE Y == MailBoxes.inbox[p]
               X == {x \in DOMAIN Y : Y[x].type = t}
    <2>15. /\ i \in X /\ \A j \in X : i <= j
           /\ MailBoxes.waits[p] = NoNode /\ MailBoxes.got[p] = NoMessage
        BY <1>5, <2>13, <2>14
    <2>16. MailBoxes' = [MailBoxes EXCEPT !.got[p] = Y[i],
                                          !.inbox[p] = SubSeq(Y, 1, i - 1) \o <<>>]
        BY <2>12, <2>14
    <2>17. \E x \in X :
              /\ \A j \in X : x <= j
              /\ \E kept \in {<<>>, SubSeq(Y, x + 1, Len(Y))} :
                    MailBoxes' = [MailBoxes EXCEPT !.got[p] = Y[x],
                                                   !.inbox[p] = SubSeq(Y, 1, x - 1) \o kept]
        <3>1. <<>> \in {<<>>, SubSeq(Y, i + 1, Len(Y))}
            OBVIOUS
        <3> QED BY <2>15, <2>16, <3>1
    <2>18. Promise!ReceiveType(p, t)
        BY <2>15, <2>17 DEF Promise!ReceiveType, Promise!Idles, MailBoxes
    <2> QED BY <2>18
<1> QED BY <1>8, <1>9 DEF MessReceiveType

\* Those whose time is up at a tick wait no longer.
LEMMA TickTimesOut ==
    ASSUME Orderly(ke, mess), Orderly(ke', mess'), Tick
    PROVE  \E S \in SUBSET {p \in Receiver : Waits(ke, mess)[p] # NoNode} :
              Boxes(ke', mess') = Promise!StopWaiting(Boxes(ke, mess), S)
<1> DEFINE r == Left(ke.timer, ke'.timer)
           P == LeftUpTo(ke.timer, ke'.timer, Len(ke.timer))
           S == {p \in Receiver : InReceive(ke, p) /\ p \in P}
           V == [p \in Receiver |-> IF p \in S THEN NoNode ELSE Waits(ke, mess)[p]]
<1>1. /\ Quiet(ke) /\ mess \in MessState
      /\ ke' = KeHandleTimer(ke) /\ IsTidy(mess', r)
    BY DEF Orderly, Tick, HandleTimer, Becomes, IsTidy
<1>2. Len(ke.timer) \in Nat /\ ReceiversBut(ke, ke', P)
    BY <1>1, TickReceivers
<1>3. PICK C, l : Lined(ke, mess, C, l)
    BY DEF Orderly, LinedUp
<1>4. Ordered(mess, C, l)
    BY <1>3 DEF Lined
<1>5. PICK D, d : Shorter(mess, C, l, r, D, d, P)
    BY <1>1, <1>2, <1>4, LeftShorter
<1> HIDE DEF r, P
<1>6. /\ r \in MessState /\ r.owner = mess.owner /\ r.waitsFor = mess.waitsFor
      /\ r.queue = mess.queue /\ r.result = mess.result /\ r.kind = mess.kind
      /\ Ordered(r, D, d)
      /\ \A n : n \in UpTo(D, d) <=> n \in UpTo(C, l) /\ mess.owner[n] \notin P
    BY <1>5 DEF Shorter, SameButPointers
<1>7. /\ mess'.queue = mess.queue /\ mess'.result = mess.result
      /\ \A n \in NodesOf(D) : mess'.owner[n] = mess.owner[n] /\ mess'.waitsFor[n] = mess.waitsFor[n]
      /\ \A m \in Message : ~Unused(r, m) => mess'.kind[m] = mess.kind[m]
    BY <1>1, <1>6, TidyFacts
<1>8. UpTo(D, d) \subseteq NodesOf(D) /\ NodesOf(D) \subseteq Node
    BY <1>6, OrderedFacts
<1>9. ASSUME NEW p \in Receiver, p \notin S PROVE WaitKept(ke, mess, ke', mess', p)
    <2>1. ASSUME InReceive(ke, p) PROVE NodeKept(mess, mess', p)
        <3>1. PICK n \in UpTo(C, l) : mess.owner[n] = p
            BY <1>3, <2>1 DEF Lined
        <3>2. n \in UpTo(D, d)
            BY <1>6, <1>9, <2>1, <3>1
        <3> QED BY <1>7, <1>8, <3>1, <3>2 DEF NodeKept
    <2>2. InReceive(ke', p) <=> InReceive(ke, p)
        BY <1>2, <1>9 DEF ReceiversBut
    <2> QED BY <2>1, <2>2 DEF WaitKept
<1>10. ASSUME NEW p \in Process PROVE MailKept(mess, mess', p)
    BY <1>6, <1>7 DEF MailKept, Unused
<1>11. ASSUME NEW p \in Receiver
       PROVE  /\ InboxIn(mess', p) = InboxIn(mess, p) /\ GotIn(mess', p) = GotIn(mess, p)
              /\ p \notin S => WaitsIn(ke', mess', p) = WaitsIn(ke, mess, p)
              /\ p \in S => WaitsIn(ke', mess', p) = NoNode
    <2>1. p \in Process
        BY DEF Receiver
    <2>2. InboxIn(mess', p) = InboxIn(mess, p) /\ GotIn(mess', p) = GotIn(mess, p)
        BY <1>10, <2>1, MailSame
    <2>3. p \notin S => WaitsIn(ke', mess', p) = WaitsIn(ke, mess, p)
        BY <1>9, WaitsSame
    <2>4. p \in S => WaitsIn(ke', mess', p) = NoNode
        BY <1>2 DEF ReceiversBut, WaitsIn
    <2> QED BY <2>2, <2>3, <2>4
<1>12. Inboxes(mess') = Inboxes(mess) /\ Gots(mess') = Gots(mess)
    BY <1>11 DEF Inboxes, Gots
<1>13. Waits(ke', mess') = V
    BY <1>11 DEF Waits
<1>14. Promise!StopWaiting(Box(Inboxes(mess), Waits(ke, mess), Gots(mess)), S)
           = Box(Inboxes(mess), V, Gots(mess))
    BY StopWaitingIs
<1> HIDE DEF V
<1>15. Boxes(ke', mess') = Promise!StopWaiting(Boxes(ke, mess), S)
    BY <1>12, <1>13, <1>14 DEF Boxes
<1>16. S \in SUBSET {p \in Receiver : Waits(ke, mess)[p] # NoNode}
    <2>1. ASSUME NEW p \in S PROVE Waits(ke, mess)[p] # NoNode
        BY PartsAt, WaitsFacts
    <2> QED BY <2>1
<1> QED BY <1>15, <1>16

-----------------------------------------------------------------------------
\* r is s with m sent to p: its type, and the result of p.
SentOnly(s, r, p, m) ==
    /\ r \in MessState
    /\ r.queue = s.queue /\ r.owner = s.owner /\ r.waitsFor = s.waitsFor
    /\ \A x \in Message : x # m => r.kind[x] = s.kind[x]
    /\ \A q \in Process : q # p => r.result[q] = s.result[q]

\* The nodes up to the last, without those of the processes in P.
OwnersBut(s, C, l, D, d, P) ==
    \A n : n \in UpTo(D, d) <=> n \in UpTo(C, l) /\ s.owner[n] \notin P

\* A message is put on the queue of p, and those in P lose their nodes.
LEMMA QueuedBut ==
    ASSUME NEW k, NEW s, Orderly(k, s), NEW C, NEW l, Lined(k, s, C, l),
           NEW p \in Process, NEW m \in Message, Unused(s, m),
           NEW r, SentOnly(s, r, p, m), NEW D, NEW d, Ordered(r, D, d),
           NEW P, OwnersBut(s, C, l, D, d, P),
           NEW k2, ReceiversBut(k, k2, P), NEW y, IsTidy(y, Queued(r, p, m))
    PROVE  /\ \A x : x \notin P => WaitKept(k, s, k2, y, x)
           /\ \A q \in Process : q # p => MailKept(s, y, q)
           /\ y.queue[p] = Append(s.queue[p], m) /\ y.result[p] = r.result[p]
           /\ y.kind[m] = r.kind[m]
           /\ \A x \in Message : Contains(s.queue[p], x) => y.kind[x] = s.kind[x]
           /\ \A x \in Message : r.result[p] = x /\ x # m => y.kind[x] = s.kind[x]
<1> DEFINE w == Queued(r, p, m)
<1>1. /\ w \in MessState
      /\ w.first = r.first /\ w.last = r.last /\ w.next = r.next /\ w.owner = r.owner
      /\ w.waitsFor = r.waitsFor /\ w.kind = r.kind /\ w.result = r.result
      /\ w.queue[p] = Append(r.queue[p], m)
      /\ \A q \in Process : q # p => w.queue[q] = r.queue[q]
    BY QueuedFacts DEF SentOnly
<1>2. IsTidy(y, w)
    OBVIOUS
<1> HIDE DEF w
<1>3. Ordered(w, D, d)
    BY <1>1 DEF Ordered
<1>4. /\ y.queue = w.queue /\ y.result = w.result
      /\ \A n \in NodesOf(D) : y.owner[n] = w.owner[n] /\ y.waitsFor[n] = w.waitsFor[n]
      /\ \A x \in Message : ~Unused(w, x) => y.kind[x] = w.kind[x]
    BY <1>1, <1>2, <1>3, TidyFacts
<1>5. UpTo(D, d) \subseteq NodesOf(D) /\ NodesOf(D) \subseteq Node
    BY <1>3, OrderedFacts
<1>6. ASSUME NEW x, x \notin P PROVE WaitKept(k, s, k2, y, x)
    <2>1. ASSUME InReceive(k, x) PROVE NodeKept(s, y, x)
        <3>1. PICK n \in UpTo(C, l) : s.owner[n] = x
            BY <2>1 DEF Lined
        <3>2. n \in UpTo(D, d)
            BY <1>6, <3>1 DEF OwnersBut
        <3> QED BY <1>1, <1>4, <1>5, <3>1, <3>2 DEF NodeKept, SentOnly
    <2>2. InReceive(k2, x) <=> InReceive(k, x)
        BY <1>6 DEF ReceiversBut
    <2> QED BY <2>1, <2>2 DEF WaitKept
<1>7. s.queue[p] \in Seq(Message)
    BY DEF Orderly, MessState
<1>8. \A x : Contains(w.queue[p], x) <=> Contains(s.queue[p], x) \/ x = m
    BY <1>1, <1>7, AppendFacts DEF SentOnly
<1>9. ASSUME NEW q \in Process, NEW x \in Message, Contains(w.queue[q], x) \/ w.result[q] = x
      PROVE  y.kind[x] = r.kind[x]
    BY <1>1, <1>4, <1>9 DEF Unused
<1>10. ASSUME NEW q \in Process, q # p PROVE MailKept(s, y, q)
    <2>1. y.queue[q] = s.queue[q] /\ y.result[q] = s.result[q]
        BY <1>1, <1>4, <1>10 DEF SentOnly
    <2>2. ASSUME NEW x \in Message, Contains(s.queue[q], x) \/ s.result[q] = x
          PROVE  y.kind[x] = s.kind[x]
        <3>1. x # m
            BY <2>2 DEF Unused
        <3>2. y.kind[x] = r.kind[x]
            BY <1>4, <1>9, <2>1, <2>2
        <3> QED BY <3>1, <3>2 DEF SentOnly
    <2> QED BY <2>1, <2>2 DEF MailKept
<1>11. y.queue[p] = Append(s.queue[p], m) /\ y.result[p] = r.result[p]
    BY <1>1, <1>4 DEF SentOnly
<1>12. y.kind[m] = r.kind[m]
    BY <1>8, <1>9
<1>13. ASSUME NEW x \in Message, Contains(s.queue[p], x) PROVE y.kind[x] = s.kind[x]
    <2>1. x # m
        BY <1>13 DEF Unused
    <2>2. y.kind[x] = r.kind[x]
        BY <1>8, <1>9, <1>13
    <2> QED BY <2>1, <2>2 DEF SentOnly
<1>14. ASSUME NEW x \in Message, r.result[p] = x, x # m PROVE y.kind[x] = s.kind[x]
    BY <1>1, <1>9, <1>14 DEF SentOnly
<1> QED BY <1>6, <1>10, <1>11, <1>12, <1>13, <1>14

IsLetter(L, m, t) == L = [id |-> m, type |-> t]

\* A message no receive call ended by stays in the inbox of p.
LEMMA StaysInInbox ==
    ASSUME NEW k, NEW s, Orderly(k, s), NEW k2, NEW y, Orderly(k2, y), NEW p \in Receiver,
           OnlyBoxOf(k, s, k2, y, p), WaitKept(k, s, k2, y, p),
           NEW m \in Message, Unused(s, m),
           y.queue[p] = Append(s.queue[p], m), y.result[p] = s.result[p],
           NEW t, y.kind[m] = t, NEW L, IsLetter(L, m, t),
           \A x \in Message : Contains(s.queue[p], x) \/ s.result[p] = x => y.kind[x] = s.kind[x],
           WaitsIn(k, s, p) \notin {MESSAGE_TYPE_FIRST, t}
    PROVE  Boxes(k2, y) = Promise!Put(Boxes(k, s), p, L)
<1> DEFINE q == s.queue[p]
           u == Unlink(q, s.result[p])
           I == Inboxes(s)
           W == Waits(k, s)
           G == Gots(s)
           V == [I EXCEPT ![p] = Append(I[p], L)]
<1>1. p \in Process /\ s \in MessState /\ q \in Seq(Message) /\ IsInjective(q)
    BY DEF Receiver, Orderly, MessState, Mailed
<1>2. ~Contains(q, m) /\ s.result[p] # m
    BY <1>1 DEF Unused
<1>3. u \in Seq(Message) /\ \A x : Contains(u, x) => Contains(q, x)
    BY <1>1, UnlinkMessage
<1>4. Unlink(Append(q, m), s.result[p]) = Append(u, m)
    BY <1>1, <1>2, UnlinkAppended
<1>5. InboxIn(y, p) = Letters(y, Append(u, m))
    BY <1>4 DEF InboxIn
<1>6. InboxIn(s, p) = Letters(s, u)
    BY DEF InboxIn
<1> HIDE DEF u
<1>7. Letters(y, Append(u, m)) = Append(Letters(y, u), LetterIn(y, m))
    BY <1>3, LettersAppend
<1>8. Letters(y, u) = Letters(s, u)
    BY <1>3, LettersSame
<1>9. LetterIn(y, m) = L
    BY DEF LetterIn, IsLetter
<1>10. InboxIn(y, p) = Append(InboxIn(s, p), L)
    BY <1>5, <1>6, <1>7, <1>8, <1>9
<1>11. GotIn(y, p) = GotIn(s, p)
    BY <1>1 DEF GotIn, LetterIn, MessState
<1>12. WaitsIn(k2, y, p) = WaitsIn(k, s, p)
    BY WaitsSame
<1>13. I[p] = InboxIn(s, p) /\ W[p] = WaitsIn(k, s, p)
    BY PartsAt
<1> DEFINE W2 == [W EXCEPT ![p] = WaitsIn(k, s, p)]
           G2 == [G EXCEPT ![p] = GotIn(s, p)]
<1>14. Inboxes(y) = V /\ Waits(k2, y) = W2 /\ Gots(y) = G2
    BY <1>10, <1>11, <1>12, <1>13, BoxesBut
<1>15. W2 = W /\ G2 = G
    BY PartsStay
<1>16. L.type = t
    BY DEF IsLetter
<1>17. Promise!Put(Box(I, W, G), p, L) = Box(V, W, G)
    <2>1. W[p] \notin {MESSAGE_TYPE_FIRST, L.type}
        BY <1>13, <1>16
    <2> HIDE DEF I, W, G
    <2> QED BY <2>1, PutIn
<1> HIDE DEF V, W2, G2
<1> QED BY <1>14, <1>15, <1>17 DEF Boxes

\* A message that ends the receive call of p is what p gets.
LEMMA EndsReceive ==
    ASSUME NEW k, NEW s, Orderly(k, s), NEW k2, NEW y, Orderly(k2, y), NEW p \in Receiver,
           OnlyBoxOf(k, s, k2, y, p), InReceive(k, p), ~InReceive(k2, p),
           NEW m \in Message, Unused(s, m),
           y.queue[p] = Append(s.queue[p], m), y.result[p] = m,
           NEW t, y.kind[m] = t, NEW L, IsLetter(L, m, t),
           \A x \in Message : Contains(s.queue[p], x) => y.kind[x] = s.kind[x],
           WaitsIn(k, s, p) \in {MESSAGE_TYPE_FIRST, t}
    PROVE  Boxes(k2, y) = Promise!Put(Boxes(k, s), p, L)
<1> DEFINE q == s.queue[p]
           I == Inboxes(s)
           W == Waits(k, s)
           G == Gots(s)
           V == [I EXCEPT ![p] = InboxIn(s, p)]
           W2 == [W EXCEPT ![p] = NoNode]
           G2 == [G EXCEPT ![p] = L]
<1>1. /\ p \in Process /\ s \in MessState /\ q \in Seq(Message) /\ IsInjective(q)
      /\ s.result[p] = NoMessage
    BY DEF Receiver, Orderly, MessState, Mailed
<1>2. ~Contains(q, m) /\ m # NoMessage
    BY <1>1, MessagesAssumption DEF Unused
<1>3. Unlink(Append(q, m), m) = q
    BY <1>1, <1>2, UnlinkAppended
<1>4. InboxIn(y, p) = Letters(y, q)
    BY <1>3 DEF InboxIn
<1>5. InboxIn(s, p) = Letters(s, q)
    BY <1>1, InboxIsQueue
<1>6. Letters(y, q) = Letters(s, q)
    BY <1>1, LettersSame
<1>7. GotIn(y, p) = L
    BY <1>2 DEF GotIn, LetterIn, IsLetter
<1>8. WaitsIn(k2, y, p) = NoNode
    BY DEF WaitsIn
<1>9. Inboxes(y) = V /\ Waits(k2, y) = W2 /\ Gots(y) = G2
    BY <1>4, <1>5, <1>6, <1>7, <1>8, BoxesBut
<1>10. V = I
    BY PartsStay
<1>11. Promise!Put(Box(I, W, G), p, L) = Box(I, W2, G2)
    <2>1. W[p] \in {MESSAGE_TYPE_FIRST, L.type}
        BY PartsAt DEF IsLetter
    <2> HIDE DEF I, W, G
    <2> QED BY <2>1 DEF Promise!Put, Box
<1> HIDE DEF V, W2, G2
<1> QED BY <1>9, <1>10, <1>11 DEF Boxes


-----------------------------------------------------------------------------
\* What a send does to the boxes: the receiver's nodes in P are gone, and the
\* message on its queue is in its inbox, or ends its receive call.
LEMMA SentToInbox ==
    ASSUME NEW k, NEW s, Orderly(k, s), NEW C, NEW l, Lined(k, s, C, l),
           NEW p \in Receiver, NEW m \in Message, Unused(s, m),
           NEW r \in MessState, r.queue = s.queue, r.owner = s.owner, r.waitsFor = s.waitsFor,
           \A x \in Message : x # m => r.kind[x] = s.kind[x], r.result = s.result,
           NEW D, NEW d, Ordered(r, D, d), NEW P, P \subseteq {p},
           \A n : n \in UpTo(D, d) <=> n \in UpTo(C, l) /\ s.owner[n] \notin P,
           NEW k2, ReceiversBut(k, k2, P), P = {} \/ ~InReceive(k, p),
           NEW y, IsTidy(y, Queued(r, p, m)), Orderly(k2, y),
           NEW t, r.kind[m] = t, NEW L, IsLetter(L, m, t),
           WaitsIn(k, s, p) \notin {MESSAGE_TYPE_FIRST, t}
    PROVE  Boxes(k2, y) = Promise!Put(Boxes(k, s), p, L)
<1>1. p \in Process /\ \A q \in Process : r.result[q] = s.result[q]
    BY DEF Receiver
<1>2. SentOnly(s, r, p, m) /\ OwnersBut(s, C, l, D, d, P)
    BY <1>1 DEF SentOnly, OwnersBut
<1>3. /\ \A x : x \notin P => WaitKept(k, s, k2, y, x)
      /\ \A q \in Process : q # p => MailKept(s, y, q)
      /\ y.queue[p] = Append(s.queue[p], m) /\ y.result[p] = r.result[p]
      /\ y.kind[m] = r.kind[m]
      /\ \A x \in Message : Contains(s.queue[p], x) => y.kind[x] = s.kind[x]
      /\ \A x \in Message : r.result[p] = x /\ x # m => y.kind[x] = s.kind[x]
    BY <1>1, <1>2, QueuedBut
<1>4. OnlyBoxOf(k, s, k2, y, p)
    BY <1>3 DEF OnlyBoxOf, Receiver
<1>5. WaitKept(k, s, k2, y, p)
    BY <1>3 DEF WaitKept, ReceiversBut
<1>6. \A x \in Message : Contains(s.queue[p], x) \/ s.result[p] = x => y.kind[x] = s.kind[x]
    BY <1>1, <1>3 DEF Unused
<1>7. y.result[p] = s.result[p] /\ y.kind[m] = t
    BY <1>1, <1>3
<1> QED BY <1>3, <1>4, <1>5, <1>6, <1>7, StaysInInbox

LEMMA SentToReceiver ==
    ASSUME NEW k, NEW s, Orderly(k, s), NEW C, NEW l, Lined(k, s, C, l),
           NEW p \in Receiver, NEW m \in Message, Unused(s, m),
           NEW r \in MessState, r.queue = s.queue, r.owner = s.owner, r.waitsFor = s.waitsFor,
           \A x \in Message : x # m => r.kind[x] = s.kind[x],
           \A q \in Process : q # p => r.result[q] = s.result[q], r.result[p] = m,
           NEW D, NEW d, Ordered(r, D, d),
           \A n : n \in UpTo(D, d) <=> n \in UpTo(C, l) /\ s.owner[n] \notin {p},
           NEW k2, ReceiversBut(k, k2, {p}), InReceive(k, p),
           NEW y, IsTidy(y, Queued(r, p, m)), Orderly(k2, y),
           NEW t, r.kind[m] = t, NEW L, IsLetter(L, m, t),
           WaitsIn(k, s, p) \in {MESSAGE_TYPE_FIRST, t}
    PROVE  Boxes(k2, y) = Promise!Put(Boxes(k, s), p, L)
<1>1. p \in Process
    BY DEF Receiver
<1> DEFINE P == {p}
<1>2. /\ \A n : n \in UpTo(D, d) <=> n \in UpTo(C, l) /\ s.owner[n] \notin P
      /\ ReceiversBut(k, k2, P) /\ \A x : x # p => x \notin P
    OBVIOUS
<1> HIDE DEF P
<1>3. SentOnly(s, r, p, m) /\ OwnersBut(s, C, l, D, d, P)
    BY <1>2 DEF SentOnly, OwnersBut
<1>4. /\ \A x : x \notin P => WaitKept(k, s, k2, y, x)
      /\ \A q \in Process : q # p => MailKept(s, y, q)
      /\ y.queue[p] = Append(s.queue[p], m) /\ y.result[p] = r.result[p]
      /\ y.kind[m] = r.kind[m]
      /\ \A x \in Message : Contains(s.queue[p], x) => y.kind[x] = s.kind[x]
      /\ \A x \in Message : r.result[p] = x /\ x # m => y.kind[x] = s.kind[x]
    BY <1>1, <1>2, <1>3, QueuedBut
<1>5. OnlyBoxOf(k, s, k2, y, p)
    BY <1>2, <1>4 DEF OnlyBoxOf, Receiver
<1>6. ~InReceive(k2, p)
    BY DEF ReceiversBut
<1>7. y.result[p] = m /\ y.kind[m] = t
    BY <1>4
<1> QED BY <1>4, <1>5, <1>6, <1>7, EndsReceive

\* A receiver has its node on the list, and it says what it waits for.
LEMMA WaitsAt ==
    ASSUME NEW k, NEW s, Orderly(k, s), NEW C, NEW l, Lined(k, s, C, l),
           NEW p \in Receiver
    PROVE  /\ InReceive(k, p) =>
                \E n \in NodesOf(C) : s.owner[n] = p /\ WaitsIn(k, s, p) = s.waitsFor[n]
           /\ \A n \in NodesOf(C) :
                InReceive(k, p) /\ s.owner[n] = p => WaitsIn(k, s, p) = s.waitsFor[n]
<1>1. UpTo(C, l) \subseteq NodesOf(C) /\ NodesOf(C) \subseteq Node
    BY OrderedFacts DEF Lined
<1>2. ASSUME NEW n \in NodesOf(C), InReceive(k, p), s.owner[n] = p
      PROVE  WaitsIn(k, s, p) = s.waitsFor[n]
    <2>1. NodeAt(s, p) = n
        BY <1>1, <1>2, NodeIs
    <2> QED BY <1>2, <2>1 DEF WaitsIn
<1>3. ASSUME InReceive(k, p)
      PROVE  \E n \in NodesOf(C) : s.owner[n] = p /\ WaitsIn(k, s, p) = s.waitsFor[n]
    <2>1. PICK n \in UpTo(C, l) : s.owner[n] = p
        BY <1>3 DEF Lined
    <2> QED BY <1>1, <1>2, <1>3, <2>1
<1> QED BY <1>2, <1>3

\* A message that is sent is put in the box of its receiver.
LEMMA SendPuts ==
    ASSUME Orderly(ke, mess), Orderly(ke', mess'), NEW p \in Process, NEW m \in Message,
           NEW t \in Types, SendMessage(p, m, t), NEW L, IsLetter(L, m, t)
    PROVE  p \in Receiver /\ Boxes(ke', mess') = Promise!Put(Boxes(ke, mess), p, L)
<1> DEFINE s == Sent(m, t)
<1>1. /\ Quiet(ke) /\ mess \in MessState /\ Mailed(ke, mess) /\ LinedUp(ke, mess)
      /\ p \in Receiver /\ ~ke'.bugcheck /\ Unused(mess, m)
    BY QuietFacts DEF Orderly, SendMessage, Found, Receiver
<1>2. PICK C, l : Lined(ke, mess, C, l)
    BY <1>1 DEF LinedUp
<1>3. Ordered(mess, C, l)
    BY <1>2 DEF Lined
<1>4. PICK k2, r :
          /\ MessSendMessage(p, m, t) = [ke |-> k2, mess |-> Queued(r, p, m)]
          /\ \/ Passed(C, p, t, k2, Sent(m, t), r)
             \/ Dropped(C, l, p, k2, Sent(m, t), r)
             \/ Woken(C, l, p, m, t, k2, Sent(m, t), r)
    BY <1>1, <1>3, SendCases
<1>5. ke' = k2 /\ IsTidy(mess', Queued(r, p, m))
    BY <1>1, <1>4 DEF SendMessage, Becomes, IsTidy
<1>6. /\ s \in MessState
      /\ s.first = mess.first /\ s.last = mess.last /\ s.next = mess.next
      /\ s.owner = mess.owner /\ s.waitsFor = mess.waitsFor
      /\ s.queue = mess.queue /\ s.result = mess.result
    BY <1>1, SentFacts
<1>7. s.kind[m] = t /\ \A x \in Message : x # m => s.kind[x] = mess.kind[x]
    <2>1. s.kind = [mess.kind EXCEPT ![m] = t] /\ mess.kind \in [Message -> Types]
        BY <1>1, SentFacts DEF MessState
    <2> QED BY <2>1
<1>8. /\ \/ Passed(C, p, t, k2, s, r)
         \/ Dropped(C, l, p, k2, s, r)
         \/ Woken(C, l, p, m, t, k2, s, r)
    BY <1>4
<1> HIDE DEF s
<1>9. NoNode \notin {MESSAGE_TYPE_FIRST, t}
    BY MessagesAssumption
<1>10. ~InReceive(ke, p) => WaitsIn(ke, mess, p) \notin {MESSAGE_TYPE_FIRST, t}
    BY <1>9 DEF WaitsIn
<1>11. CASE Passed(C, p, t, k2, s, r)
    <2> DEFINE P == {}
    <2>1. k2 = ke /\ r = s
        BY <1>11 DEF Passed
    <2>2. WaitsIn(ke, mess, p) \notin {MESSAGE_TYPE_FIRST, t}
        BY <1>1, <1>2, <1>10, <1>11, WaitsAt DEF Passed
    <2>3. ReceiversBut(ke, ke, P)
        BY SameReceivers
    <2>4. /\ P \subseteq {p} /\ P = {}
          /\ \A n : n \in UpTo(C, l) <=> n \in UpTo(C, l) /\ mess.owner[n] \notin P
        OBVIOUS
    <2>5. Ordered(s, C, l)
        BY <1>3, <1>6 DEF Ordered
    <2>6. IsTidy(mess', Queued(s, p, m)) /\ Orderly(ke, mess')
        BY <1>5, <2>1
    <2> HIDE DEF P
    <2>7. Boxes(ke, mess') = Promise!Put(Boxes(ke, mess), p, L)
        BY <1>1, <1>2, <1>6, <1>7, <2>2, <2>3, <2>4, <2>5, <2>6, SentToInbox
    <2> QED BY <1>1, <1>5, <2>1, <2>7
<1>12. CASE Dropped(C, l, p, k2, s, r)
    <2> DEFINE P == {p}
    <2>1. k2 = ke /\ ke.state[p] # "blocked"
        BY <1>12 DEF Dropped
    <2>2. PICK D, d : Shorter(s, C, l, r, D, d, {p})
        BY <1>12 DEF Dropped
    <2>3. ~InReceive(ke, p)
        BY <1>1, <2>1, QuietFacts DEF InReceive
    <2>4. ReceiversBut(ke, ke, P)
        BY <2>3, SameReceivers
    <2>5. /\ r \in MessState /\ r.owner = s.owner /\ r.waitsFor = s.waitsFor
          /\ r.queue = s.queue /\ r.result = s.result /\ r.kind = s.kind
          /\ Ordered(r, D, d)
          /\ \A n : n \in UpTo(D, d) <=> n \in UpTo(C, l) /\ s.owner[n] \notin P
        BY <2>2 DEF Shorter, SameButPointers
    <2>6. P \subseteq {p}
        OBVIOUS
    <2> HIDE DEF P
    <2>7. Orderly(ke, mess')
        BY <1>5, <2>1
    <2>8. Boxes(ke, mess') = Promise!Put(Boxes(ke, mess), p, L)
        BY <1>1, <1>2, <1>5, <1>6, <1>7, <1>10, <2>3, <2>4, <2>5, <2>6, <2>7, SentToInbox
    <2> QED BY <1>1, <1>5, <2>1, <2>8
<1>13. CASE Woken(C, l, p, m, t, k2, s, r)
    <2> DEFINE g == IF ke.method[p] THEN Got(s, p, m) ELSE s
               P == {p}
    <2>1. k2 = KeResumeProcess(ke, p) /\ ke.state[p] = "blocked"
        BY <1>13 DEF Woken
    <2>2. PICK D, d : Shorter(g, C, l, r, D, d, {p})
        BY <1>13 DEF Woken
    <2>3. /\ Quiet(k2) /\ k2.scheduled = ke.scheduled /\ SleepersBut(ke, k2, p)
        <3>1. p \in ke.scheduled
            BY <1>1, <1>5, <2>1, DeadHalts DEF Receiver
        <3> QED BY <1>1, <2>1, <3>1, ResumeQuiet
    <2>4. ke.scheduled \subseteq Process
        BY <1>1, QuietFacts
    <2>5. ReceiversBut(ke, k2, {p})
        BY <2>3, <2>4 DEF ReceiversBut, InReceive, SleepersBut
    <2>6. InReceive(ke, p) <=> ke.method[p]
        <3>1. p \in ke.scheduled
            BY <1>1, <1>5, <2>1, DeadHalts DEF Receiver
        <3> QED BY <3>1, <1>1, <2>1, QuietFacts DEF InReceive
    <2>7. /\ Got(s, p, m) \in MessState
          /\ Got(s, p, m).owner = s.owner /\ Got(s, p, m).waitsFor = s.waitsFor
          /\ Got(s, p, m).queue = s.queue /\ Got(s, p, m).kind = s.kind
          /\ Got(s, p, m).result = [s.result EXCEPT ![p] = m]
        BY <1>1, <1>6, GotFacts DEF Receiver
    <2>8. g.owner = s.owner /\ g.waitsFor = s.waitsFor /\ g.queue = s.queue /\ g.kind = s.kind
        BY <2>7
    <2>9. /\ ke.method[p] => g.result = [s.result EXCEPT ![p] = m]
          /\ ~ke.method[p] => g.result = s.result
        BY <2>7
    <2> HIDE DEF g
    <2>10. /\ r \in MessState /\ r.owner = mess.owner /\ r.waitsFor = mess.waitsFor
           /\ r.queue = mess.queue /\ r.result = g.result /\ r.kind = s.kind
           /\ Ordered(r, D, d)
           /\ \A n : n \in UpTo(D, d) <=> n \in UpTo(C, l) /\ mess.owner[n] \notin {p}
        BY <1>6, <2>2, <2>8 DEF Shorter, SameButPointers
    <2>11. Orderly(k2, mess')
        BY <1>5
    <2>12. r.kind[m] = t /\ \A x \in Message : x # m => r.kind[x] = mess.kind[x]
        BY <1>7, <2>10
    <2>13. CASE ke.method[p]
        <3>1. s.result \in [Process -> Message \cup {NoMessage}] /\ p \in Process
            BY <1>1, <1>6 DEF MessState, Receiver
        <3>2. r.result[p] = m /\ \A q \in Process : q # p => r.result[q] = mess.result[q]
            BY <1>6, <2>9, <2>10, <2>13, <3>1
        <3>3. InReceive(ke, p)
            BY <2>6, <2>13
        <3>4. WaitsIn(ke, mess, p) \in {MESSAGE_TYPE_FIRST, t}
            BY <1>1, <1>2, <1>13, <3>3, WaitsAt DEF Woken
        <3>5. Boxes(k2, mess') = Promise!Put(Boxes(ke, mess), p, L)
            BY <1>1, <1>2, <1>5, <2>5, <2>10, <2>11, <2>12, <3>2, <3>3, <3>4, SentToReceiver
        <3> QED BY <1>1, <1>5, <3>5
    <2>14. CASE ~ke.method[p]
        <3>1. r.result = mess.result
            BY <1>6, <2>9, <2>10, <2>14
        <3>2. ~InReceive(ke, p)
            BY <2>6, <2>14
        <3>3. /\ P \subseteq {p} /\ ReceiversBut(ke, k2, P)
              /\ \A n : n \in UpTo(D, d) <=> n \in UpTo(C, l) /\ mess.owner[n] \notin P
            BY <2>5, <2>10
        <3> HIDE DEF P
        <3>4. Boxes(k2, mess') = Promise!Put(Boxes(ke, mess), p, L)
            BY <1>1, <1>2, <1>5, <1>10, <2>10, <2>11, <2>12, <3>1, <3>2, <3>3, SentToInbox
        <3> QED BY <1>1, <1>5, <3>4
    <2> QED BY <2>13, <2>14
<1> QED BY <1>8, <1>11, <1>12, <1>13

\* A message that is sent was in no box.
LEMMA SentIsFresh ==
    ASSUME Orderly(ke, mess), NEW m \in Message, NEW t \in Types, Unused(mess, m),
           NEW L, IsLetter(L, m, t)
    PROVE  L \in [id : Message, type : Types] /\ Promise!Fresh(L)
<1>1. L \in [id : Message, type : Types] /\ L.id = m
    BY DEF IsLetter
<1>2. ASSUME NEW p \in Receiver
      PROVE  MailBoxes.got[p] # L /\ ~Contains(MailBoxes.inbox[p], L)
    <2> DEFINE q == mess.queue[p]
               u == Unlink(q, mess.result[p])
    <2>1. /\ p \in Process /\ q \in Seq(Message) /\ IsInjective(q)
          /\ mess.result[p] # m /\ ~Contains(q, m)
        BY DEF Receiver, Orderly, MessState, Mailed, Unused
    <2>2. u \in Seq(Message) /\ \A x : Contains(u, x) => Contains(q, x)
        BY <2>1, UnlinkMessage
    <2>3. InboxIn(mess, p) = Letters(mess, u)
        BY DEF InboxIn
    <2>4. ~Contains(u, m)
        BY <2>1, <2>2
    <2> HIDE DEF u
    <2>5. /\ DOMAIN Letters(mess, u) = 1 .. Len(u) /\ DOMAIN u = 1 .. Len(u)
          /\ \A i \in 1 .. Len(u) : Letters(mess, u)[i] = LetterIn(mess, u[i])
        BY <2>2, LettersFacts
    <2>6. \A i \in 1 .. Len(u) : Letters(mess, u)[i].id = u[i] /\ u[i] # m
        BY <2>4, <2>5 DEF LetterIn, Contains
    <2>7. Len(Letters(mess, u)) = Len(u)
        BY <2>2, LettersFacts
    <2>8. ~Contains(Letters(mess, u), L)
        BY <1>1, <2>5, <2>6, <2>7 DEF Contains
    <2>9. GotIn(mess, p) # L
        <3>1. NoMessage # L
            BY <1>1, MessagesAssumption
        <3>2. LetterIn(mess, mess.result[p]).id = mess.result[p]
            BY DEF LetterIn
        <3> QED BY <1>1, <2>1, <3>1, <3>2 DEF GotIn
    <2>10. MailBoxes.got[p] = GotIn(mess, p) /\ MailBoxes.inbox[p] = InboxIn(mess, p)
        BY BoxParts, PartsAt
    <2> QED BY <2>3, <2>8, <2>9, <2>10
<1>3. Promise!Fresh(L)
    BY <1>2 DEF Promise!Fresh, Promise!Contains, Contains, MailBoxes
<1> QED BY <1>1, <1>3

-----------------------------------------------------------------------------
\* No box changes when a process is created, or sleeps.
LEMMA NoBoxChanges ==
    ASSUME Orderly(ke, mess), Orderly(ke', mess'), mess' = mess,
           \A p \in Receiver : InReceive(ke', p) <=> InReceive(ke, p)
    PROVE  MailBoxes' = MailBoxes
<1>1. ASSUME NEW p \in Receiver
      PROVE  WaitKept(ke, mess, ke', mess', p) /\ MailKept(mess, mess', p)
    <2>1. InReceive(ke, p) => NodeKept(mess, mess', p)
        BY WaitsFacts DEF NodeKept
    <2> QED BY <2>1 DEF WaitKept, MailKept
<1>2. Boxes(ke', mess') = Boxes(ke, mess)
    BY <1>1, BoxesSame
<1> QED BY <1>2, BoxesAre

LEMMA CreateKeepsBoxes ==
    ASSUME Orderly(ke, mess), Orderly(ke', mess'),
           NEW p \in Process, NEW prio \in Priorities, Create(p, prio)
    PROVE  MailBoxes' = MailBoxes
<1>1. /\ Quiet(ke) /\ p \notin ke.scheduled /\ mess' = mess
      /\ ke' = KeStartSchedulingProcess(NewProcess(ke, p, prio), p)
    BY DEF Orderly, Create, StartProcess
<1>2. /\ ke'.scheduled = ke.scheduled \cup {p}
      /\ ke'.timer = ke.timer /\ ke'.method = ke.method
    BY <1>1, StartQuiet
<1>3. ~Contains(ke.timer, p)
    BY <1>1, QuietFacts
<1>4. \A x \in Receiver : InReceive(ke', x) <=> InReceive(ke, x)
    BY <1>2, <1>3 DEF InReceive
<1> QED BY <1>1, <1>4, NoBoxChanges

LEMMA SleepKeepsBoxes ==
    ASSUME Orderly(ke, mess), Orderly(ke', mess'), NEW ms \in Sleeps, Sleep(ms)
    PROVE  MailBoxes' = MailBoxes
<1>1. /\ Quiet(ke) /\ ke.current # Idle /\ ms \in Ulong /\ mess' = mess
      /\ ke' = KeSuspendProcess(ke, ms, FALSE)
    BY SchedulerAssumption DEF Orderly, Sleep, Calls
<1>2. \A x : InReceive(ke', x) <=> InReceive(ke, x)
    BY <1>1, SuspendedReceivers
<1> QED BY <1>1, <1>2, NoBoxChanges

\* Each call does to the boxes what one of the actions of Mailboxes does.
LEMMA ActIsNext ==
    ASSUME \E p \in Receiver : Promise!Act(p)
    PROVE  [Promise!Next]_MailBoxes
BY DEF Promise!Next, MailBoxes

LEMMA DeathIsDeath ==
    ASSUME Orderly(ke, mess), Orderly(ke', mess'), NEW p \in Process,
           Kill(p) \/ LastReference(p)
    PROVE  [Promise!Next]_MailBoxes
<1>1. Quiet(ke)
    BY DEF Orderly
<1>2. p \in Receiver /\ MailBoxes' = Promise!Clear(MailBoxes, p)
    <2>1. CASE Kill(p)
        <3>1. PICK k : \E left \in States \ {"running"} :
                  /\ Quiet(k) /\ p \notin k.scheduled
                  /\ k.scheduled = ke.scheduled \ {p} /\ SleepersBut(ke, k, p)
                  /\ ke' = [k EXCEPT !.state[p] = left, !.priority[p] = 0]
            BY <1>1, <2>1, KillLeaves
        <3>2. p # Idle /\ Becomes(MessDeleteMessageQueue(mess, p))
            BY <2>1 DEF Kill
        <3> QED BY <3>1, <3>2, DeathClears, BoxesAre
    <2>2. CASE LastReference(p)
        <3>1. /\ p \notin ke.scheduled /\ "created" \in States
              /\ ke' = [ke EXCEPT !.state[p] = "created", !.priority[p] = 0]
              /\ Becomes(MessDeleteMessageQueue(mess, p))
            BY <2>2 DEF LastReference, States
        <3>2. p # Idle /\ ~Contains(ke.timer, p)
            BY <1>1, <3>1, QuietFacts
        <3>3. ke.scheduled = ke.scheduled \ {p} /\ SleepersBut(ke, ke, p)
            BY <3>1, <3>2 DEF SleepersBut
        <3> QED BY <1>1, <3>1, <3>2, <3>3, DeathClears, BoxesAre
    <2> QED BY <2>1, <2>2
<1>3. Promise!Die(p)
    BY <1>2 DEF Promise!Die, MailBoxes
<1>4. Promise!Act(p)
    BY <1>3 DEF Promise!Act
<1> QED BY <1>2, <1>4, ActIsNext

LEMMA SendSends ==
    ASSUME Orderly(ke, mess), Orderly(ke', mess'), NEW p \in Process, NEW m \in Message,
           NEW t \in Types, SendMessage(p, m, t)
    PROVE  [Promise!Next]_MailBoxes
<1> DEFINE L == [id |-> m, type |-> t]
<1>1. IsLetter(L, m, t) /\ Unused(mess, m)
    BY DEF IsLetter, SendMessage
<1> HIDE DEF L
<1>2. p \in Receiver /\ MailBoxes' = Promise!Put(MailBoxes, p, L)
    BY <1>1, SendPuts, BoxesAre
<1>3. L \in [id : Message, type : Types] /\ Promise!Fresh(L)
    BY <1>1, SentIsFresh
<1>4. Promise!Send(p, L)
    BY <1>2, <1>3 DEF Promise!Send, MailBoxes
<1>5. Promise!Act(p)
    BY <1>3, <1>4 DEF Promise!Act
<1> QED BY <1>2, <1>5, ActIsNext

LEMMA ReceiveFirstReceives ==
    ASSUME Orderly(ke, mess), Orderly(ke', mess'), NEW ms \in TimeOuts, MessReceiveFirst(ms)
    PROVE  [Promise!Next]_MailBoxes
<1>1. PICK c \in Receiver :
          /\ MailBoxes' = Promise!TakeFirst(MailBoxes, c)
          /\ MailBoxes.waits[c] = NoNode /\ MailBoxes.got[c] = NoMessage
    BY ReceiveFirstTakes, BoxesAre, BoxParts
<1>2. Promise!ReceiveFirst(c)
    BY <1>1 DEF Promise!ReceiveFirst, Promise!Idles, MailBoxes
<1>3. Promise!Act(c)
    BY <1>2 DEF Promise!Act
<1> QED BY <1>3, ActIsNext

LEMMA ReceiveTypeReceives ==
    ASSUME Orderly(ke, mess), Orderly(ke', mess'), NEW ms \in TimeOuts, NEW t \in Types,
           MessReceiveType(ms, t)
    PROVE  [Promise!Next]_MailBoxes
<1>1. PICK c \in Receiver : Promise!ReceiveType(c, t)
    BY ReceiveTypeTakes
<1>2. Promise!Act(c)
    BY <1>1 DEF Promise!Act
<1> QED BY <1>2, ActIsNext

LEMMA DeleteIsDelete ==
    ASSUME Orderly(ke, mess), Orderly(ke', mess'), MessDeleteMessage
    PROVE  [Promise!Next]_MailBoxes
<1>1. PICK c \in Receiver :
          MailBoxes' = Promise!Delete(MailBoxes, c) /\ MailBoxes.got[c] # NoMessage
    BY DeleteDeletes, BoxesAre, BoxParts
<1>2. Promise!DeleteMessage(c)
    BY <1>1 DEF Promise!DeleteMessage, MailBoxes
<1>3. Promise!Act(c)
    BY <1>2 DEF Promise!Act
<1> QED BY <1>3, ActIsNext

LEMMA TickIsTimeOut ==
    ASSUME Orderly(ke, mess), Orderly(ke', mess'), Tick
    PROVE  [Promise!Next]_MailBoxes
<1>1. PICK S \in SUBSET {p \in Receiver : Waits(ke, mess)[p] # NoNode} :
              Boxes(ke', mess') = Promise!StopWaiting(Boxes(ke, mess), S)
    BY TickTimesOut
<1>2. MailBoxes' = Promise!StopWaiting(MailBoxes, S) /\ MailBoxes.waits = Waits(ke, mess)
    BY <1>1, BoxesAre, BoxParts
<1>3. S \in SUBSET {p \in Receiver : MailBoxes.waits[p] # NoNode}
    BY <1>1, <1>2
<1>4. Promise!TimeOut(S)
    BY <1>2 DEF Promise!TimeOut, MailBoxes
<1> QED BY <1>3, <1>4 DEF Promise!Next, MailBoxes

LEMMA NextKeepsPromise ==
    ASSUME Orderly(ke, mess), [MessagesNext]_vars, ~ke'.bugcheck
    PROVE  [Promise!Next]_MailBoxes
<1>1. Orderly(ke', mess')
    BY NextOrderly
<1>2. CASE \E p \in Process, prio \in Priorities : Create(p, prio)
    BY <1>1, <1>2, CreateKeepsBoxes
<1>3. CASE \E p \in Process : Kill(p) \/ LastReference(p)
    BY <1>1, <1>3, DeathIsDeath
<1>4. CASE \E ms \in Sleeps : Sleep(ms)
    BY <1>1, <1>4, SleepKeepsBoxes
<1>5. CASE \E p \in Process, m \in Message, t \in Types : SendMessage(p, m, t)
    BY <1>1, <1>5, SendSends
<1>6. CASE \E ms \in TimeOuts : MessReceiveFirst(ms)
    BY <1>1, <1>6, ReceiveFirstReceives
<1>7. CASE \E ms \in TimeOuts, t \in Types \ {MESSAGE_TYPE_FIRST} : MessReceiveType(ms, t)
    BY <1>1, <1>7, ReceiveTypeReceives
<1>8. CASE MessDeleteMessage
    BY <1>1, <1>8, DeleteIsDelete
<1>9. CASE Tick
    BY <1>1, <1>9, TickIsTimeOut
<1>10. CASE UNCHANGED vars \/ (Spin /\ UNCHANGED mess)
    <2>1. ke' = ke /\ mess' = mess
        BY <1>10 DEF vars, Spin
    <2>2. MailBoxes' = MailBoxes
        BY <2>1, BoxesAre
    <2> QED BY <2>2
<1> QED BY <1>2, <1>3, <1>4, <1>5, <1>6, <1>7, <1>8, <1>9, <1>10 DEF MessagesNext

\* A machine that halts leaves the boxes as they are.
LEMMA HaltKeepsPromise ==
    ASSUME Kept(ke, mess), [MessagesNext]_vars
    PROVE  [Promise!Next]_MailBoxes
<1>1. CASE ke.bugcheck
    <2>1. MailBoxes' = MailBoxes
        BY <1>1, KeptFacts, BoxesAre
    <2> QED BY <2>1
<1>2. CASE ~ke.bugcheck /\ ~ke'.bugcheck
    BY <1>2, KeptFacts, NextKeepsPromise
<1>3. CASE ~ke.bugcheck /\ ke'.bugcheck
    <2>1. Orderly(ke, mess)
        BY <1>3, KeptFacts
    <2>2. \E p \in Process, m \in Message, t \in Types : SendMessage(p, m, t)
        BY <1>3, <2>1, OthersDoNotHalt
    <2>3. ke' = HaltOf(ke) /\ mess' = mess
        BY <1>3, <2>1, <2>2, SendHalts DEF KeBugCheck, HaltOf
    <2>4. \A x : InReceive(ke', x) <=> InReceive(ke, x)
        BY <2>1, <2>3, HaltFacts DEF InReceive
    <2>5. Boxes(ke', mess') = Boxes(ke, mess)
        BY <2>3, <2>4 DEF Boxes, Waits, WaitsIn
    <2>6. MailBoxes' = MailBoxes
        BY <2>5, BoxesAre
    <2> QED BY <2>6
<1> QED BY <1>1, <1>2, <1>3

LEMMA InitKeepsPromise ==
    ASSUME MessagesInit
    PROVE  Promise!Init
<1>1. ke = KeInit /\ mess = MessInit
    BY DEF MessagesInit, Init
<1>2. \A p : ~InReceive(KeInit, p)
    BY DEF KeInit, InReceive, Contains
<1>3. \A p \in Process : MessInit.queue[p] = <<>> /\ MessInit.result[p] = NoMessage
    BY DEF MessInit
<1> HIDE DEF KeInit, MessInit
<1>4. ASSUME NEW p \in Receiver
      PROVE  /\ InboxIn(mess, p) = <<>> /\ GotIn(mess, p) = NoMessage
             /\ WaitsIn(ke, mess, p) = NoNode
    <2>1. mess.queue[p] = <<>> /\ mess.result[p] = NoMessage
        BY <1>1, <1>3 DEF Receiver
    <2>2. InboxIn(mess, p) = <<>> /\ GotIn(mess, p) = NoMessage
        BY <2>1, NoMail DEF Receiver
    <2>3. WaitsIn(ke, mess, p) = NoNode
        BY <1>1, <1>2 DEF WaitsIn
    <2> QED BY <2>2, <2>3
<1>5. /\ Inboxes(mess) = [p \in Receiver |-> <<>>]
      /\ Waits(ke, mess) = [p \in Receiver |-> NoNode]
      /\ Gots(mess) = [p \in Receiver |-> NoMessage]
    BY <1>4 DEF Inboxes, Waits, Gots
<1>6. MailBoxes = Promise!BoxInit
    BY <1>5, BoxesAre DEF Boxes, Box, Promise!BoxInit
<1> QED BY <1>6 DEF Promise!Init, MailBoxes

\* The calls of mess.c do to the mailboxes of their users what Mailboxes says:
\* no message is lost, received twice, out of order, by another process or by a
\* call that waits for a different type, but for what MessReceiveType loses.
THEOREM KeepsMailboxesPromise == MessagesSpec => ImplementsMailboxes
<1>1. MessagesInit => Promise!Init
    BY InitKeepsPromise
<1>2. Kept(ke, mess) /\ [MessagesNext]_vars => [Promise!Next]_MailBoxes
    BY HaltKeepsPromise
<1> QED BY <1>1, <1>2, MessagesInvariant, PTL
        DEF MessagesSpec, ImplementsMailboxes, Promise!Spec, MailBoxes
=============================================================================
