--------------------------- MODULE SchedulerProofs ---------------------------
(***************************************************************************)
(* Proofs about Scheduler, for every set of processes, every number of     *)
(* priorities, every quantum, tick and width of a ULONG.                   *)
(***************************************************************************)
EXTENDS Scheduler, ListFacts

\* What the functions of the scheduler keep between any two of their
\* statements: off holds the processes that are on no list for the moment.
Consistent(k, off) ==
    /\ k \in KeState
    /\ off \subseteq Process
    /\ ~k.bugcheck
    /\ \A p \in k.scheduled : k.priority[p] \in Priorities
    /\ ListsHoldAllBut(k, off)

IdleAwake(k) == Idle \in k.scheduled => k.state[Idle] # "blocked"

\* What holds between two calls: the running process is the one off the lists.
Running(k) ==
    /\ Consistent(k, {k.current})
    /\ k.current \in k.scheduled
    /\ k.state[k.current] \in {"created", "running"}
    /\ k.state[k.current] = "created" => k.current = Idle
    /\ IdleAwake(k)

\* The inductive invariant.
Inv(k) ==
    /\ k \in KeState
    /\ k.bugcheck => Idle \notin k.scheduled
    /\ ~k.bugcheck => Running(k) /\ k.quantum # 0

\* The fields no list operation touches.
SameButLists(k, e) ==
    /\ e.priority = k.priority
    /\ e.scheduled = k.scheduled
    /\ e.bugcheck = k.bugcheck
    /\ e.quantum = k.quantum
    /\ e.ticks = k.ticks
-----------------------------------------------------------------------------
\* e is k with p, which was on no list, on its ready queue.
NowReady(k, off, p, e) ==
    /\ Consistent(e, off \ {p})
    /\ SameButLists(k, e)
    /\ e.current = k.current
    /\ e.timer = k.timer
    /\ e.state = [k.state EXCEPT ![p] = "ready"]
    /\ e.ready[k.priority[p]] # <<>>
    /\ \A q \in Priorities : k.ready[q] # <<>> => e.ready[q] # <<>>

\* KepEnqueueProcess puts a process that is on no list on its ready queue.
LEMMA EnqueueConsistent ==
    ASSUME NEW k, NEW off, Consistent(k, off), NEW p \in off, p \in k.scheduled
    PROVE  NowReady(k, off, p, KepEnqueueProcess(k, p))
<1> DEFINE e == KepEnqueueProcess(k, p)
           pr == k.priority[p]
           A == Append(k.ready[pr], p)
<1>1. k \in KeState /\ pr \in Priorities /\ p \in Process /\ ~k.bugcheck
    BY DEF Consistent
<1>2. e = [k EXCEPT !.ready[pr] = A, !.state[p] = "ready"]
    BY <1>1 DEF KepEnqueueProcess
<1>3. k.ready[pr] \in Seq(Process)
    BY <1>1 DEF KeState
<1>4. A \in Seq(Process) /\ A # <<>> /\ \A x : Contains(A, x) <=> Contains(k.ready[pr], x) \/ x = p
    BY <1>1, <1>3, AppendFacts
<1>5. IsInjective(A)
    <2>1. IsInjective(k.ready[pr]) /\ ~Contains(k.ready[pr], p)
        BY <1>1 DEF Consistent, ListsHoldAllBut, NoneTwiceOnLists, OnNoList
    <2> QED BY <1>1, <1>3, <2>1, AppendFacts
<1> HIDE DEF A, e
<1>6. e \in KeState
    BY <1>1, <1>2, <1>4 DEF KeState, States
<1>7. /\ e.ready = [k.ready EXCEPT ![pr] = A] /\ e.state = [k.state EXCEPT ![p] = "ready"]
      /\ e.timer = k.timer /\ e.blocked = k.blocked /\ e.current = k.current
      /\ SameButLists(k, e)
    BY <1>1, <1>2 DEF KeState, SameButLists
<1>8. /\ \A q \in Priorities : e.ready[q] = IF q = pr THEN A ELSE k.ready[q]
      /\ \A x \in Process : e.state[x] = IF x = p THEN "ready" ELSE k.state[x]
      /\ e.priority[p] = pr
    BY <1>1, <1>7 DEF KeState, SameButLists
<1>9. OnNoList(k, p)
    BY DEF Consistent, ListsHoldAllBut
<1>10. OnlyTheirsOnLists(e)
    BY <1>1, <1>4, <1>7, <1>8, <1>9 DEF SameButLists, OnNoList, OnlyTheirsOnLists, Consistent, ListsHoldAllBut
<1>11. NoneTwiceOnLists(e)
    BY <1>5, <1>7, <1>8 DEF NoneTwiceOnLists, Consistent, ListsHoldAllBut
<1>12. ASSUME NEW x \in e.scheduled \ (off \ {p}) PROVE OnItsList(e, x)
    <2>1. x \in Process /\ x \in k.scheduled /\ e.priority[x] = k.priority[x]
        BY <1>1, <1>7 DEF SameButLists, KeState
    <2>2. CASE x = p
        BY <1>1, <1>4, <1>8, <2>1, <2>2 DEF OnItsList
    <2>3. CASE x # p
        <3>1. OnItsList(k, x)
            BY <2>1, <2>3, <1>12 DEF Consistent, ListsHoldAllBut
        <3>2. e.state[x] = k.state[x]
            BY <1>8, <2>1, <2>3
        <3>3. ASSUME k.state[x] = "ready", k.priority[x] \in Priorities,
                     Contains(k.ready[k.priority[x]], x)
              PROVE  Contains(e.ready[e.priority[x]], x)
            BY <1>4, <1>8, <2>1, <3>3
        <3> QED BY <1>7, <2>1, <3>1, <3>2, <3>3 DEF OnItsList
    <2> QED BY <2>2, <2>3
<1>13. ASSUME NEW x \in off \ {p} PROVE OnNoList(e, x)
    <2>1. OnNoList(k, x)
        BY DEF Consistent, ListsHoldAllBut
    <2> QED BY <1>4, <1>7, <1>8, <2>1 DEF OnNoList
<1>14. Consistent(e, off \ {p})
    BY <1>1, <1>6, <1>7, <1>10, <1>11, <1>12, <1>13 DEF Consistent, ListsHoldAllBut, SameButLists
<1> QED BY <1>1, <1>4, <1>7, <1>8, <1>14 DEF e, NowReady

\* d is k with the head of a ready queue current, and off the lists.
Dispatched(k, off, d) ==
    /\ Consistent(d, off \cup {d.current})
    /\ d.current \in k.scheduled
    /\ k.state[d.current] = "ready"
    /\ d.current \notin off
    /\ d.state = k.state
    /\ d.timer = k.timer
    /\ SameButLists(k, d)

\* Dispatching the head of a ready queue takes it off the lists.
LEMMA DispatchHead ==
    ASSUME NEW k, NEW off, Consistent(k, off), NEW q \in Priorities, k.ready[q] # <<>>
    PROVE  Dispatched(k, off, DispatchFrom(k, q))
<1> DEFINE d == DispatchFrom(k, q)
           h == Head(k.ready[q])
           T == Tail(k.ready[q])
<1>1. k \in KeState /\ ~k.bugcheck
    BY DEF Consistent
<1>2. k.ready[q] \in Seq(Process) /\ IsInjective(k.ready[q])
    <2>1. k.ready \in [Priorities -> Seq(Process)]
        BY <1>1 DEF KeState
    <2> QED BY <2>1 DEF Consistent, ListsHoldAllBut, NoneTwiceOnLists
<1>3. /\ h \in Process /\ Contains(k.ready[q], h)
      /\ T \in Seq(Process) /\ IsInjective(T)
      /\ \A x : Contains(T, x) <=> Contains(k.ready[q], x) /\ x # h
    BY <1>2, TailFacts
<1> HIDE DEF d, h, T
<1>4. d = [k EXCEPT !.current = h, !.ready[q] = T]
    BY DEF DispatchFrom, d, h, T
<1>5. d \in KeState
    <2>1. [k.ready EXCEPT ![q] = T] \in [Priorities -> Seq(Process)]
        BY <1>1, <1>3 DEF KeState
    <2> QED BY <1>1, <1>3, <1>4, <2>1 DEF KeState
<1>6. /\ d.ready = [k.ready EXCEPT ![q] = T] /\ d.state = k.state
      /\ d.timer = k.timer /\ d.blocked = k.blocked /\ d.current = h
      /\ SameButLists(k, d)
    BY <1>1, <1>4 DEF KeState, SameButLists
<1>7. \A l \in Priorities : d.ready[l] = IF l = q THEN T ELSE k.ready[l]
    BY <1>1, <1>6 DEF KeState
<1>8. h \in k.scheduled /\ k.state[h] = "ready" /\ k.priority[h] = q
    BY <1>3 DEF Consistent, ListsHoldAllBut, OnlyTheirsOnLists
<1>9. h \notin off
    BY <1>3 DEF Consistent, ListsHoldAllBut, OnNoList
<1>10. OnlyTheirsOnLists(d)
    BY <1>3, <1>6, <1>7 DEF SameButLists, OnlyTheirsOnLists, Consistent, ListsHoldAllBut
<1>11. NoneTwiceOnLists(d)
    BY <1>3, <1>6, <1>7 DEF NoneTwiceOnLists, Consistent, ListsHoldAllBut
<1>12. ASSUME NEW x \in d.scheduled \ (off \cup {h}) PROVE OnItsList(d, x)
    <2>1. OnItsList(k, x) /\ x # h
        BY <1>6, <1>12 DEF SameButLists, Consistent, ListsHoldAllBut
    <2> QED BY <1>3, <1>6, <1>7, <2>1 DEF SameButLists, OnItsList
<1>13. ASSUME NEW x \in off PROVE OnNoList(d, x)
    <2>1. OnNoList(k, x)
        BY DEF Consistent, ListsHoldAllBut
    <2> QED BY <1>3, <1>6, <1>7, <2>1 DEF OnNoList
<1>14. OnNoList(d, h)
    <2>1. \A l \in Priorities : Contains(k.ready[l], h) => l = q
        BY <1>3, <1>8 DEF Consistent, ListsHoldAllBut, OnlyTheirsOnLists
    <2>2. ~Contains(k.timer, h) /\ ~Contains(k.blocked, h)
        BY <1>3, <1>8 DEF Consistent, ListsHoldAllBut, OnlyTheirsOnLists
    <2> QED BY <1>3, <1>6, <1>7, <2>1, <2>2 DEF OnNoList
<1>15. Consistent(d, off \cup {h})
    BY <1>1, <1>3, <1>5, <1>6, <1>10, <1>11, <1>12, <1>13, <1>14
       DEF Consistent, ListsHoldAllBut, SameButLists
<1> QED BY <1>6, <1>8, <1>9, <1>15 DEF d, Dispatched

\* The scan of KepReschedule finds the highest queue that holds a process.
LEMMA HighestCandidate ==
    ASSUME NEW k, Candidates(k) # {}
    PROVE  /\ Highest(Candidates(k)) \in Candidates(k)
           /\ \A j \in Candidates(k) : j <= Highest(Candidates(k))
<1> DEFINE C == Candidates(k)
<1>1. PROCESS_PRIORITY_LEVELS - 1 \in Nat
    BY SchedulerAssumption
<1>2. C \subseteq 0 .. PROCESS_PRIORITY_LEVELS - 1
    BY DEF Candidates, Priorities
<1> HIDE DEF C
<1>3. \E i \in C : \A j \in C : j <= i
    <2>1. C # {}
        BY DEF C
    <2> QED BY <1>1, <1>2, <2>1, GreatestOfNat
<1>4. Highest(C) \in C /\ \A j \in C : j <= Highest(C)
    BY <1>3 DEF Highest
<1> QED BY <1>4 DEF C

\* Giving the processor to a process that is off the lists.
LEMMA SetRunningConsistent ==
    ASSUME NEW d, NEW off, Consistent(d, off), d.current \in off
    PROVE  LET r == SetRunning(d)
           IN  /\ Consistent(r, off)
               /\ r.current = d.current /\ r.state[r.current] = "running"
               /\ \A x \in Process : x # d.current => r.state[x] = d.state[x]
               /\ r.quantum = QUANTUM
               /\ r.scheduled = d.scheduled /\ r.ticks = d.ticks /\ r.timer = d.timer
               /\ r.priority = d.priority
<1> DEFINE r == SetRunning(d)
<1>1. d \in KeState /\ d.current \in Process /\ ~d.bugcheck
    BY DEF Consistent
<1>2. QUANTUM \in 0 .. QUANTUM
    BY SchedulerAssumption
<1>3. r \in KeState
    BY <1>1, <1>2 DEF KeState, States, SetRunning
<1>4. /\ r.quantum = QUANTUM /\ r.ready = d.ready /\ r.timer = d.timer /\ r.blocked = d.blocked
      /\ r.current = d.current /\ r.scheduled = d.scheduled /\ r.priority = d.priority
      /\ r.bugcheck = d.bugcheck /\ r.ticks = d.ticks
      /\ r.state = [d.state EXCEPT ![d.current] = "running"]
    BY <1>1 DEF KeState, SetRunning
<1> HIDE DEF r
<1>5. /\ r.state[r.current] = "running"
      /\ \A x \in Process : x # d.current => r.state[x] = d.state[x]
    BY <1>1, <1>4 DEF KeState
<1>6. OnNoList(d, d.current)
    BY DEF Consistent, ListsHoldAllBut
<1>7. OnlyTheirsOnLists(r)
    BY <1>4, <1>5, <1>6 DEF OnNoList, OnlyTheirsOnLists, Consistent, ListsHoldAllBut
<1>8. NoneTwiceOnLists(r)
    BY <1>4 DEF NoneTwiceOnLists, Consistent, ListsHoldAllBut
<1>9. ASSUME NEW x \in r.scheduled \ off PROVE OnItsList(r, x)
    <2>1. OnItsList(d, x) /\ x # d.current /\ x \in Process
        BY <1>1, <1>4, <1>9 DEF KeState, Consistent, ListsHoldAllBut
    <2> QED BY <1>4, <1>5, <2>1 DEF OnItsList
<1>10. \A x \in off : OnNoList(r, x)
    BY <1>4 DEF OnNoList, Consistent, ListsHoldAllBut
<1>11. Consistent(r, off)
    BY <1>1, <1>3, <1>4, <1>7, <1>8, <1>9, <1>10 DEF Consistent, ListsHoldAllBut
<1> QED BY <1>4, <1>5, <1>11 DEF r

\* KepReschedule when the current process can go on running: it never fails.
LEMMA RescheduleAwake ==
    ASSUME NEW k, Consistent(k, {k.current}), k.current \in k.scheduled,
           k.state[k.current] # "blocked", IdleAwake(k)
    PROVE  /\ Running(KepReschedule(k))
           /\ KepReschedule(k).quantum = QUANTUM
           /\ KepReschedule(k).scheduled = k.scheduled
           /\ KepReschedule(k).ticks = k.ticks
           /\ KepReschedule(k).timer = k.timer
<1> DEFINE C   == Candidates(k)
           top == Highest(C)
           e   == KepEnqueueProcess(k, k.current)
           d   == Dispatch(k)
           r   == KepReschedule(k)
<1>1. k \in KeState /\ k.current \in Process /\ ~k.bugcheck
    BY DEF Consistent
<1>2. ASSUME C = {} PROVE d = k
    BY <1>2 DEF Dispatch
<1>3. ASSUME C # {}
      PROVE  /\ Consistent(d, {d.current})
             /\ d.current \in k.scheduled /\ d.state[d.current] = "ready"
             /\ d.timer = k.timer /\ SameButLists(k, d)
             /\ IdleAwake(d)
    <2>1. top \in Priorities /\ k.ready[top] # <<>>
        <3>1. top \in C
            BY <1>3, HighestCandidate
        <3> QED BY <3>1 DEF Candidates
    <2> HIDE DEF top, C
    <2>2. PICK off : off = {k.current}
        OBVIOUS
    <2>3. NowReady(k, off, k.current, e)
        <3>1. k.current \in off /\ Consistent(k, off)
            BY <2>2
        <3> QED BY <3>1, EnqueueConsistent
    <2> HIDE DEF e
    <2>4. e.ready[top] # <<>> /\ SameButLists(k, e) /\ Consistent(e, off \ {k.current})
        BY <2>1, <2>3 DEF NowReady
    <2>5. PICK none : none = off \ {k.current}
        OBVIOUS
    <2>6. d = DispatchFrom(e, top)
        BY <1>1, <1>3, <2>4 DEF Dispatch, SameButLists, C, top, e
    <2> HIDE DEF d
    <2>7. Dispatched(e, none, d)
        BY <2>1, <2>4, <2>5, <2>6, DispatchHead
    <2>8. none \cup {d.current} = {d.current}
        BY <2>2, <2>5
    <2>9. IdleAwake(d)
        BY <1>1, <2>3, <2>7, SchedulerAssumption
           DEF IdleAwake, SameButLists, KeState, NowReady, Dispatched
    <2> QED BY <2>3, <2>7, <2>8, <2>9 DEF SameButLists, NowReady, Dispatched
<1>4. /\ Consistent(d, {d.current}) /\ d.state[d.current] # "blocked"
      /\ d.current \in k.scheduled
      /\ d.timer = k.timer /\ d.scheduled = k.scheduled /\ d.ticks = k.ticks /\ IdleAwake(d)
    BY <1>2, <1>3 DEF SameButLists
<1> HIDE DEF d, C
<1>5. r = SetRunning(d)
    BY <1>4 DEF KepReschedule, Consistent, d
<1> HIDE DEF r
<1>6. /\ Consistent(r, {d.current})
      /\ r.current = d.current /\ r.state[r.current] = "running"
      /\ \A x \in Process : x # d.current => r.state[x] = d.state[x]
      /\ r.quantum = QUANTUM
      /\ r.scheduled = d.scheduled /\ r.ticks = d.ticks /\ r.timer = d.timer
    BY <1>4, <1>5, SetRunningConsistent
<1>7. IdleAwake(r)
    BY <1>4, <1>6, SchedulerAssumption DEF IdleAwake
<1> QED BY <1>4, <1>6, <1>7 DEF Running, r

\* KepReschedule when the current process is blocked: it finds another one
\* unless process 0 is gone.
LEMMA RescheduleBlocked ==
    ASSUME NEW k, NEW off, Consistent(k, off), k.state[k.current] = "blocked",
           IdleAwake(k), Idle \notin off
    PROVE  LET r == KepReschedule(k)
           IN  /\ r \in KeState
               /\ r.scheduled = k.scheduled
               /\ r.bugcheck => Idle \notin r.scheduled
               /\ ~r.bugcheck =>
                    /\ Consistent(r, off \cup {r.current})
                    /\ r.current \in k.scheduled /\ r.current \notin off
                    /\ r.state[r.current] = "running"
                    /\ IdleAwake(r)
                    /\ r.quantum = QUANTUM
<1> DEFINE C   == Candidates(k)
           top == Highest(C)
           d   == Dispatch(k)
           r   == KepReschedule(k)
<1>1. k \in KeState /\ k.current \in Process /\ ~k.bugcheck
    BY DEF Consistent, KeState
<1>2. CASE C = {}
    <2>1. d = k
        BY <1>2 DEF Dispatch
    <2>2. r = [k EXCEPT !.bugcheck = TRUE]
        BY <1>1, <2>1 DEF KepReschedule, KeBugCheck
    <2> HIDE DEF r
    <2>3. r \in KeState /\ r.scheduled = k.scheduled /\ r.bugcheck
        BY <1>1, <2>2 DEF KeState
    <2>4. Idle \notin k.scheduled
        <3> SUFFICES ASSUME Idle \in k.scheduled PROVE FALSE
            OBVIOUS
        <3>1. OnItsList(k, Idle) /\ k.state[Idle] # "blocked"
            BY DEF IdleAwake, Consistent, ListsHoldAllBut
        <3>2. k.priority[Idle] \in Priorities /\ Contains(k.ready[k.priority[Idle]], Idle)
            BY <3>1 DEF OnItsList
        <3>3. k.ready[k.priority[Idle]] # <<>>
            BY <3>2 DEF Contains
        <3>4. k.priority[Idle] \in C
            BY <3>2, <3>3 DEF Candidates
        <3> QED BY <1>2, <3>4
    <2> QED BY <2>3, <2>4 DEF r
<1>3. CASE C # {}
    <2>1. top \in Priorities /\ k.ready[top] # <<>>
        <3>1. top \in C
            BY <1>3, HighestCandidate
        <3> QED BY <3>1 DEF Candidates
    <2> HIDE DEF top, C
    <2>2. d = DispatchFrom(k, top)
        BY <1>1, <1>3 DEF Dispatch, C, top
    <2> HIDE DEF d
    <2>3. Dispatched(k, off, d)
        BY <2>1, <2>2, DispatchHead
    <2>4. r = SetRunning(d)
        BY <2>3 DEF KepReschedule, Consistent, Dispatched, d
    <2> HIDE DEF r
    <2>5. /\ Consistent(r, off \cup {d.current})
          /\ r.current = d.current /\ r.state[r.current] = "running"
          /\ \A x \in Process : x # d.current => r.state[x] = d.state[x]
          /\ r.quantum = QUANTUM /\ r.scheduled = d.scheduled
        BY <2>3, <2>4, SetRunningConsistent DEF Dispatched
    <2>6. IdleAwake(r)
        BY <2>3, <2>5, SchedulerAssumption DEF IdleAwake, SameButLists, Dispatched
    <2>7. r \in KeState /\ ~r.bugcheck
        BY <2>5 DEF Consistent
    <2> QED BY <2>3, <2>5, <2>6, <2>7 DEF SameButLists, Dispatched, r
<1> QED BY <1>2, <1>3
-----------------------------------------------------------------------------
\* A change of the current process changes nothing of who waits, and until when.
SameWaiters(k, r) ==
    /\ r.blocked = k.blocked
    /\ r.timer = k.timer
    /\ r.scheduled = k.scheduled
    /\ r.wake = k.wake
    /\ r.ticks = k.ticks
    /\ r.priority = k.priority

LEMMA EnqueueSameWaiters ==
    ASSUME NEW k \in KeState, NEW p \in Process
    PROVE  LET e == KepEnqueueProcess(k, p)
           IN  /\ e \in KeState /\ SameWaiters(k, e)
               /\ \A q \in Priorities : k.ready[q] # <<>> => e.ready[q] # <<>>
<1> DEFINE e  == KepEnqueueProcess(k, p)
           pr == k.priority[p]
           A  == Append(k.ready[pr], p)
<1>1. CASE pr \in Priorities
    <2>1. A \in Seq(Process) /\ A # <<>>
        <3>1. k.ready[pr] \in Seq(Process)
            BY <1>1 DEF KeState
        <3>2. QED
            BY <3>1
    <2>2. e = [k EXCEPT !.ready[pr] = A, !.state[p] = "ready"]
        BY <1>1 DEF KepEnqueueProcess
    <2> HIDE DEF A, e
    <2>3. e \in KeState
        BY <1>1, <2>1, <2>2 DEF KeState, States
    <2>4. SameWaiters(k, e)
        BY <2>2 DEF KeState, SameWaiters
    <2>5. e.ready = [k.ready EXCEPT ![pr] = A]
        BY <2>2 DEF KeState
    <2>6. \A q \in Priorities : k.ready[q] # <<>> => e.ready[q] # <<>>
        BY <2>1, <2>5 DEF KeState
    <2>7. QED
        BY <2>3, <2>4, <2>6 DEF e
<1>2. CASE pr \notin Priorities
    BY <1>2 DEF KepEnqueueProcess, KeBugCheck, KeState, SameWaiters
<1>3. QED
    BY <1>1, <1>2

LEMMA DequeueSameWaiters ==
    ASSUME NEW k \in KeState, NEW p \in Process
    PROVE  KepDequeueProcess(k, p) \in KeState /\ SameWaiters(k, KepDequeueProcess(k, p))
<1> DEFINE d  == KepDequeueProcess(k, p)
           pr == k.priority[p]
           L  == RemoveAt(k.ready[pr], Position(k.ready[pr], p))
<1>1. CASE pr \in Priorities /\ Contains(k.ready[pr], p)
    <2>1. k.ready[pr] \in Seq(Process)
        BY <1>1 DEF KeState
    <2>2. Position(k.ready[pr], p) \in DOMAIN k.ready[pr]
        BY <1>1, <2>1 DEF Position, Contains
    <2>3. L \in Seq(Process)
        BY <2>1, <2>2, RemoveAtElements
    <2>4. d = [k EXCEPT !.ready = [k.ready EXCEPT ![pr] = L]]
        BY <1>1 DEF KepDequeueProcess, KeState
    <2> HIDE DEF L
    <2>5. [k.ready EXCEPT ![pr] = L] \in [Priorities -> Seq(Process)]
        BY <2>3 DEF KeState
    <2> HIDE DEF d
    <2>6. d \in KeState /\ SameWaiters(k, d)
        BY <2>4, <2>5 DEF KeState, SameWaiters
    <2> QED BY <2>6 DEF d
<1>2. CASE ~(pr \in Priorities /\ Contains(k.ready[pr], p))
    BY <1>2 DEF KepDequeueProcess, KeBugCheck, KeState, SameWaiters
<1> QED BY <1>1, <1>2

LEMMA DispatchSameWaiters ==
    ASSUME NEW k \in KeState, NEW q \in Priorities, k.ready[q] # <<>>
    PROVE  DispatchFrom(k, q) \in KeState /\ SameWaiters(k, DispatchFrom(k, q))
<1> DEFINE h == Head(k.ready[q])
           T == Tail(k.ready[q])
<1>1. h \in Process /\ T \in Seq(Process)
    <2>1. k.ready[q] \in Seq(Process)
        BY DEF KeState
    <2>2. QED
        BY <2>1
<1>2. [k.ready EXCEPT ![q] = T] \in [Priorities -> Seq(Process)]
    BY <1>1 DEF KeState
<1>3. DispatchFrom(k, q) = [k EXCEPT !.current = h, !.ready = [k.ready EXCEPT ![q] = T]]
    BY DEF DispatchFrom, KeState
<1> HIDE DEF h, T
<1>4. QED
    BY <1>1, <1>2, <1>3 DEF KeState, SameWaiters

LEMMA RescheduleSameWaiters ==
    ASSUME NEW k \in KeState
    PROVE  KepReschedule(k) \in KeState /\ SameWaiters(k, KepReschedule(k))
<1> DEFINE C   == Candidates(k)
           top == Highest(C)
           r   == IF k.state[k.current] = "blocked"
                  THEN k ELSE KepEnqueueProcess(k, k.current)
           d   == Dispatch(k)
<1>1. k.current \in Process
    BY DEF KeState
<1>2. /\ r \in KeState /\ SameWaiters(k, r)
      /\ \A q \in Priorities : k.ready[q] # <<>> => r.ready[q] # <<>>
    BY <1>1, EnqueueSameWaiters DEF SameWaiters
<1>3. C # {} => top \in Priorities /\ k.ready[top] # <<>>
    BY HighestCandidate DEF Candidates
<1>4. d = IF C = {} THEN k ELSE IF r.bugcheck THEN r ELSE DispatchFrom(r, top)
    BY DEF Dispatch
<1> HIDE DEF C, top, r, d
<1>5. d \in KeState /\ SameWaiters(k, d)
    <2>1. CASE C = {}
        BY <1>4, <2>1 DEF SameWaiters
    <2>2. CASE C # {} /\ r.bugcheck
        BY <1>2, <1>4, <2>2
    <2>3. CASE C # {} /\ ~r.bugcheck
        BY <1>2, <1>3, <1>4, <2>3, DispatchSameWaiters DEF SameWaiters
    <2>4. QED
        BY <2>1, <2>2, <2>3
<1>6. KepReschedule(k) \in {d, KeBugCheck(d), SetRunning(d)}
    BY DEF KepReschedule, d
<1>7. KeBugCheck(d) \in KeState /\ SameWaiters(d, KeBugCheck(d))
    BY <1>5 DEF KeBugCheck, KeState, SameWaiters
<1>8. QUANTUM \in 0 .. QUANTUM
    BY SchedulerAssumption
<1>9. SetRunning(d) \in KeState /\ SameWaiters(d, SetRunning(d))
    BY <1>5, <1>8 DEF SetRunning, KeState, States, SameWaiters
<1>10. QED
    BY <1>5, <1>6, <1>7, <1>9 DEF SameWaiters
-----------------------------------------------------------------------------
\* Unlinking a process from a list that holds it once.
LEMMA UnlinkFacts ==
    ASSUME NEW L \in Seq(Process), IsInjective(L), NEW p, Contains(L, p)
    PROVE  /\ RemoveAt(L, Position(L, p)) \in Seq(Process)
           /\ IsInjective(RemoveAt(L, Position(L, p)))
           /\ \A x : Contains(RemoveAt(L, Position(L, p)), x) <=> Contains(L, x) /\ x # p
<1>1. DOMAIN L = 1 .. Len(L)
    OBVIOUS
<1>2. Position(L, p) \in DOMAIN L /\ L[Position(L, p)] = p
    BY <1>1 DEF Contains, Position
<1> QED BY <1>2, RemoveAtFacts

\* u is k with p, which was on its list, on no list.
Unlinked(k, off, p, u) ==
    /\ Consistent(u, off \cup {p})
    /\ SameButLists(k, u)
    /\ u.current = k.current
    /\ u.state = k.state

\* KepRemoveFromProcessList finds every blocked process on one of its lists.
LEMMA RemoveBlocked ==
    ASSUME NEW k, NEW off, Consistent(k, off), NEW p, p \in k.scheduled, p \notin off,
           k.state[p] = "blocked"
    PROVE  Unlinked(k, off, p, RemoveFromBlockedLists(k, p))
<1> DEFINE u == RemoveFromBlockedLists(k, p)
           T == RemoveAt(k.timer, Position(k.timer, p))
           B == RemoveAt(k.blocked, Position(k.blocked, p))
<1>1. k \in KeState /\ p \in Process /\ ~k.bugcheck
    BY DEF Consistent, KeState
<1>2. OnItsList(k, p)
    BY DEF Consistent, ListsHoldAllBut
<1>3. /\ Contains(k.timer, p) \/ Contains(k.blocked, p)
      /\ ~(Contains(k.timer, p) /\ Contains(k.blocked, p))
      /\ \A q \in Priorities : ~Contains(k.ready[q], p)
    BY <1>1, <1>2 DEF OnItsList, Consistent, ListsHoldAllBut, NoneTwiceOnLists, OnlyTheirsOnLists
<1>4. /\ k.timer \in Seq(Process) /\ IsInjective(k.timer)
      /\ k.blocked \in Seq(Process) /\ IsInjective(k.blocked)
    BY <1>1 DEF KeState, Consistent, ListsHoldAllBut, NoneTwiceOnLists
<1>5. 0 \in Ulong
    BY SchedulerAssumption DEF Ulong
<1>6. ASSUME Contains(k.timer, p)
      PROVE  /\ T \in Seq(Process) /\ IsInjective(T)
             /\ \A x : Contains(T, x) <=> Contains(k.timer, x) /\ x # p
    BY <1>4, <1>6, UnlinkFacts
<1>7. ASSUME Contains(k.blocked, p)
      PROVE  /\ B \in Seq(Process) /\ IsInjective(B)
             /\ \A x : Contains(B, x) <=> Contains(k.blocked, x) /\ x # p
    BY <1>4, <1>7, UnlinkFacts
<1> HIDE DEF T, B
<1>8. PICK t, b :
        /\ t \in Seq(Process) /\ IsInjective(t)
        /\ b \in Seq(Process) /\ IsInjective(b)
        /\ \A x : Contains(t, x) <=> Contains(k.timer, x) /\ x # p
        /\ \A x : Contains(b, x) <=> Contains(k.blocked, x) /\ x # p
        /\ u = [k EXCEPT !.wake[p] = 0, !.method[p] = FALSE, !.timer = t, !.blocked = b]
    <2>1. CASE Contains(k.timer, p)
        <3>1. u = [k EXCEPT !.wake[p] = 0, !.method[p] = FALSE, !.timer = T, !.blocked = k.blocked]
            BY <1>1, <2>1 DEF RemoveFromBlockedLists, T, KeState
        <3> QED BY <1>3, <1>4, <1>6, <2>1, <3>1
    <2>2. CASE Contains(k.blocked, p)
        <3>1. u = [k EXCEPT !.wake[p] = 0, !.method[p] = FALSE, !.timer = k.timer, !.blocked = B]
            BY <1>1, <1>3, <2>2 DEF RemoveFromBlockedLists, B, KeState
        <3> QED BY <1>3, <1>4, <1>7, <2>2, <3>1
    <2> QED BY <1>3, <2>1, <2>2
<1> HIDE DEF u
<1>9. u \in KeState
    BY <1>1, <1>5, <1>8 DEF KeState
<1>10. /\ u.timer = t /\ u.blocked = b /\ u.ready = k.ready /\ u.state = k.state
       /\ u.current = k.current /\ SameButLists(k, u)
    BY <1>1, <1>8 DEF KeState, SameButLists
<1>11. OnlyTheirsOnLists(u)
    BY <1>8, <1>10 DEF SameButLists, OnlyTheirsOnLists, Consistent, ListsHoldAllBut
<1>12. NoneTwiceOnLists(u)
    BY <1>8, <1>10 DEF NoneTwiceOnLists, Consistent, ListsHoldAllBut
<1>13. ASSUME NEW x \in u.scheduled \ (off \cup {p}) PROVE OnItsList(u, x)
    <2>1. OnItsList(k, x) /\ x # p
        BY <1>10, <1>13 DEF SameButLists, Consistent, ListsHoldAllBut
    <2> QED BY <1>8, <1>10, <2>1 DEF SameButLists, OnItsList
<1>14. ASSUME NEW x \in off \cup {p} PROVE OnNoList(u, x)
    <2>1. x # p => OnNoList(k, x)
        BY DEF Consistent, ListsHoldAllBut
    <2> QED BY <1>3, <1>8, <1>10, <2>1 DEF OnNoList
<1>15. Consistent(u, off \cup {p})
    BY <1>1, <1>9, <1>10, <1>11, <1>12, <1>13, <1>14 DEF Consistent, ListsHoldAllBut, SameButLists
<1> QED BY <1>10, <1>15 DEF Unlinked, u

\* KepDequeueProcess finds every ready process in the queue of its priority.
LEMMA DequeueReady ==
    ASSUME NEW k, NEW off, Consistent(k, off), NEW p, p \in k.scheduled, p \notin off,
           k.state[p] = "ready"
    PROVE  Unlinked(k, off, p, KepDequeueProcess(k, p))
<1> DEFINE u  == KepDequeueProcess(k, p)
           pr == k.priority[p]
           L  == k.ready[pr]
           R  == RemoveAt(L, Position(L, p))
<1>1. k \in KeState /\ p \in Process /\ ~k.bugcheck
    BY DEF Consistent, KeState
<1>2. pr \in Priorities /\ Contains(L, p)
    BY DEF Consistent, ListsHoldAllBut, OnItsList
<1>3. L \in Seq(Process) /\ IsInjective(L)
    <2>1. k.ready \in [Priorities -> Seq(Process)]
        BY <1>1 DEF KeState
    <2> QED BY <1>2, <2>1 DEF Consistent, ListsHoldAllBut, NoneTwiceOnLists
<1>4. /\ R \in Seq(Process) /\ IsInjective(R)
      /\ \A x : Contains(R, x) <=> Contains(L, x) /\ x # p
    BY <1>2, <1>3, UnlinkFacts
<1>5. u = [k EXCEPT !.ready[pr] = R]
    BY <1>1, <1>2 DEF KepDequeueProcess
<1> HIDE DEF u, pr, R
<1>6. u \in KeState
    <2>1. [k.ready EXCEPT ![pr] = R] \in [Priorities -> Seq(Process)]
        BY <1>1, <1>4 DEF KeState
    <2> QED BY <1>1, <1>5, <2>1 DEF KeState
<1>7. /\ u.ready = [k.ready EXCEPT ![pr] = R] /\ u.state = k.state /\ u.timer = k.timer
      /\ u.blocked = k.blocked /\ u.current = k.current /\ SameButLists(k, u)
    BY <1>1, <1>5 DEF KeState, SameButLists
<1>8. \A q \in Priorities : u.ready[q] = IF q = pr THEN R ELSE k.ready[q]
    BY <1>1, <1>7 DEF KeState
<1>9. /\ \A q \in Priorities : Contains(k.ready[q], p) => q = pr
      /\ ~Contains(k.timer, p) /\ ~Contains(k.blocked, p)
    BY <1>1 DEF Consistent, ListsHoldAllBut, OnlyTheirsOnLists, pr
<1>10. OnlyTheirsOnLists(u)
    BY <1>4, <1>7, <1>8 DEF SameButLists, OnlyTheirsOnLists, Consistent, ListsHoldAllBut
<1>11. NoneTwiceOnLists(u)
    BY <1>4, <1>7, <1>8 DEF NoneTwiceOnLists, Consistent, ListsHoldAllBut
<1>12. ASSUME NEW x \in u.scheduled \ (off \cup {p}) PROVE OnItsList(u, x)
    <2>1. OnItsList(k, x) /\ x # p
        BY <1>7, <1>12 DEF SameButLists, Consistent, ListsHoldAllBut
    <2> QED BY <1>4, <1>7, <1>8, <2>1 DEF SameButLists, OnItsList
<1>13. ASSUME NEW x \in off \cup {p} PROVE OnNoList(u, x)
    <2>1. x # p => OnNoList(k, x)
        BY DEF Consistent, ListsHoldAllBut
    <2> QED BY <1>4, <1>7, <1>8, <1>9, <2>1 DEF OnNoList
<1>14. Consistent(u, off \cup {p})
    BY <1>1, <1>6, <1>7, <1>10, <1>11, <1>12, <1>13 DEF Consistent, ListsHoldAllBut, SameButLists
<1> QED BY <1>7, <1>14 DEF Unlinked, u
-----------------------------------------------------------------------------
\* KeResumeProcess, with the reschedule at its end, never fails for a process
\* that is blocked.
LEMMA ResumeRunning ==
    ASSUME NEW k, Running(k), NEW p, p \in k.scheduled, k.state[p] = "blocked"
    PROVE  /\ Running(KeResumeProcess(k, p))
           /\ KeResumeProcess(k, p).scheduled = k.scheduled
           /\ KeResumeProcess(k, p).ticks = k.ticks
           /\ KeResumeProcess(k, p).quantum \in {k.quantum, QUANTUM}
<1> DEFINE u == RemoveFromBlockedLists(k, p)
           e == KepEnqueueProcess(u, p)
           r == KepReschedule(e)
<1>1. /\ k \in KeState /\ p \in Process /\ Consistent(k, {k.current})
      /\ k.current \in k.scheduled /\ IdleAwake(k) /\ p # k.current
      /\ k.state[k.current] \in {"created", "running"} /\ k.current \in Process
    BY DEF Running, Consistent, KeState
<1>2. PICK off : off = {k.current}
    OBVIOUS
<1>3. Unlinked(k, off, p, u)
    BY <1>1, <1>2, RemoveBlocked
<1> HIDE DEF u
<1>4. Consistent(u, off \cup {p}) /\ u.scheduled = k.scheduled /\ u.current = k.current /\ ~u.bugcheck
    BY <1>3 DEF Unlinked, SameButLists, Consistent
<1>5. PICK both : both = off \cup {p}
    OBVIOUS
<1>6. NowReady(u, both, p, e)
    BY <1>4, <1>5, EnqueueConsistent
<1> HIDE DEF e
<1>7. both \ {p} = {k.current}
    BY <1>1, <1>2, <1>5
<1>8. /\ Consistent(e, {e.current}) /\ e.current = k.current
      /\ e.scheduled = k.scheduled /\ e.ticks = k.ticks /\ e.quantum = k.quantum /\ ~e.bugcheck
    BY <1>3, <1>4, <1>6, <1>7 DEF Unlinked, NowReady, SameButLists, Consistent
<1>9. e.state = [k.state EXCEPT ![p] = "ready"]
    BY <1>3, <1>6 DEF Unlinked, NowReady
<1>10. e.state[e.current] = k.state[k.current]
    BY <1>1, <1>8, <1>9 DEF KeState
<1>11. IdleAwake(e)
    BY <1>1, <1>8, <1>9, SchedulerAssumption DEF IdleAwake, KeState
<1>12. Running(e)
    BY <1>1, <1>8, <1>10, <1>11 DEF Running
<1>13. /\ Running(r) /\ r.scheduled = e.scheduled /\ r.ticks = e.ticks /\ r.quantum = QUANTUM
    BY <1>1, <1>8, <1>10, <1>11, RescheduleAwake
<1> HIDE DEF r
<1>14. KeResumeProcess(k, p) \in {e, r}
    BY <1>4, <1>8 DEF KeResumeProcess, u, e, r
<1> QED BY <1>8, <1>12, <1>13, <1>14

\* The states the loop of KepWakeUpSleepers goes through from state k.
LoopStates(k) ==
    {x \in KeState : /\ Running(x)
                     /\ x.scheduled = k.scheduled
                     /\ x.ticks = k.ticks
                     /\ x.quantum \in {k.quantum, QUANTUM}}

LEMMA WakeSleeperStays ==
    ASSUME NEW k, NEW x \in LoopStates(k)
    PROVE  WakeSleeper(x) \in LoopStates(k)
<1>1. Running(x) /\ x \in KeState /\ ~x.bugcheck
    BY DEF LoopStates, Running, Consistent
<1>2. CASE ~SleeperIsDue(x)
    BY <1>2 DEF WakeSleeper
<1>3. CASE SleeperIsDue(x)
    <2> DEFINE p == Head(x.timer)
               r == KeResumeProcess(x, p)
    <2>1. x.timer \in Seq(Process) /\ x.timer # <<>>
        BY <1>1, <1>3 DEF KeState, SleeperIsDue
    <2>2. p \in Process /\ Contains(x.timer, p)
        BY <2>1, TailFacts
    <2>3. p \in x.scheduled /\ x.state[p] = "blocked"
        BY <1>1, <2>2 DEF Running, Consistent, ListsHoldAllBut, OnlyTheirsOnLists
    <2> HIDE DEF p
    <2>4. /\ Running(r) /\ r.scheduled = x.scheduled /\ r.ticks = x.ticks
          /\ r.quantum \in {x.quantum, QUANTUM}
        BY <1>1, <2>3, ResumeRunning
    <2> HIDE DEF r
    <2>5. r \in LoopStates(k)
        BY <2>4 DEF LoopStates, Running, Consistent
    <2>6. WakeSleeper(x) = r
        BY <1>1, <1>3 DEF WakeSleeper, r, p
    <2> QED BY <2>5, <2>6
<1> QED BY <1>2, <1>3

\* KepWakeUpSleepers is the repetition of WakeSleeper, as often as the timer
\* list was long: the states it goes through.
LEMMA WakeUpIterates ==
    ASSUME NEW k \in KeState, NEW S, k \in S, \A x \in S : WakeSleeper(x) \in S
    PROVE  \E g : /\ \A n \in Nat : g[n] \in S
                  /\ g[0] = k
                  /\ \A n \in Nat : g[n + 1] = WakeSleeper(g[n])
                  /\ KepWakeUpSleepers(k) = g[Len(k.timer)]
<1> DEFINE Def(f) == [n \in Nat |-> IF n = 0 THEN k ELSE WakeSleeper(f[n - 1])]
           g == CHOOSE f : f = Def(f)
           D == {n \in Nat : g[n] \in S}
<1>1. \E f : f = Def(f)
    <2>1. PICK G \in [Nat -> [S -> S]] : \A n \in Nat : \A x \in S : G[n][x] = WakeSleeper(x)
        <3>1. [n \in Nat |-> [x \in S |-> WakeSleeper(x)]] \in [Nat -> [S -> S]]
            OBVIOUS
        <3> QED BY <3>1
    <2>2. PICK f : IsIteration(f, S, k, G)
        BY IterateExists
    <2>3. /\ f \in [Nat -> S] /\ f[0] = k
          /\ \A n \in Nat : f[n + 1] = WakeSleeper(f[n])
        <3>1. f \in [Nat -> S] /\ f[0] = k
            BY <2>2 DEF IsIteration
        <3>2. ASSUME NEW n \in Nat PROVE f[n + 1] = WakeSleeper(f[n])
            <4>1. f[n] \in S /\ f[n + 1] = G[n][f[n]]
                BY <2>2 DEF IsIteration
            <4> QED BY <2>1, <4>1
        <3> QED BY <3>1, <3>2
    <2>4. ASSUME NEW n \in Nat PROVE f[n] = Def(f)[n]
        <3>1. CASE n = 0
            BY <2>3, <3>1
        <3>2. CASE n # 0
            <4>1. n - 1 \in Nat /\ (n - 1) + 1 = n
                BY <3>2
            <4>2. f[n] = WakeSleeper(f[n - 1])
                BY <2>3, <4>1
            <4> QED BY <3>2, <4>2
        <3> QED BY <3>1, <3>2
    <2>5. f = Def(f)
        BY <2>3, <2>4
    <2> QED BY <2>5
<1>2. g = Def(g)
    <2> HIDE DEF Def
    <2> QED BY <1>1
<1> HIDE DEF g
<1>3. g[0] = k
    <2>1. g[0] = Def(g)[0]
        BY <1>2, Zenon
    <2>2. Def(g)[0] = k
        OBVIOUS
    <2> QED BY <2>1, <2>2
<1>4. ASSUME NEW n \in Nat PROVE g[n + 1] = WakeSleeper(g[n])
    <2>1. g[n + 1] = Def(g)[n + 1]
        BY <1>2, Zenon
    <2>2. Def(g)[n + 1] = WakeSleeper(g[n])
        OBVIOUS
    <2> QED BY <2>1, <2>2
<1>5. Nat \subseteq D
    <2>1. 0 \in D /\ \A n \in Nat : n \in D => n + 1 \in D
        BY <1>3, <1>4
    <2> HIDE DEF D
    <2> QED BY <2>1, NatSetInduction
<1>6. KepWakeUpSleepers(k) = g[Len(k.timer)]
    BY DEF KepWakeUpSleepers, g
<1> QED BY <1>3, <1>4, <1>5, <1>6

\* The loop of KepWakeUpSleepers stays in every set its iterations stay in.
LEMMA WakeUpStays ==
    ASSUME NEW k \in KeState, NEW S, k \in S, \A x \in S : WakeSleeper(x) \in S
    PROVE  KepWakeUpSleepers(k) \in S
<1>1. PICK g : /\ \A n \in Nat : g[n] \in S
               /\ KepWakeUpSleepers(k) = g[Len(k.timer)]
    BY WakeUpIterates
<1>2. Len(k.timer) \in Nat
    BY DEF KeState
<1> QED BY <1>1, <1>2

\* KepWakeUpSleepers: however many sleepers are due, the loop keeps the lists
\* consistent and the machine running.
LEMMA WakeUpRunning ==
    ASSUME NEW k, Running(k)
    PROVE  KepWakeUpSleepers(k) \in LoopStates(k)
<1>1. k \in LoopStates(k) /\ k \in KeState
    BY DEF LoopStates, Running, Consistent
<1>2. \A x \in LoopStates(k) : WakeSleeper(x) \in LoopStates(k)
    BY WakeSleeperStays
<1> QED BY <1>1, <1>2, WakeUpStays
-----------------------------------------------------------------------------
\* What every call leaves behind: the invariant.  Each of the lemmas below is
\* one action of Next.
LEMMA RunningInv ==
    ASSUME NEW k, Running(k), k.quantum # 0
    PROVE  Inv(k)
BY DEF Inv, Running, Consistent

\* A KepReschedule that ends a call of the current process.
LEMMA RescheduleBlockedInv ==
    ASSUME NEW k, Consistent(k, {}), k.state[k.current] = "blocked", IdleAwake(k)
    PROVE  Inv(KepReschedule(k))
<1> DEFINE r == KepReschedule(k)
<1>1. PICK off : off = {}
    OBVIOUS
<1>2. /\ r \in KeState
      /\ r.scheduled = k.scheduled
      /\ r.bugcheck => Idle \notin r.scheduled
      /\ ~r.bugcheck =>
           /\ Consistent(r, off \cup {r.current})
           /\ r.current \in k.scheduled
           /\ r.state[r.current] = "running"
           /\ IdleAwake(r)
           /\ r.quantum = QUANTUM
    BY <1>1, RescheduleBlocked
<1> HIDE DEF r
<1>3. off \cup {r.current} = {r.current}
    BY <1>1
<1>4. QUANTUM # 0
    BY SchedulerAssumption
<1> QED BY <1>2, <1>3, <1>4 DEF Inv, Running, r

LEMMA InitInv == Inv(KeInit)
<1>1. KeInit \in KeState
    <2>1. 1 \in 0 .. QUANTUM /\ 0 \in Ulong /\ Idle \in Process
        BY SchedulerAssumption DEF Ulong
    <2>2. <<>> \in Seq(Process)
        OBVIOUS
    <2> QED BY <2>1, <2>2 DEF KeInit, KeState, States
<1>2. /\ KeInit.current = Idle /\ KeInit.scheduled = {Idle} /\ ~KeInit.bugcheck
      /\ KeInit.timer = <<>> /\ KeInit.blocked = <<>> /\ KeInit.quantum = 1
      /\ \A q \in Priorities : KeInit.ready[q] = <<>>
      /\ KeInit.state[Idle] = "created" /\ KeInit.priority[Idle] = 0
    BY SchedulerAssumption DEF KeInit
<1>3. \A x : ~Contains(<<>>, x)
    BY DEF Contains
<1>4. IsInjective(<<>>)
    BY DEF IsInjective
<1>5. 0 \in Priorities
    BY SchedulerAssumption DEF Priorities
<1> HIDE DEF KeInit
<1>6. OnlyTheirsOnLists(KeInit) /\ NoneTwiceOnLists(KeInit) /\ OnNoList(KeInit, Idle)
    BY <1>2, <1>3, <1>4 DEF OnlyTheirsOnLists, NoneTwiceOnLists, OnNoList
<1>7. Consistent(KeInit, {KeInit.current})
    BY <1>1, <1>2, <1>5, <1>6, SchedulerAssumption DEF Consistent, ListsHoldAllBut
<1>8. Running(KeInit)
    BY <1>2, <1>7 DEF Running, IdleAwake
<1> QED BY <1>2, <1>8, RunningInv

LEMMA StartInv ==
    ASSUME NEW k, Running(k), k.quantum # 0, NEW p \in Process, NEW prio \in Priorities,
           p \notin k.scheduled, p # Idle
    PROVE  Inv(KeStartSchedulingProcess(NewProcess(k, p, prio), p))
<1> DEFINE n == [NewProcess(k, p, prio) EXCEPT !.scheduled = @ \cup {p}]
           e == KepEnqueueProcess(n, p)
<1>1. k \in KeState /\ Consistent(k, {k.current}) /\ k.current \in k.scheduled /\ ~k.bugcheck
    BY DEF Running, Consistent
<1>2. n \in KeState
    <2>1. /\ [k.state EXCEPT ![p] = "ready"] \in [Process -> States]
          /\ [k.priority EXCEPT ![p] = prio] \in [Process -> Nat]
          /\ k.scheduled \cup {p} \in SUBSET Process
        BY <1>1 DEF KeState, States, Priorities
    <2>2. n = [k EXCEPT !.state = [k.state EXCEPT ![p] = "ready"],
                        !.priority = [k.priority EXCEPT ![p] = prio],
                        !.scheduled = k.scheduled \cup {p}]
        BY <1>1 DEF NewProcess, KeState
    <2> HIDE DEF n
    <2> QED BY <1>1, <2>1, <2>2 DEF KeState
<1>3. /\ n.state = [k.state EXCEPT ![p] = "ready"]
      /\ n.priority = [k.priority EXCEPT ![p] = prio]
      /\ n.scheduled = k.scheduled \cup {p} /\ n.current = k.current
      /\ n.ready = k.ready /\ n.timer = k.timer /\ n.blocked = k.blocked
      /\ n.bugcheck = k.bugcheck /\ n.quantum = k.quantum
    BY <1>1 DEF NewProcess, KeState
<1> HIDE DEF n
<1>4. /\ \A x \in Process : n.state[x] = IF x = p THEN "ready" ELSE k.state[x]
      /\ \A x \in Process : n.priority[x] = IF x = p THEN prio ELSE k.priority[x]
    BY <1>1, <1>3 DEF KeState
<1>5. OnNoList(k, p)
    BY <1>1 DEF Consistent, ListsHoldAllBut, OnlyTheirsOnLists, OnNoList
<1>6. PICK off : off = {k.current, p}
    OBVIOUS
<1>7. Consistent(n, off)
    <2>1. OnlyTheirsOnLists(n)
        BY <1>1, <1>3, <1>4, <1>5 DEF Consistent, ListsHoldAllBut, OnlyTheirsOnLists, OnNoList
    <2>2. NoneTwiceOnLists(n)
        BY <1>1, <1>3 DEF Consistent, ListsHoldAllBut, NoneTwiceOnLists
    <2>3. ASSUME NEW x \in n.scheduled \ off PROVE OnItsList(n, x)
        <3>1. OnItsList(k, x) /\ x # p /\ x \in Process
            BY <1>1, <1>3, <1>6, <2>3 DEF Consistent, ListsHoldAllBut, KeState
        <3> QED BY <1>3, <1>4, <3>1 DEF OnItsList
    <2>4. \A x \in off : OnNoList(n, x)
        BY <1>1, <1>3, <1>5, <1>6 DEF Consistent, ListsHoldAllBut, OnNoList
    <2>5. \A x \in n.scheduled : n.priority[x] \in Priorities
        BY <1>1, <1>2, <1>3, <1>4 DEF Consistent, KeState
    <2>6. off \subseteq Process
        BY <1>1, <1>6 DEF KeState
    <2> QED BY <1>1, <1>2, <1>3, <2>1, <2>2, <2>3, <2>4, <2>5, <2>6 DEF Consistent, ListsHoldAllBut
<1>8. p \in off /\ p \in n.scheduled
    BY <1>3, <1>6
<1>9. NowReady(n, off, p, e)
    BY <1>7, <1>8, EnqueueConsistent
<1> HIDE DEF e
<1>10. off \ {p} = {k.current}
    BY <1>1, <1>6
<1>11. /\ Consistent(e, {e.current}) /\ e.current = k.current /\ e.scheduled = n.scheduled
       /\ e.quantum = k.quantum
       /\ e.state = [n.state EXCEPT ![p] = "ready"]
    <2>1. /\ Consistent(e, off \ {p}) /\ e.current = n.current /\ e.scheduled = n.scheduled
          /\ e.quantum = n.quantum /\ e.state = [n.state EXCEPT ![p] = "ready"]
        BY <1>9 DEF NowReady, SameButLists
    <2>2. e.current = k.current /\ e.quantum = k.quantum
        BY <1>3, <2>1
    <2>3. off \ {p} = {e.current}
        BY <1>10, <2>2
    <2> QED BY <2>1, <2>2, <2>3
<1>12. \A x \in Process : x # p => e.state[x] = k.state[x]
    BY <1>2, <1>4, <1>11 DEF KeState
<1>13. Running(e)
    <2>1. k.current \in Process /\ k.current # p /\ IdleAwake(k)
          /\ k.state[k.current] \in {"created", "running"}
        BY <1>1 DEF Running, KeState
    <2>2. IdleAwake(e)
        BY <1>3, <1>11, <1>12, <2>1, SchedulerAssumption DEF IdleAwake
    <2> QED BY <1>1, <1>3, <1>11, <1>12, <2>1, <2>2 DEF Running
<1>14. Inv(e)
    BY <1>11, <1>13, RunningInv
<1> QED BY <1>14 DEF KeStartSchedulingProcess, e, n

\* Giving the object of a process up once it is on no list.
LEMMA ReleaseConsistent ==
    ASSUME NEW k, NEW off, NEW p \in off, Consistent(k, off), p # k.current
    PROVE  LET r == [k EXCEPT !.scheduled = @ \ {p}]
           IN  /\ Consistent(r, off \ {p})
               /\ r.scheduled = k.scheduled \ {p} /\ r.current = k.current
               /\ r.state = k.state /\ r.quantum = k.quantum /\ r.bugcheck = k.bugcheck
<1> DEFINE r == [k EXCEPT !.scheduled = @ \ {p}]
<1>1. k \in KeState
    BY DEF Consistent
<1>2. r \in KeState
    BY <1>1 DEF KeState
<1>3. /\ r.scheduled = k.scheduled \ {p} /\ r.current = k.current
      /\ r.state = k.state /\ r.quantum = k.quantum /\ r.bugcheck = k.bugcheck
      /\ r.ready = k.ready /\ r.timer = k.timer /\ r.blocked = k.blocked /\ r.priority = k.priority
    BY <1>1 DEF KeState
<1> HIDE DEF r
<1>4. OnNoList(k, p)
    BY DEF Consistent, ListsHoldAllBut
<1>5. OnlyTheirsOnLists(r)
    BY <1>3, <1>4 DEF OnNoList, OnlyTheirsOnLists, Consistent, ListsHoldAllBut
<1>6. NoneTwiceOnLists(r)
    BY <1>3 DEF NoneTwiceOnLists, Consistent, ListsHoldAllBut
<1>7. ASSUME NEW x \in r.scheduled \ (off \ {p}) PROVE OnItsList(r, x)
    <2>1. OnItsList(k, x)
        BY <1>3, <1>7 DEF Consistent, ListsHoldAllBut
    <2> QED BY <1>3, <2>1 DEF OnItsList
<1>8. \A x \in off \ {p} : OnNoList(r, x)
    BY <1>3 DEF OnNoList, Consistent, ListsHoldAllBut
<1>9. Consistent(r, off \ {p})
    BY <1>2, <1>3, <1>5, <1>6, <1>7, <1>8 DEF Consistent, ListsHoldAllBut
<1> QED BY <1>3, <1>9 DEF r

LEMMA StopInv ==
    ASSUME NEW k, Running(k), k.quantum # 0, k.current # Idle, NEW p \in k.scheduled
    PROVE  Inv(KeStopSchedulingProcess(k, p))
<1> DEFINE u == Unlisted(k, p)
           r == [u EXCEPT !.scheduled = @ \ {p}]
           s == KeStopSchedulingProcess(k, p)
<1>1. /\ k \in KeState /\ Consistent(k, {k.current}) /\ k.current \in k.scheduled /\ ~k.bugcheck
      /\ IdleAwake(k) /\ p \in Process /\ k.state[k.current] \in {"created", "running"}
      /\ k.current \in Process
    BY DEF Running, Consistent, KeState
<1>2. CASE p = k.current
    <2> DEFINE b == [k EXCEPT !.state[p] = "blocked"]
               c == KepReschedule(b)
    <2>1. PICK off : off = {k.current}
        OBVIOUS
    <2>2. CASE k.state[p] = "running"
        <3>1. b \in KeState
            BY <1>1 DEF KeState, States
        <3>2. /\ b.state = [k.state EXCEPT ![p] = "blocked"]
              /\ b.scheduled = k.scheduled /\ b.current = k.current
              /\ b.ready = k.ready /\ b.timer = k.timer /\ b.blocked = k.blocked
              /\ b.bugcheck = k.bugcheck /\ b.priority = k.priority
            BY <1>1 DEF KeState
        <3> HIDE DEF b
        <3>3. \A x \in Process : x # p => b.state[x] = k.state[x]
            BY <1>1, <3>2 DEF KeState
        <3>4. Consistent(b, off)
            <4>1. OnNoList(k, p)
                BY <1>1, <1>2 DEF Consistent, ListsHoldAllBut
            <4>2. OnlyTheirsOnLists(b)
                BY <1>1, <3>2, <3>3, <4>1 DEF OnNoList, OnlyTheirsOnLists, Consistent, ListsHoldAllBut
            <4>3. NoneTwiceOnLists(b) /\ OnNoList(b, p)
                BY <1>1, <3>2, <4>1 DEF NoneTwiceOnLists, OnNoList, Consistent, ListsHoldAllBut
            <4>4. ASSUME NEW x \in b.scheduled \ off PROVE OnItsList(b, x)
                <5>1. OnItsList(k, x) /\ x # p /\ x \in Process
                    BY <1>1, <1>2, <2>1, <3>2, <4>4 DEF Consistent, ListsHoldAllBut, KeState
                <5> QED BY <3>2, <3>3, <5>1 DEF OnItsList
            <4> QED BY <1>1, <1>2, <2>1, <3>1, <3>2, <4>2, <4>3, <4>4 DEF Consistent, ListsHoldAllBut
        <3>5. IdleAwake(b) /\ b.state[b.current] = "blocked" /\ Idle \notin off
            BY <1>1, <1>2, <2>1, <3>2, <3>3, SchedulerAssumption DEF IdleAwake, KeState
        <3>6. /\ c \in KeState
              /\ c.scheduled = b.scheduled
              /\ c.bugcheck => Idle \notin c.scheduled
              /\ ~c.bugcheck =>
                   /\ Consistent(c, off \cup {c.current})
                   /\ c.current \in b.scheduled /\ c.current \notin off
                   /\ c.state[c.current] = "running"
                   /\ IdleAwake(c)
                   /\ c.quantum = QUANTUM
            BY <3>4, <3>5, RescheduleBlocked
        <3>7. u = c
            BY <2>2 DEF Unlisted, c, b
        <3> HIDE DEF c, u
        <3>8. CASE c.bugcheck
            BY <3>6, <3>7, <3>8 DEF KeStopSchedulingProcess, Inv, u
        <3>9. CASE ~c.bugcheck
            <4>1. PICK both : both = off \cup {c.current}
                OBVIOUS
            <4>2. Consistent(u, both) /\ p \in both /\ p # u.current
                BY <1>2, <2>1, <3>6, <3>7, <3>9, <4>1
            <4>3. /\ Consistent(r, both \ {p})
                  /\ r.scheduled = u.scheduled \ {p} /\ r.current = u.current
                  /\ r.state = u.state /\ r.quantum = u.quantum /\ r.bugcheck = u.bugcheck
                BY <4>2, ReleaseConsistent
            <4> HIDE DEF r
            <4>4. both \ {p} = {r.current}
                BY <1>2, <2>1, <3>6, <3>7, <3>9, <4>1, <4>3
            <4>5. Running(r) /\ r.quantum # 0
                BY <3>6, <3>7, <3>9, <4>2, <4>3, <4>4, SchedulerAssumption DEF Running, IdleAwake
            <4>6. s = r
                BY <3>7, <3>9 DEF KeStopSchedulingProcess, u, r
            <4> QED BY <4>5, <4>6, RunningInv
        <3> QED BY <3>8, <3>9
    <2>3. CASE k.state[p] # "running"
        <3>1. k.state[k.current] = "created"
            BY <1>1, <1>2, <2>3
        <3> QED BY <3>1 DEF Running
    <2> QED BY <2>2, <2>3
<1>3. CASE p # k.current
    <2>1. PICK off : off = {k.current}
        OBVIOUS
    <2>2. OnItsList(k, p) /\ p \notin off /\ Consistent(k, off)
        BY <1>1, <1>3, <2>1 DEF Consistent, ListsHoldAllBut
    <2>3. Unlinked(k, off, p, u)
        <3>1. CASE k.state[p] = "ready"
            <4>1. u = KepDequeueProcess(k, p)
                BY <3>1 DEF Unlisted
            <4> QED BY <2>2, <3>1, <4>1, DequeueReady
        <3>2. CASE k.state[p] = "blocked"
            <4>1. u = RemoveFromBlockedLists(k, p)
                BY <3>2 DEF Unlisted
            <4> QED BY <2>2, <3>2, <4>1, RemoveBlocked
        <3> QED BY <2>2, <3>1, <3>2 DEF OnItsList
    <2> HIDE DEF u
    <2>4. PICK both : both = off \cup {p}
        OBVIOUS
    <2>5. /\ Consistent(u, both) /\ p \in both /\ u.current = k.current /\ p # u.current
          /\ u.scheduled = k.scheduled /\ u.state = k.state /\ ~u.bugcheck /\ u.quantum = k.quantum
        BY <1>1, <1>3, <2>3, <2>4 DEF Unlinked, SameButLists
    <2>6. /\ Consistent(r, both \ {p})
          /\ r.scheduled = u.scheduled \ {p} /\ r.current = u.current
          /\ r.state = u.state /\ r.quantum = u.quantum
        BY <2>5, ReleaseConsistent
    <2> HIDE DEF r
    <2>7. both \ {p} = {r.current}
        BY <1>3, <2>1, <2>4, <2>5, <2>6
    <2>8. Running(r) /\ r.quantum # 0
        BY <1>1, <1>3, <2>5, <2>6, <2>7 DEF Running, IdleAwake
    <2>9. s = r
        BY <2>5 DEF KeStopSchedulingProcess, u, r
    <2> QED BY <2>8, <2>9, RunningInv
<1> QED BY <1>2, <1>3

\* m is k with the running process linked into one of the lists of blocked
\* processes.
Slept(k, m) ==
    /\ m \in KeState
    /\ m.state = [k.state EXCEPT ![k.current] = "blocked"]
    /\ m.current = k.current /\ m.scheduled = k.scheduled /\ m.ready = k.ready
    /\ m.priority = k.priority /\ m.bugcheck = k.bugcheck
    /\ IsInjective(m.timer) /\ IsInjective(m.blocked)
    /\ \A x : /\ Contains(m.timer, x) => Contains(k.timer, x) \/ x = k.current
              /\ Contains(k.timer, x) => Contains(m.timer, x)
              /\ Contains(m.blocked, x) => Contains(k.blocked, x) \/ x = k.current
              /\ Contains(k.blocked, x) => Contains(m.blocked, x)
    /\ Contains(m.timer, k.current) <=> ~Contains(m.blocked, k.current)

\* KeBlockProcess and KeSuspendProcess before they reschedule: every process
\* is on its list.
LEMMA SleptInv ==
    ASSUME NEW k, Running(k), k.current # Idle, NEW m, Slept(k, m)
    PROVE  Inv(KepReschedule(m))
<1>1. /\ k \in KeState /\ Consistent(k, {k.current}) /\ k.current \in k.scheduled /\ ~k.bugcheck
      /\ IdleAwake(k) /\ k.current \in Process
    BY DEF Running, Consistent, KeState
<1>2. OnNoList(k, k.current)
    BY <1>1 DEF Consistent, ListsHoldAllBut
<1>3. /\ m.state[k.current] = "blocked"
      /\ \A x \in Process : x # k.current => m.state[x] = k.state[x]
    BY <1>1 DEF Slept, KeState
<1>4. OnlyTheirsOnLists(m)
    BY <1>1, <1>2, <1>3 DEF Slept, OnNoList, OnlyTheirsOnLists, Consistent, ListsHoldAllBut
<1>5. NoneTwiceOnLists(m)
    BY <1>1, <1>2 DEF Slept, OnNoList, NoneTwiceOnLists, Consistent, ListsHoldAllBut
<1>6. ASSUME NEW x \in m.scheduled PROVE OnItsList(m, x)
    <2>1. x \in Process /\ x \in k.scheduled
        BY <1>1 DEF Slept, KeState
    <2>2. CASE x = k.current
        BY <1>3, <2>2 DEF Slept, OnItsList
    <2>3. CASE x # k.current
        <3>1. OnItsList(k, x) /\ m.state[x] = k.state[x]
            BY <1>1, <1>3, <2>1, <2>3 DEF Consistent, ListsHoldAllBut
        <3> QED BY <3>1 DEF Slept, OnItsList
    <2> QED BY <2>2, <2>3
<1>7. m \in KeState /\ ~m.bugcheck /\ \A x \in m.scheduled : m.priority[x] \in Priorities
    BY <1>1 DEF Slept, Consistent
<1>8. Consistent(m, {})
    BY <1>4, <1>5, <1>6, <1>7 DEF Consistent, ListsHoldAllBut
<1>9. m.state[m.current] = "blocked" /\ IdleAwake(m)
    BY <1>1, <1>3, SchedulerAssumption DEF Slept, IdleAwake
<1> QED BY <1>8, <1>9, RescheduleBlockedInv

LEMMA BlockInv ==
    ASSUME NEW k, Running(k), k.current # Idle
    PROVE  Inv(KeBlockProcess(k))
<1> DEFINE c == k.current
           B == <<c>> \o k.blocked
           m == [k EXCEPT !.state[c] = "blocked", !.method[c] = FALSE, !.blocked = B]
<1>1. k \in KeState /\ c \in Process /\ OnNoList(k, c) /\ NoneTwiceOnLists(k)
    BY DEF Running, Consistent, ListsHoldAllBut, KeState
<1>2. k.blocked \in Seq(Process) /\ IsInjective(k.blocked) /\ ~Contains(k.blocked, c)
    BY <1>1 DEF KeState, NoneTwiceOnLists, OnNoList
<1>3. B \in Seq(Process) /\ IsInjective(B) /\ \A x : Contains(B, x) <=> Contains(k.blocked, x) \/ x = c
    BY <1>1, <1>2, PrependFacts
<1> HIDE DEF B
<1>4. m \in KeState
    <2>1. /\ [k.state EXCEPT ![c] = "blocked"] \in [Process -> States]
          /\ [k.method EXCEPT ![c] = FALSE] \in [Process -> BOOLEAN]
        BY <1>1 DEF KeState, States
    <2> QED BY <1>1, <1>3, <2>1 DEF KeState
<1>5. /\ m.state = [k.state EXCEPT ![c] = "blocked"] /\ m.timer = k.timer /\ m.blocked = B
      /\ m.current = c /\ m.scheduled = k.scheduled /\ m.ready = k.ready
      /\ m.priority = k.priority /\ m.bugcheck = k.bugcheck
    BY <1>1 DEF KeState
<1>6. KeBlockProcess(k) = KepReschedule(m)
    BY DEF KeBlockProcess, B
<1> HIDE DEF m
<1>7. Slept(k, m)
    BY <1>1, <1>3, <1>4, <1>5 DEF Slept, OnNoList, NoneTwiceOnLists
<1> QED BY <1>6, <1>7, SleptInv

\* Where KeSuspendProcess links a sleeper: in front of a head that wakes later,
\* or behind entries that wake no later and in front of one that wakes no
\* earlier.
LEMMA TimerSlotFacts ==
    ASSUME NEW k \in KeState, NEW w \in Ulong
    PROVE  LET s == TimerSlot(k, w)
           IN  /\ s \in 1 .. Len(k.timer) + 1
               /\ s = 1 => k.timer = <<>> \/ k.wake[k.timer[1]] > w
               /\ s # 1 =>
                     /\ k.wake[k.timer[1]] <= w
                     /\ \A j \in 2 .. s - 1 : k.wake[k.timer[j]] < w
                     /\ s <= Len(k.timer) => k.wake[k.timer[s]] >= w
<1> DEFINE N == Len(k.timer)
           T(i) == /\ i <= N => k.wake[k.timer[i]] >= w
                   /\ \A j \in 2 .. i - 1 : k.wake[k.timer[j]] < w
           D == {i \in Nat : i >= 2 /\ (i > N \/ k.wake[k.timer[i]] >= w)}
           s == TimerSlot(k, w)
<1>1. N \in Nat /\ k.timer \in Seq(Process)
    BY DEF KeState
<1>2. \A i \in 1 .. N : k.wake[k.timer[i]] \in Nat
    BY <1>1 DEF KeState, Ulong
<1>3. w \in Nat
    BY DEF Ulong
<1>4. CASE k.timer = <<>> \/ k.wake[k.timer[1]] > w
    BY <1>1, <1>4 DEF TimerSlot
<1>5. CASE ~(k.timer = <<>> \/ k.wake[k.timer[1]] > w)
    <2>1. N >= 1
        BY <1>1, <1>5
    <2>2. N + 1 \in D
        BY <1>1, <2>1
    <2>3. PICK i \in D : \A n \in D : i <= n
        BY <2>2, LeastOfNat
    <2>4. i \in 2 .. N + 1
        BY <1>1, <2>2, <2>3
    <2>5. i <= N => k.wake[k.timer[i]] >= w
        BY <1>1, <2>3, <2>4
    <2>6. \A j \in 2 .. i - 1 : k.wake[k.timer[j]] < w
        <3> SUFFICES ASSUME NEW j \in 2 .. i - 1 PROVE k.wake[k.timer[j]] < w
            OBVIOUS
        <3>1. j \in Nat /\ j >= 2 /\ j < i /\ j \in 1 .. N /\ j \notin D
            BY <1>1, <2>3, <2>4
        <3> QED BY <1>2, <1>3, <3>1
    <2>7. \E n \in 2 .. N + 1 : T(n)
        BY <2>4, <2>5, <2>6
    <2>8. s = CHOOSE n \in 2 .. N + 1 : T(n)
        BY <1>5 DEF TimerSlot
    <2> HIDE DEF T, s
    <2>9. s \in 2 .. N + 1 /\ T(s)
        BY <2>7, <2>8
    <2>10. k.wake[k.timer[1]] <= w
        BY <1>2, <1>3, <1>5, <2>1
    <2> QED BY <1>1, <2>9, <2>10 DEF T, s
<1> QED BY <1>4, <1>5

LEMMA SuspendInv ==
    ASSUME NEW k, Running(k), k.current # Idle, NEW ms \in Ulong, NEW resume \in BOOLEAN
    PROVE  Inv(KeSuspendProcess(k, ms, resume))
<1> DEFINE c == k.current
           w == (k.ticks + ms) % ULONG_RANGE
           T == InsertAt(k.timer, TimerSlot(k, w), c)
           m == [k EXCEPT !.wake[c] = w, !.state[c] = "blocked", !.method[c] = resume, !.timer = T]
<1>1. k \in KeState /\ c \in Process /\ OnNoList(k, c) /\ NoneTwiceOnLists(k)
    BY DEF Running, Consistent, ListsHoldAllBut, KeState
<1>2. k.timer \in Seq(Process) /\ IsInjective(k.timer) /\ ~Contains(k.timer, c)
    BY <1>1 DEF KeState, NoneTwiceOnLists, OnNoList
<1>3. w \in Ulong
    <2>1. k.ticks + ms \in Nat /\ ULONG_RANGE \in Nat \ {0}
        BY <1>1, SchedulerAssumption DEF KeState, Ulong
    <2> QED BY <2>1 DEF Ulong
<1>4. KeSuspendProcess(k, ms, resume) = KepReschedule(m)
    BY DEF KeSuspendProcess
<1> HIDE DEF w
<1>5. TimerSlot(k, w) \in 1 .. Len(k.timer) + 1
    BY <1>1, <1>3, TimerSlotFacts
<1>6. T \in Seq(Process) /\ IsInjective(T) /\ \A x : Contains(T, x) <=> Contains(k.timer, x) \/ x = c
    BY <1>1, <1>2, <1>5, InsertAtFacts
<1> HIDE DEF T
<1>7. m \in KeState
    <2>1. /\ [k.state EXCEPT ![c] = "blocked"] \in [Process -> States]
          /\ [k.method EXCEPT ![c] = resume] \in [Process -> BOOLEAN]
          /\ [k.wake EXCEPT ![c] = w] \in [Process -> Ulong]
        BY <1>1, <1>3 DEF KeState, States
    <2> QED BY <1>1, <1>6, <2>1 DEF KeState
<1>8. /\ m.state = [k.state EXCEPT ![c] = "blocked"] /\ m.timer = T /\ m.blocked = k.blocked
      /\ m.current = c /\ m.scheduled = k.scheduled /\ m.ready = k.ready
      /\ m.priority = k.priority /\ m.bugcheck = k.bugcheck
    BY <1>1 DEF KeState
<1> HIDE DEF m
<1>9. Slept(k, m)
    BY <1>1, <1>6, <1>7, <1>8 DEF Slept, OnNoList, NoneTwiceOnLists
<1> QED BY <1>4, <1>9, SleptInv

LEMMA ChangePriorityInv ==
    ASSUME NEW k, Running(k), k.quantum # 0, NEW p \in k.scheduled, p # Idle,
           NEW prio \in Priorities
    PROVE  Inv(KeChangeProcessPriority(k, p, prio))
<1>1. /\ k \in KeState /\ Consistent(k, {k.current}) /\ k.current \in k.scheduled /\ ~k.bugcheck
      /\ p \in Process /\ k.current \in Process /\ IdleAwake(k) /\ prio \in Nat
    BY DEF Running, Consistent, KeState, Priorities
<1>2. CASE k.state[p] \in {"running", "blocked"}
    <2> DEFINE e == [k EXCEPT !.priority[p] = prio]
    <2>1. e \in KeState
        <3>1. [k.priority EXCEPT ![p] = prio] \in [Process -> Nat]
            BY <1>1 DEF KeState
        <3> QED BY <1>1, <3>1 DEF KeState
    <2>2. /\ e.priority = [k.priority EXCEPT ![p] = prio] /\ e.state = k.state
          /\ e.current = k.current /\ e.scheduled = k.scheduled /\ e.ready = k.ready
          /\ e.timer = k.timer /\ e.blocked = k.blocked /\ e.bugcheck = k.bugcheck
          /\ e.quantum = k.quantum
        BY <1>1 DEF KeState
    <2>3. KeChangeProcessPriority(k, p, prio) = e
        BY <1>2 DEF KeChangeProcessPriority
    <2> HIDE DEF e
    <2>4. \A x \in Process : e.priority[x] = IF x = p THEN prio ELSE k.priority[x]
        BY <1>1, <2>2 DEF KeState
    <2>5. OnlyTheirsOnLists(e)
        BY <1>1, <1>2, <2>2, <2>4 DEF OnlyTheirsOnLists, Consistent, ListsHoldAllBut
    <2>6. NoneTwiceOnLists(e)
        BY <1>1, <2>2 DEF NoneTwiceOnLists, Consistent, ListsHoldAllBut
    <2>7. ASSUME NEW x \in e.scheduled \ {e.current} PROVE OnItsList(e, x)
        <3>1. OnItsList(k, x) /\ x \in Process
            BY <1>1, <2>2, <2>7 DEF Consistent, ListsHoldAllBut, KeState
        <3>2. CASE x = p
            <4>1. k.state[x] = "blocked"
                BY <1>2, <3>1, <3>2 DEF OnItsList
            <4> QED BY <2>2, <3>1, <4>1 DEF OnItsList
        <3>3. CASE x # p
            BY <2>2, <2>4, <3>1, <3>3 DEF OnItsList
        <3> QED BY <3>2, <3>3
    <2>8. OnNoList(e, e.current)
        BY <1>1, <2>2 DEF OnNoList, Consistent, ListsHoldAllBut
    <2>9. \A x \in e.scheduled : e.priority[x] \in Priorities
        BY <1>1, <2>2, <2>4 DEF Consistent, KeState
    <2>10. Consistent(e, {e.current})
        BY <1>1, <2>1, <2>2, <2>5, <2>6, <2>7, <2>8, <2>9 DEF Consistent, ListsHoldAllBut
    <2>11. Running(e) /\ e.quantum # 0
        BY <2>2, <2>10 DEF Running, IdleAwake
    <2> QED BY <2>3, <2>11, RunningInv
<1>3. CASE k.state[p] = "ready"
    <2> DEFINE d == KepDequeueProcess(k, p)
               m == [d EXCEPT !.priority[p] = prio]
               e == KepEnqueueProcess(m, p)
    <2>1. PICK off : off = {k.current}
        OBVIOUS
    <2>2. p # k.current /\ Consistent(k, off) /\ p \notin off
        BY <1>1, <1>3, <2>1 DEF Running
    <2>3. Unlinked(k, off, p, d)
        BY <1>3, <2>2, DequeueReady
    <2> HIDE DEF d
    <2>4. PICK both : both = off \cup {p}
        OBVIOUS
    <2>5. /\ Consistent(d, both) /\ d.current = k.current /\ d.scheduled = k.scheduled
          /\ d.state = k.state /\ d.quantum = k.quantum /\ ~d.bugcheck /\ d \in KeState
        BY <1>1, <2>3, <2>4 DEF Unlinked, SameButLists, Consistent
    <2>6. m \in KeState
        <3>1. [d.priority EXCEPT ![p] = prio] \in [Process -> Nat]
            BY <1>1, <2>5 DEF KeState
        <3> QED BY <2>5, <3>1 DEF KeState
    <2>7. /\ m.priority = [d.priority EXCEPT ![p] = prio] /\ m.state = d.state
          /\ m.current = d.current /\ m.scheduled = d.scheduled /\ m.ready = d.ready
          /\ m.timer = d.timer /\ m.blocked = d.blocked /\ m.bugcheck = d.bugcheck
          /\ m.quantum = d.quantum
        BY <2>5 DEF KeState
    <2> HIDE DEF m
    <2>8. \A x \in Process : m.priority[x] = IF x = p THEN prio ELSE d.priority[x]
        BY <2>5, <2>7 DEF KeState
    <2>9. Consistent(m, both)
        <3>1. OnNoList(d, p)
            BY <2>4, <2>5 DEF Consistent, ListsHoldAllBut
        <3>2. OnlyTheirsOnLists(m)
            BY <2>5, <2>7, <2>8, <3>1 DEF OnNoList, OnlyTheirsOnLists, Consistent, ListsHoldAllBut
        <3>3. NoneTwiceOnLists(m)
            BY <2>5, <2>7 DEF NoneTwiceOnLists, Consistent, ListsHoldAllBut
        <3>4. ASSUME NEW x \in m.scheduled \ both PROVE OnItsList(m, x)
            <4>1. OnItsList(d, x) /\ x \in Process /\ x # p
                BY <2>4, <2>5, <2>7, <3>4 DEF Consistent, ListsHoldAllBut, KeState
            <4> QED BY <2>7, <2>8, <4>1 DEF OnItsList
        <3>5. \A x \in both : OnNoList(m, x)
            BY <2>5, <2>7 DEF OnNoList, Consistent, ListsHoldAllBut
        <3>6. \A x \in m.scheduled : m.priority[x] \in Priorities
            BY <2>5, <2>7, <2>8 DEF Consistent, KeState
        <3> QED BY <2>5, <2>6, <2>7, <3>2, <3>3, <3>4, <3>5, <3>6 DEF Consistent, ListsHoldAllBut
    <2>10. NowReady(m, both, p, e)
        <3>1. p \in both /\ p \in m.scheduled
            BY <2>4, <2>5, <2>7
        <3> QED BY <2>9, <3>1, EnqueueConsistent
    <2> HIDE DEF e
    <2>11. both \ {p} = {k.current}
        BY <2>1, <2>2, <2>4
    <2>12. /\ Consistent(e, {k.current}) /\ e.current = k.current /\ e.scheduled = k.scheduled
           /\ e.quantum = k.quantum /\ e.state = [k.state EXCEPT ![p] = "ready"]
        <3>1. /\ Consistent(e, both \ {p}) /\ e.current = m.current /\ e.scheduled = m.scheduled
              /\ e.quantum = m.quantum /\ e.state = [m.state EXCEPT ![p] = "ready"]
            BY <2>10 DEF NowReady, SameButLists
        <3> QED BY <2>5, <2>7, <2>11, <3>1
    <2>13. e.state[k.current] = k.state[k.current] /\ IdleAwake(e)
        BY <1>1, <2>2, <2>12, SchedulerAssumption DEF IdleAwake, KeState
    <2>14. Running(e) /\ e.quantum # 0
        BY <1>1, <2>12, <2>13 DEF Running
    <2>15. KeChangeProcessPriority(k, p, prio) = e
        BY <1>3, <2>5 DEF KeChangeProcessPriority, d, m, e
    <2> QED BY <2>14, <2>15, RunningInv
<1>4. CASE k.state[p] = "created"
    <2>1. CASE p = k.current
        BY <1>4, <2>1 DEF Running
    <2>2. CASE p # k.current
        <3>1. OnItsList(k, p)
            BY <1>1, <2>2 DEF Consistent, ListsHoldAllBut
        <3> QED BY <1>4, <3>1 DEF OnItsList
    <2> QED BY <2>1, <2>2
<1>5. k.state[p] \in States
    BY <1>1 DEF KeState
<1> QED BY <1>2, <1>3, <1>4, <1>5 DEF States

LEMMA ResumeInv ==
    ASSUME NEW k, Running(k), k.quantum # 0, NEW p \in k.scheduled, k.state[p] = "blocked"
    PROVE  Inv(KeResumeProcess(k, p))
<1> DEFINE r == KeResumeProcess(k, p)
<1>1. Running(r) /\ r.quantum \in {k.quantum, QUANTUM}
    BY ResumeRunning
<1> HIDE DEF r
<1>2. r.quantum # 0
    BY <1>1, SchedulerAssumption
<1> QED BY <1>1, <1>2, RunningInv DEF r

\* The tick itself: nothing but the counters changes before the sleepers are
\* woken.
LEMMA TickRunning ==
    ASSUME NEW k, Running(k), k.quantum # 0
    PROVE  LET t == [k EXCEPT !.ticks = (@ + TICK) % ULONG_RANGE, !.quantum = @ - 1]
           IN  Running(t) /\ t.quantum = k.quantum - 1
<1> DEFINE T == (k.ticks + TICK) % ULONG_RANGE
           t == [k EXCEPT !.ticks = T, !.quantum = k.quantum - 1]
<1>1. k \in KeState /\ Consistent(k, {k.current})
    BY DEF Running, Consistent
<1>2. T \in Ulong
    <2>1. k.ticks + TICK \in Nat /\ ULONG_RANGE \in Nat \ {0}
        BY <1>1, SchedulerAssumption DEF KeState, Ulong
    <2> QED BY <2>1 DEF Ulong
<1> HIDE DEF T
<1>3. k.quantum - 1 \in 0 .. QUANTUM
    BY <1>1, SchedulerAssumption DEF KeState
<1>4. t \in KeState
    BY <1>1, <1>2, <1>3 DEF KeState
<1>5. /\ t.quantum = k.quantum - 1 /\ t.priority = k.priority /\ t.state = k.state
      /\ t.current = k.current /\ t.scheduled = k.scheduled /\ t.ready = k.ready
      /\ t.timer = k.timer /\ t.blocked = k.blocked /\ t.bugcheck = k.bugcheck
    BY <1>1 DEF KeState
<1> HIDE DEF t
<1>6. OnlyTheirsOnLists(t) /\ NoneTwiceOnLists(t)
    BY <1>1, <1>5 DEF OnlyTheirsOnLists, NoneTwiceOnLists, Consistent, ListsHoldAllBut
<1>7. \A x \in t.scheduled \ {t.current} : OnItsList(t, x)
    BY <1>1, <1>5 DEF OnItsList, Consistent, ListsHoldAllBut
<1>8. OnNoList(t, t.current)
    BY <1>1, <1>5 DEF OnNoList, Consistent, ListsHoldAllBut
<1>9. Consistent(t, {t.current})
    BY <1>1, <1>4, <1>5, <1>6, <1>7, <1>8 DEF Consistent, ListsHoldAllBut
<1>10. Running(t)
    BY <1>5, <1>9 DEF Running, IdleAwake
<1> QED BY <1>5, <1>10 DEF t, T

LEMMA TimerInv ==
    ASSUME NEW k, Running(k), k.quantum # 0
    PROVE  Inv(KeHandleTimer(k))
<1> DEFINE t == [k EXCEPT !.ticks = (@ + TICK) % ULONG_RANGE, !.quantum = @ - 1]
           w == KepWakeUpSleepers(t)
<1>1. Running(t)
    BY TickRunning
<1> HIDE DEF t
<1>2. w \in LoopStates(t)
    BY <1>1, WakeUpRunning
<1> HIDE DEF w
<1>3. Running(w)
    BY <1>2 DEF LoopStates
<1>4. /\ Consistent(w, {w.current}) /\ w.current \in w.scheduled /\ IdleAwake(w)
      /\ w.state[w.current] # "blocked" /\ ~w.bugcheck
    BY <1>3 DEF Running, Consistent
<1>5. CASE w.quantum # 0
    <2>1. KeHandleTimer(k) = w
        BY <1>4, <1>5 DEF KeHandleTimer, w, t
    <2> QED BY <1>3, <1>5, <2>1, RunningInv
<1>6. CASE w.quantum = 0
    <2>1. KeHandleTimer(k) = KepReschedule(w)
        BY <1>4, <1>6 DEF KeHandleTimer, w, t
    <2>2. Running(KepReschedule(w)) /\ KepReschedule(w).quantum = QUANTUM
        BY <1>4, RescheduleAwake
    <2>3. KepReschedule(w).quantum # 0
        BY <2>2, SchedulerAssumption
    <2> QED BY <2>1, <2>2, <2>3, RunningInv
<1> QED BY <1>5, <1>6
-----------------------------------------------------------------------------
\* Every step of the scheduler keeps the invariant: one case per call.
LEMMA NextInv ==
    ASSUME Inv(ke), [Next]_ke
    PROVE  Inv(ke')
<1>1. ASSUME ~ke.bugcheck PROVE Running(ke) /\ ke.quantum # 0
    BY <1>1 DEF Inv
<1>2. ASSUME NEW p \in Process, NEW prio \in Priorities, StartProcess(p, prio)
      PROVE  Inv(ke')
    BY <1>1, <1>2, StartInv DEF StartProcess
<1>3. ASSUME NEW p \in Process, StopProcess(p) PROVE Inv(ke')
    BY <1>1, <1>3, StopInv DEF StopProcess
<1>4. ASSUME BlockProcess PROVE Inv(ke')
    BY <1>1, <1>4, BlockInv DEF BlockProcess
<1>5. ASSUME NEW p \in Process, ResumeProcess(p) PROVE Inv(ke')
    BY <1>1, <1>5, ResumeInv DEF ResumeProcess
<1>6. ASSUME NEW p \in Process, NEW prio \in NewPriorities, ChangeProcessPriority(p, prio)
      PROVE  Inv(ke')
    BY <1>1, <1>6, ChangePriorityInv, SchedulerAssumption DEF ChangeProcessPriority
<1>7. ASSUME NEW ms \in Sleeps, NEW resume \in BOOLEAN, SuspendProcess(ms, resume)
      PROVE  Inv(ke')
    <2>1. ms \in Ulong
        BY SchedulerAssumption
    <2> QED BY <1>1, <1>7, <2>1, SuspendInv DEF SuspendProcess
<1>8. ASSUME HandleTimer PROVE Inv(ke')
    BY <1>1, <1>8, TimerInv DEF HandleTimer
<1>9. ASSUME UNCHANGED ke PROVE Inv(ke')
    BY <1>9
<1> QED BY <1>2, <1>3, <1>4, <1>5, <1>6, <1>7, <1>8, <1>9 DEF Next, Spin

IInv == Inv(ke)

\* The invariant holds in every state the scheduler can reach.
THEOREM InvAlways == Spec => []IInv
<1>1. Init => IInv
    BY InitInv DEF Init, IInv
<1>2. IInv /\ [Next]_ke => IInv'
    BY NextInv DEF IInv
<1> QED BY <1>1, <1>2, PTL DEF Spec

\* Type correctness, and that a tick always finds the running process with
\* quantum left (the ASSERT of KeHandleTimer cannot fail).
THEOREM TypesCorrect == Spec => []TypeOK
<1>1. IInv => TypeOK
    BY DEF IInv, Inv, TypeOK
<1> QED BY <1>1, InvAlways, PTL

\* No sequence of calls and ticks loses a process from the lists of
\* scheduler.c or links one twice.
THEOREM ListsAlwaysConsistent == Spec => []EveryProcessOnItsList
<1>1. IInv => EveryProcessOnItsList
    BY DEF IInv, Inv, Running, Consistent, EveryProcessOnItsList
<1> QED BY <1>1, InvAlways, PTL

\* The scheduler calls KeBugCheck, itself or through an ASSERT, only once
\* process 0 is gone.
THEOREM HaltsOnlyWithoutProcessZero == Spec => []OnlyLossOfProcessZeroHalts
<1>1. IInv => OnlyLossOfProcessZeroHalts
    BY DEF IInv, Inv, OnlyLossOfProcessZeroHalts
<1> QED BY <1>1, InvAlways, PTL
-----------------------------------------------------------------------------
\* What the modules on top of the scheduler need of each call: that it does not
\* halt the machine, and which processes it takes off the blocked list.  A
\* process that was killed is not "running": the State of a PCB outlives it.
DeadDoNotRun(k) == \A p \in Process \ k.scheduled : k.state[p] # "running"

\* Process 0 lives, and the lists are consistent.
Alive(k) ==
    /\ Running(k)
    /\ Idle \in k.scheduled
    /\ DeadDoNotRun(k)

Healthy(k) == Alive(k) /\ k.quantum # 0

\* The current process alone may have become "running".
NoNewRunner(k, r) ==
    \A x \in Process : r.state[x] = "running" => x = r.current \/ k.state[x] = "running"

LEMMA AliveFacts ==
    ASSUME NEW k, Alive(k)
    PROVE  /\ k \in KeState /\ ~k.bugcheck
           /\ k.current \in Process /\ k.current \in k.scheduled
           /\ k.scheduled \subseteq Process
           /\ ~Contains(k.blocked, k.current)
           /\ \A p : Contains(k.blocked, p) \/ Contains(k.timer, p) =>
                 p \in Process /\ p \in k.scheduled /\ k.state[p] = "blocked"
           /\ \A p : ~(Contains(k.blocked, p) /\ Contains(k.timer, p))
           /\ k.blocked \in Seq(Process) /\ IsInjective(k.blocked)
<1>1. k \in KeState /\ ~k.bugcheck /\ k.current \in k.scheduled
    BY DEF Healthy, Alive, Running, Consistent
<1>2. /\ k.blocked \in Seq(Process) /\ k.timer \in Seq(Process) /\ k.current \in Process
      /\ k.scheduled \subseteq Process
    BY <1>1 DEF KeState
<1>3. \A p : Contains(k.blocked, p) \/ Contains(k.timer, p) => p \in Process
    BY <1>2 DEF Contains
<1>4. OnlyTheirsOnLists(k) /\ NoneTwiceOnLists(k) /\ OnNoList(k, k.current)
    BY DEF Healthy, Alive, Running, Consistent, ListsHoldAllBut
<1> QED BY <1>1, <1>2, <1>3, <1>4 DEF OnlyTheirsOnLists, NoneTwiceOnLists, OnNoList

LEMMA StillAlive ==
    ASSUME NEW k, Alive(k), NEW r, Running(r), NoNewRunner(k, r), Idle \in r.scheduled,
           \A x \in Process : x \in k.scheduled /\ x \notin r.scheduled => r.state[x] # "running"
    PROVE  Alive(r)
<1>1. r.current \in r.scheduled
    BY DEF Running
<1>2. ASSUME NEW x \in Process \ r.scheduled PROVE r.state[x] # "running"
    BY <1>1, <1>2 DEF NoNewRunner, Alive, DeadDoNotRun
<1> QED BY <1>2 DEF Alive, DeadDoNotRun

LEMMA StillHealthy ==
    ASSUME NEW k, Healthy(k), NEW r, Inv(r), NoNewRunner(k, r), Idle \in r.scheduled,
           \A x \in Process : x \in k.scheduled /\ x \notin r.scheduled => r.state[x] # "running"
    PROVE  Healthy(r) /\ ~r.bugcheck
<1>1. ~r.bugcheck /\ Running(r) /\ r.quantum # 0
    BY DEF Inv
<1>2. Alive(k)
    BY DEF Healthy
<1>3. Alive(r)
    BY <1>1, <1>2, StillAlive
<1> QED BY <1>1, <1>3 DEF Healthy

LEMMA RescheduleRunner ==
    ASSUME NEW k \in KeState, ~KepReschedule(k).bugcheck
    PROVE  NoNewRunner(k, KepReschedule(k))
<1> DEFINE C   == Candidates(k)
           top == Highest(C)
           q   == IF k.state[k.current] = "blocked"
                  THEN k ELSE KepEnqueueProcess(k, k.current)
           d   == Dispatch(k)
           r   == KepReschedule(k)
<1>1. k.current \in Process
    BY DEF KeState
<1>2. q \in KeState /\ \A p \in Priorities : k.ready[p] # <<>> => q.ready[p] # <<>>
    BY <1>1, EnqueueSameWaiters
<1>3. \A x \in Process : q.state[x] = "running" => k.state[x] = "running"
    <2>1. CASE q = k
        BY <2>1
    <2>2. CASE q = KepEnqueueProcess(k, k.current) /\ k.priority[k.current] \in Priorities
        <3>1. q.state = [k.state EXCEPT ![k.current] = "ready"]
            BY <2>2 DEF KepEnqueueProcess, KeState
        <3> HIDE DEF q
        <3> QED BY <1>1, <3>1 DEF KeState
    <2>3. CASE q = KepEnqueueProcess(k, k.current) /\ k.priority[k.current] \notin Priorities
        <3>1. q.state = k.state
            BY <2>3 DEF KepEnqueueProcess, KeBugCheck, KeState
        <3> QED BY <3>1
    <2> QED BY <2>1, <2>2, <2>3
<1>4. C # {} => top \in Priorities /\ k.ready[top] # <<>>
    BY HighestCandidate DEF Candidates
<1>5. d = IF C = {} THEN k ELSE IF q.bugcheck THEN q ELSE DispatchFrom(q, top)
    BY DEF Dispatch
<1> HIDE DEF C, top, q, d
<1>6. d \in KeState /\ \A x \in Process : d.state[x] = "running" => k.state[x] = "running"
    <2>1. CASE C = {}
        BY <1>5, <2>1
    <2>2. CASE C # {} /\ q.bugcheck
        BY <1>2, <1>3, <1>5, <2>2
    <2>3. CASE C # {} /\ ~q.bugcheck
        <3>1. d = DispatchFrom(q, top) /\ d \in KeState
            BY <1>2, <1>4, <1>5, <2>3, DispatchSameWaiters
        <3>2. d.state = q.state
            BY <1>2, <3>1 DEF DispatchFrom, KeState
        <3> QED BY <1>3, <3>1, <3>2
    <2> QED BY <2>1, <2>2, <2>3
<1>7. KeBugCheck(d).bugcheck
    BY <1>6 DEF KeBugCheck, KeState
<1>8. r = d \/ r = SetRunning(d)
    BY <1>7 DEF KepReschedule, d
<1>9. CASE r = d
    BY <1>6, <1>9 DEF NoNewRunner
<1>10. CASE r = SetRunning(d)
    <2>1. r.current = d.current /\ r.state = [d.state EXCEPT ![d.current] = "running"]
        BY <1>6, <1>10 DEF SetRunning, KeState
    <2> HIDE DEF r
    <2>2. \A x \in Process : x # d.current => r.state[x] = d.state[x]
        BY <1>6, <2>1 DEF KeState
    <2>3. NoNewRunner(k, r)
        BY <1>6, <2>1, <2>2 DEF NoNewRunner
    <2> QED BY <2>3 DEF r
<1> QED BY <1>8, <1>9, <1>10

LEMMA StartHealthy ==
    ASSUME NEW k, Healthy(k), NEW p \in Process, NEW prio \in Priorities,
           p \notin k.scheduled
    PROVE  LET r == KeStartSchedulingProcess(NewProcess(k, p, prio), p)
           IN  /\ Healthy(r) /\ ~r.bugcheck
               /\ r.scheduled = k.scheduled \cup {p}
               /\ r.blocked = k.blocked
<1> DEFINE n == [NewProcess(k, p, prio) EXCEPT !.scheduled = @ \cup {p}]
           r == KeStartSchedulingProcess(NewProcess(k, p, prio), p)
<1>1. k \in KeState
    BY AliveFacts DEF Healthy
<1>2. Inv(r)
    BY StartInv DEF Healthy, Alive
<1>3. n \in KeState /\ n.state = [k.state EXCEPT ![p] = "ready"] /\ n.priority[p] = prio
    <2>1. /\ [k.state EXCEPT ![p] = "ready"] \in [Process -> States]
          /\ [k.priority EXCEPT ![p] = prio] \in [Process -> Nat]
          /\ [k.priority EXCEPT ![p] = prio][p] = prio
          /\ k.scheduled \cup {p} \in SUBSET Process
        BY <1>1 DEF KeState, States, Priorities
    <2>2. n = [k EXCEPT !.state = [k.state EXCEPT ![p] = "ready"],
                        !.priority = [k.priority EXCEPT ![p] = prio],
                        !.scheduled = k.scheduled \cup {p}]
        BY <1>1 DEF NewProcess, KeState
    <2> HIDE DEF n
    <2> QED BY <1>1, <2>1, <2>2 DEF KeState
<1>4. n.scheduled = k.scheduled \cup {p} /\ n.blocked = k.blocked
    BY <1>1 DEF NewProcess, KeState
<1>5. r = KepEnqueueProcess(n, p)
    BY DEF KeStartSchedulingProcess
<1> HIDE DEF n, r
<1>6. SameWaiters(n, r)
    BY <1>3, <1>5, EnqueueSameWaiters
<1>7. r.blocked = k.blocked /\ r.scheduled = k.scheduled \cup {p}
    BY <1>4, <1>6 DEF SameWaiters
<1>8. r.state = [n.state EXCEPT ![p] = "ready"]
    BY <1>3, <1>5 DEF KepEnqueueProcess, KeState
<1>9. NoNewRunner(k, r)
    BY <1>1, <1>3, <1>8 DEF NoNewRunner, KeState
<1>10. Idle \in r.scheduled /\ k.scheduled \subseteq r.scheduled
    BY <1>7 DEF Healthy, Alive
<1>11. Healthy(r) /\ ~r.bugcheck
    BY <1>2, <1>9, <1>10, StillHealthy
<1> QED BY <1>7, <1>11 DEF r

\* A priority there is no queue for.
LEMMA StartHalts ==
    ASSUME NEW k \in KeState, NEW p \in Process, NEW prio \in Nat, prio \notin Priorities
    PROVE  LET r == KeStartSchedulingProcess(NewProcess(k, p, prio), p)
           IN  /\ r \in KeState /\ r.bugcheck
               /\ r.scheduled = k.scheduled \cup {p}
               /\ r.blocked = k.blocked
               /\ \A x \in Process \ {p} : r.state[x] = k.state[x]
<1> DEFINE n == [NewProcess(k, p, prio) EXCEPT !.scheduled = @ \cup {p}]
           r == KeStartSchedulingProcess(NewProcess(k, p, prio), p)
<1>1. n \in KeState /\ n.priority[p] = prio
    <2>1. /\ [k.state EXCEPT ![p] = "ready"] \in [Process -> States]
          /\ [k.priority EXCEPT ![p] = prio] \in [Process -> Nat]
          /\ [k.priority EXCEPT ![p] = prio][p] = prio
          /\ k.scheduled \cup {p} \in SUBSET Process
        BY DEF KeState, States
    <2>2. n = [k EXCEPT !.state = [k.state EXCEPT ![p] = "ready"],
                        !.priority = [k.priority EXCEPT ![p] = prio],
                        !.scheduled = k.scheduled \cup {p}]
        BY DEF NewProcess, KeState
    <2> HIDE DEF n
    <2> QED BY <2>1, <2>2 DEF KeState
<1>2. /\ n.scheduled = k.scheduled \cup {p} /\ n.blocked = k.blocked
      /\ \A x \in Process \ {p} : n.state[x] = k.state[x]
    BY DEF NewProcess, KeState
<1>3. r = KeBugCheck(n)
    BY <1>1 DEF KeStartSchedulingProcess, KepEnqueueProcess
<1> HIDE DEF n, r
<1>4. /\ r \in KeState /\ r.bugcheck /\ r.scheduled = n.scheduled /\ r.blocked = n.blocked
      /\ r.state = n.state
    BY <1>1, <1>3 DEF KeBugCheck, KeState
<1> QED BY <1>2, <1>4 DEF r

LEMMA BlockHealthy ==
    ASSUME NEW k, Healthy(k), k.current # Idle
    PROVE  LET r == KeBlockProcess(k)
           IN  /\ Healthy(r) /\ ~r.bugcheck
               /\ r.scheduled = k.scheduled
               /\ \A x : Contains(r.blocked, x) <=> Contains(k.blocked, x) \/ x = k.current
<1> DEFINE c == k.current
           B == <<c>> \o k.blocked
           m == [k EXCEPT !.state[c] = "blocked", !.method[c] = FALSE, !.blocked = B]
           r == KeBlockProcess(k)
<1>1. k \in KeState /\ c \in Process /\ k.blocked \in Seq(Process) /\ ~Contains(k.blocked, c)
      /\ IsInjective(k.blocked)
    BY AliveFacts DEF Healthy
<1>2. B \in Seq(Process) /\ \A x : Contains(B, x) <=> Contains(k.blocked, x) \/ x = c
    BY <1>1, PrependFacts
<1>3. r = KepReschedule(m)
    BY DEF KeBlockProcess
<1> HIDE DEF B
<1>4. m \in KeState /\ m.blocked = B /\ m.scheduled = k.scheduled
      /\ m.state = [k.state EXCEPT ![c] = "blocked"]
    BY <1>1, <1>2 DEF KeState, States
<1>5. Inv(r)
    BY BlockInv DEF Healthy, Alive
<1> HIDE DEF m, r
<1>6. SameWaiters(m, r)
    BY <1>3, <1>4, RescheduleSameWaiters
<1>7. r.blocked = B /\ r.scheduled = k.scheduled /\ Idle \in r.scheduled
    BY <1>4, <1>6 DEF SameWaiters, Healthy, Alive
<1>8. NoNewRunner(m, r)
    BY <1>3, <1>4, <1>5, <1>7, RescheduleRunner DEF Inv
<1>9. NoNewRunner(k, r)
    BY <1>1, <1>4, <1>8 DEF NoNewRunner, KeState
<1>10. Healthy(r) /\ ~r.bugcheck
    BY <1>5, <1>7, <1>9, StillHealthy
<1> QED BY <1>2, <1>7, <1>10 DEF r

LEMMA SuspendHealthy ==
    ASSUME NEW k, Healthy(k), k.current # Idle, NEW ms \in Ulong, NEW resume \in BOOLEAN
    PROVE  LET r == KeSuspendProcess(k, ms, resume)
           IN  /\ Healthy(r) /\ ~r.bugcheck
               /\ r.scheduled = k.scheduled
               /\ r.blocked = k.blocked
<1> DEFINE c == k.current
           w == (k.ticks + ms) % ULONG_RANGE
           T == InsertAt(k.timer, TimerSlot(k, w), c)
           m == [k EXCEPT !.wake[c] = w, !.state[c] = "blocked", !.method[c] = resume, !.timer = T]
           r == KeSuspendProcess(k, ms, resume)
<1>1. k \in KeState /\ c \in Process /\ k.timer \in Seq(Process) /\ k.ticks \in Ulong
    BY AliveFacts DEF Healthy, KeState
<1>2. w \in Ulong
    BY <1>1, SchedulerAssumption DEF Ulong
<1>3. r = KepReschedule(m)
    BY DEF KeSuspendProcess
<1> HIDE DEF w
<1>4. TimerSlot(k, w) \in 1 .. Len(k.timer) + 1
    BY <1>1, <1>2, TimerSlotFacts
<1>5. T \in Seq(Process)
    BY <1>1, <1>4, InsertAtElements
<1> HIDE DEF T
<1>6. m \in KeState /\ m.blocked = k.blocked /\ m.scheduled = k.scheduled
      /\ m.state = [k.state EXCEPT ![c] = "blocked"]
    BY <1>1, <1>2, <1>5 DEF KeState, States
<1>7. Inv(r)
    BY SuspendInv DEF Healthy, Alive
<1> HIDE DEF m, r
<1>8. SameWaiters(m, r)
    BY <1>3, <1>6, RescheduleSameWaiters
<1>9. r.blocked = k.blocked /\ r.scheduled = k.scheduled /\ Idle \in r.scheduled
    BY <1>6, <1>8 DEF SameWaiters, Healthy, Alive
<1>10. NoNewRunner(m, r)
    BY <1>3, <1>6, <1>7, <1>9, RescheduleRunner DEF Inv
<1>11. NoNewRunner(k, r)
    BY <1>1, <1>6, <1>10 DEF NoNewRunner, KeState
<1>12. Healthy(r) /\ ~r.bugcheck
    BY <1>7, <1>9, <1>11, StillHealthy
<1> QED BY <1>9, <1>12 DEF r

\* A process leaves the lists of blocked processes.
LEMMA OffLists ==
    ASSUME NEW k, Alive(k), NEW p \in Process, p \in k.scheduled, k.state[p] = "blocked"
    PROVE  LET u == RemoveFromBlockedLists(k, p)
           IN  /\ u \in KeState /\ u.scheduled = k.scheduled /\ ~u.bugcheck
               /\ u.state = k.state /\ u.current = k.current
               /\ \A x : Contains(u.blocked, x) <=> Contains(k.blocked, x) /\ x # p
<1> DEFINE L == RemoveAt(k.blocked, Position(k.blocked, p))
           T == RemoveAt(k.timer, Position(k.timer, p))
           u == RemoveFromBlockedLists(k, p)
<1>1. /\ k \in KeState /\ ~k.bugcheck
      /\ k.blocked \in Seq(Process) /\ IsInjective(k.blocked)
      /\ k.timer \in Seq(Process) /\ IsInjective(k.timer)
    BY DEF Healthy, Alive, KeState, Running, Consistent, ListsHoldAllBut, NoneTwiceOnLists
<1>2. 0 \in Ulong
    BY SchedulerAssumption DEF Ulong
<1>3. CASE Contains(k.timer, p)
    <2>1. T \in Seq(Process)
        BY <1>1, <1>3, UnlinkFacts
    <2>2. ~Contains(k.blocked, p)
        BY <1>3, AliveFacts DEF Healthy
    <2>3. u = [k EXCEPT !.wake[p] = 0, !.method[p] = FALSE, !.timer = T]
        BY <1>1, <1>3 DEF RemoveFromBlockedLists, KeState
    <2> HIDE DEF T, u
    <2>4. u \in KeState
        BY <1>1, <1>2, <2>1, <2>3 DEF KeState
    <2>5. /\ u.scheduled = k.scheduled /\ u.blocked = k.blocked /\ ~u.bugcheck
          /\ u.state = k.state /\ u.current = k.current
        BY <1>1, <2>3 DEF KeState
    <2> QED BY <2>2, <2>4, <2>5 DEF u
<1>4. CASE ~Contains(k.timer, p)
    <2>1. p # k.current
        BY DEF Healthy, Alive, Running
    <2>2. Contains(k.blocked, p)
        BY <1>4, <2>1 DEF Healthy, Alive, Running, Consistent, ListsHoldAllBut, OnItsList
    <2>3. L \in Seq(Process) /\ \A x : Contains(L, x) <=> Contains(k.blocked, x) /\ x # p
        BY <1>1, <2>2, UnlinkFacts
    <2>4. u = [k EXCEPT !.wake[p] = 0, !.method[p] = FALSE, !.blocked = L]
        BY <1>1, <1>4, <2>2 DEF RemoveFromBlockedLists, KeState
    <2> HIDE DEF L, u
    <2>5. u \in KeState
        BY <1>1, <1>2, <2>3, <2>4 DEF KeState
    <2>6. /\ u.scheduled = k.scheduled /\ u.blocked = L /\ ~u.bugcheck
          /\ u.state = k.state /\ u.current = k.current
        BY <1>1, <2>4 DEF KeState
    <2> QED BY <2>3, <2>5, <2>6 DEF u
<1> QED BY <1>3, <1>4

LEMMA ResumeAlive ==
    ASSUME NEW k, Alive(k), NEW p \in Process, p \in k.scheduled, k.state[p] = "blocked"
    PROVE  LET r == KeResumeProcess(k, p)
           IN  /\ Alive(r) /\ ~r.bugcheck /\ r.quantum \in {k.quantum, QUANTUM}
               /\ r.scheduled = k.scheduled
               /\ \A x : Contains(r.blocked, x) <=> Contains(k.blocked, x) /\ x # p
<1> DEFINE u == RemoveFromBlockedLists(k, p)
           e == KepEnqueueProcess(u, p)
           d == KepReschedule(e)
           r == KeResumeProcess(k, p)
<1>1. Running(r) /\ r.quantum \in {k.quantum, QUANTUM}
    BY ResumeRunning DEF Alive
<1>2. /\ u \in KeState /\ u.scheduled = k.scheduled /\ ~u.bugcheck
      /\ u.state = k.state /\ u.current = k.current
      /\ \A x : Contains(u.blocked, x) <=> Contains(k.blocked, x) /\ x # p
    BY OffLists
<1> HIDE DEF u
<1>3. e \in KeState /\ SameWaiters(u, e)
    BY <1>2, EnqueueSameWaiters
<1>4. \A x \in Process : e.state[x] = "running" => k.state[x] = "running"
    <2>1. CASE e = KeBugCheck(u)
        <3>1. e.state = u.state
            BY <1>2, <2>1 DEF KeBugCheck, KeState
        <3> QED BY <1>2, <3>1
    <2>2. CASE e # KeBugCheck(u)
        <3>1. e.state = [u.state EXCEPT ![p] = "ready"]
            BY <1>2, <2>2 DEF KepEnqueueProcess, KeState
        <3> HIDE DEF e
        <3> QED BY <1>2, <3>1 DEF KeState
    <2> QED BY <2>1, <2>2
<1> HIDE DEF e
<1>5. d \in KeState /\ SameWaiters(e, d)
    BY <1>3, RescheduleSameWaiters
<1>6. ~d.bugcheck => NoNewRunner(e, d)
    BY <1>3, RescheduleRunner
<1> HIDE DEF d
<1>7. r \in {e, d}
    BY <1>2 DEF KeResumeProcess, u, e, d
<1> HIDE DEF r
<1>8. SameWaiters(u, r)
    BY <1>3, <1>5, <1>7 DEF SameWaiters
<1>9. r.blocked = u.blocked /\ r.scheduled = k.scheduled /\ Idle \in r.scheduled
    BY <1>2, <1>8 DEF SameWaiters, Healthy, Alive
<1>10. NoNewRunner(k, r)
    BY <1>1, <1>4, <1>6, <1>7, <1>9 DEF NoNewRunner, Running, Consistent
<1>11. Alive(r) /\ ~r.bugcheck
    BY <1>1, <1>9, <1>10, StillAlive DEF Running, Consistent
<1> QED BY <1>1, <1>2, <1>9, <1>11 DEF r

LEMMA ResumeHealthy ==
    ASSUME NEW k, Healthy(k), NEW p \in Process, p \in k.scheduled, k.state[p] = "blocked"
    PROVE  LET r == KeResumeProcess(k, p)
           IN  /\ Healthy(r) /\ ~r.bugcheck
               /\ r.scheduled = k.scheduled
               /\ \A x : Contains(r.blocked, x) <=> Contains(k.blocked, x) /\ x # p
<1>1. Alive(k) /\ k.quantum # 0 /\ QUANTUM # 0
    BY SchedulerAssumption DEF Healthy
<1> QED BY <1>1, ResumeAlive DEF Healthy

\* What KeStopSchedulingProcess does to the lists takes no other process off
\* the blocked list.
LEMMA UnlistedFacts ==
    ASSUME NEW k, Healthy(k), NEW p \in Process, p \in k.scheduled, ~Unlisted(k, p).bugcheck
    PROVE  LET u == Unlisted(k, p)
           IN  /\ u \in KeState /\ u.scheduled = k.scheduled
               /\ \A x : x # p => (Contains(u.blocked, x) <=> Contains(k.blocked, x))
               /\ NoNewRunner(k, u)
               /\ u.state[p] = "running" => u.current = p
<1> DEFINE u == Unlisted(k, p)
           b == [k EXCEPT !.state[p] = "blocked"]
           d == KepDequeueProcess(k, p)
<1>1. k \in KeState
    BY AliveFacts DEF Healthy
<1>2. CASE k.state[p] = "running"
    <2>1. b \in KeState /\ SameWaiters(k, b) /\ b.state = [k.state EXCEPT ![p] = "blocked"]
        BY <1>1 DEF KeState, States, SameWaiters
    <2>2. u = KepReschedule(b)
        BY <1>2 DEF Unlisted
    <2> HIDE DEF b, u
    <2>3. u \in KeState /\ SameWaiters(b, u)
        BY <2>1, <2>2, RescheduleSameWaiters
    <2>4. NoNewRunner(b, u)
        BY <2>1, <2>2, RescheduleRunner DEF u
    <2>5. b.state[p] = "blocked" /\ \A x \in Process : x # p => b.state[x] = k.state[x]
        BY <1>1, <2>1 DEF KeState
    <2>6. NoNewRunner(k, u) /\ (u.state[p] = "running" => u.current = p)
        BY <2>4, <2>5 DEF NoNewRunner
    <2> QED BY <2>1, <2>3, <2>6 DEF SameWaiters, u
<1>3. CASE k.state[p] = "ready"
    <2>1. u = d
        BY <1>3 DEF Unlisted
    <2>2. d \in KeState /\ SameWaiters(k, d)
        BY <1>1, DequeueSameWaiters
    <2>3. d.state = k.state
        BY <1>1 DEF KepDequeueProcess, KeBugCheck, KeState
    <2> HIDE DEF d, u
    <2>4. NoNewRunner(k, u) /\ u.state[p] # "running"
        BY <1>3, <2>1, <2>3 DEF NoNewRunner
    <2> QED BY <2>1, <2>2, <2>4 DEF SameWaiters, u
<1>4. CASE k.state[p] = "blocked"
    <2>1. u = RemoveFromBlockedLists(k, p)
        BY <1>4 DEF Unlisted
    <2>2. /\ u \in KeState /\ u.scheduled = k.scheduled
          /\ u.state = k.state
          /\ \A x : Contains(u.blocked, x) <=> Contains(k.blocked, x) /\ x # p
        BY <1>4, <2>1, OffLists DEF Healthy
    <2> HIDE DEF u
    <2>3. NoNewRunner(k, u) /\ u.state[p] # "running"
        BY <1>4, <2>2 DEF NoNewRunner
    <2> QED BY <2>2, <2>3 DEF u
<1>5. CASE k.state[p] = "created"
    BY <1>1, <1>5 DEF Unlisted, KeBugCheck, KeState
<1>6. k.state[p] \in States
    BY <1>1 DEF KeState
<1> QED BY <1>2, <1>3, <1>4, <1>5, <1>6 DEF States

LEMMA UnlistedScheduled ==
    ASSUME NEW k \in KeState, NEW p \in Process
    PROVE  Unlisted(k, p).scheduled = k.scheduled
<1> DEFINE b == [k EXCEPT !.state[p] = "blocked"]
<1>1. KepReschedule(b).scheduled = k.scheduled
    <2>1. b \in KeState /\ b.scheduled = k.scheduled
        BY DEF KeState, States
    <2> HIDE DEF b
    <2> QED BY <2>1, RescheduleSameWaiters DEF SameWaiters
<1>2. KepDequeueProcess(k, p).scheduled = k.scheduled
    BY DequeueSameWaiters DEF SameWaiters
<1>3. KeBugCheck(k).scheduled = k.scheduled
    BY DEF KeBugCheck, KeState
<1>4. RemoveFromBlockedLists(k, p).scheduled = k.scheduled
    BY <1>3 DEF RemoveFromBlockedLists, KeState
<1> QED BY <1>1, <1>2, <1>3, <1>4 DEF Unlisted

LEMMA StopHealthy ==
    ASSUME NEW k, Healthy(k), k.current # Idle, NEW p \in k.scheduled, p # Idle
    PROVE  LET s == KeStopSchedulingProcess(k, p)
           IN  /\ Healthy(s) /\ ~s.bugcheck
               /\ s.scheduled = k.scheduled \ {p}
               /\ \A x : Contains(s.blocked, x) <=> Contains(k.blocked, x) /\ x # p
<1> DEFINE u == Unlisted(k, p)
           s == KeStopSchedulingProcess(k, p)
<1>1. p \in Process /\ k \in KeState
    BY AliveFacts DEF Healthy
<1>2. Inv(s)
    BY StopInv DEF Healthy, Alive
<1>3. s = IF u.bugcheck THEN u ELSE [u EXCEPT !.scheduled = @ \ {p}]
    BY DEF KeStopSchedulingProcess
<1>4. ~u.bugcheck
    <2> SUFFICES ASSUME u.bugcheck PROVE FALSE
        OBVIOUS
    <2>1. Idle \notin u.scheduled
        BY <1>2, <1>3 DEF Inv
    <2>2. u.scheduled = k.scheduled
        BY <1>1, UnlistedScheduled
    <2> QED BY <2>1, <2>2 DEF Healthy, Alive
<1>5. /\ u \in KeState /\ u.scheduled = k.scheduled
      /\ \A x : x # p => (Contains(u.blocked, x) <=> Contains(k.blocked, x))
      /\ NoNewRunner(k, u)
      /\ u.state[p] = "running" => u.current = p
    BY <1>1, <1>4, UnlistedFacts
<1> HIDE DEF u, s
<1>6. /\ s.scheduled = k.scheduled \ {p} /\ s.blocked = u.blocked /\ s.state = u.state
      /\ s.current = u.current /\ ~s.bugcheck
    BY <1>3, <1>4, <1>5 DEF KeState
<1>7. s.current # p
    BY <1>2, <1>6 DEF Inv, Running
<1>8. Idle \in s.scheduled /\ NoNewRunner(k, s)
    BY <1>5, <1>6 DEF Healthy, Alive, NoNewRunner
<1>9. Healthy(s)
    <2>1. ASSUME NEW x \in Process, x \in k.scheduled, x \notin s.scheduled
          PROVE  s.state[x] # "running"
        BY <1>5, <1>6, <1>7, <2>1
    <2> QED BY <1>2, <1>8, <2>1, StillHealthy
<1>10. ~Contains(s.blocked, p)
    BY <1>6, <1>9, AliveFacts DEF Healthy
<1> QED BY <1>5, <1>6, <1>9, <1>10 DEF s

\* A dead process is on no list, and its State does not pass for that of the
\* running one: to stop it halts the machine.
LEMMA StopHalts ==
    ASSUME NEW k, Healthy(k), NEW p \in Process, p \notin k.scheduled
    PROVE  KeStopSchedulingProcess(k, p) = KeBugCheck(k)
<1> DEFINE b == KeBugCheck(k)
<1>1. k \in KeState /\ ~Contains(k.timer, p) /\ ~Contains(k.blocked, p)
    BY AliveFacts DEF Healthy
<1>2. \A q \in Priorities : ~Contains(k.ready[q], p)
    BY DEF Healthy, Alive, Running, Consistent, ListsHoldAllBut, OnlyTheirsOnLists
<1>3. b.bugcheck
    BY <1>1 DEF KeBugCheck, KeState
<1>4. KepDequeueProcess(k, p) = b /\ RemoveFromBlockedLists(k, p) = b
    BY <1>1, <1>2 DEF KepDequeueProcess, RemoveFromBlockedLists
<1> HIDE DEF b
<1>5. k.state[p] # "running"
    BY DEF Healthy, Alive, DeadDoNotRun
<1>6. Unlisted(k, p) = b
    BY <1>4, <1>5 DEF Unlisted, b
<1>7. KeStopSchedulingProcess(k, p) = b
    BY <1>3, <1>6 DEF KeStopSchedulingProcess
<1> QED BY <1>7 DEF b

LEMMA ChangePriorityHealthy ==
    ASSUME NEW k, Healthy(k), NEW p \in k.scheduled, p # Idle, NEW prio \in Priorities
    PROVE  LET r == KeChangeProcessPriority(k, p, prio)
           IN  /\ Healthy(r) /\ ~r.bugcheck
               /\ r.scheduled = k.scheduled
               /\ r.blocked = k.blocked
<1> DEFINE d == KepDequeueProcess(k, p)
           m == [d EXCEPT !.priority[p] = prio]
           s == [k EXCEPT !.priority[p] = prio]
           e == KepEnqueueProcess(m, p)
           r == KeChangeProcessPriority(k, p, prio)
<1>1. p \in Process /\ k \in KeState
    BY AliveFacts DEF Healthy
<1>2. Inv(r)
    BY ChangePriorityInv DEF Healthy, Alive
<1>3. /\ s.scheduled = k.scheduled /\ s.blocked = k.blocked /\ s.state = k.state
    BY <1>1 DEF KeState
<1>4. d \in KeState /\ SameWaiters(k, d) /\ d.state = k.state
    <2>1. d.state = k.state
        BY <1>1 DEF KepDequeueProcess, KeBugCheck, KeState
    <2> QED BY <1>1, <2>1, DequeueSameWaiters
<1> HIDE DEF d
<1>5. m \in KeState /\ m.scheduled = d.scheduled /\ m.blocked = d.blocked /\ m.state = d.state
    <2>1. [d.priority EXCEPT ![p] = prio] \in [Process -> Nat]
        BY <1>1, <1>4 DEF KeState, Priorities
    <2> QED BY <1>4, <2>1 DEF KeState
<1> HIDE DEF m
<1>6. SameWaiters(m, e)
    BY <1>1, <1>5, EnqueueSameWaiters
<1>7. \A x \in Process : e.state[x] = "running" => m.state[x] = "running"
    <2>1. CASE e = KeBugCheck(m)
        <3>1. e.state = m.state
            BY <1>5, <2>1 DEF KeBugCheck, KeState
        <3> QED BY <3>1
    <2>2. CASE e # KeBugCheck(m)
        <3>1. e.state = [m.state EXCEPT ![p] = "ready"]
            BY <1>5, <2>2 DEF KepEnqueueProcess, KeState
        <3> HIDE DEF e
        <3> QED BY <1>5, <3>1 DEF KeState
    <2> QED BY <2>1, <2>2
<1>8. r \in {s, d, e, KeBugCheck(k)}
    <2> HIDE DEF e, s
    <2>1. k.state[p] \in States
        BY <1>1 DEF KeState
    <2> QED BY <2>1 DEF KeChangeProcessPriority, States, d, m, e, s
<1>9. r # KeBugCheck(k)
    <2> SUFFICES ASSUME r = KeBugCheck(k) PROVE FALSE
        OBVIOUS
    <2>1. KeBugCheck(k).bugcheck /\ KeBugCheck(k).scheduled = k.scheduled
        BY <1>1 DEF KeBugCheck, KeState
    <2> QED BY <1>2, <2>1 DEF Inv, Healthy, Alive
<1> HIDE DEF r, s, e
<1>10. r.scheduled = k.scheduled /\ r.blocked = k.blocked /\ Idle \in r.scheduled
    BY <1>3, <1>4, <1>5, <1>6, <1>8, <1>9 DEF SameWaiters, Healthy, Alive
<1>11. NoNewRunner(k, r)
    BY <1>3, <1>4, <1>5, <1>7, <1>8, <1>9 DEF NoNewRunner
<1>12. Healthy(r) /\ ~r.bugcheck
    BY <1>2, <1>10, <1>11, StillHealthy
<1> QED BY <1>10, <1>12 DEF r

\* The priority of a dead process is changed if its State is "blocked", and
\* otherwise the machine halts.
LEMMA ChangePriorityOfDead ==
    ASSUME NEW k, Healthy(k), NEW p \in Process, p \notin k.scheduled, NEW prio \in Priorities
    PROVE  LET r == KeChangeProcessPriority(k, p, prio)
           IN  /\ r \in KeState
               /\ r.scheduled = k.scheduled /\ r.blocked = k.blocked /\ r.state = k.state
               /\ ~r.bugcheck => Healthy(r)
<1> DEFINE b == KeBugCheck(k)
           P == [k.priority EXCEPT ![p] = prio]
           s == [k EXCEPT !.priority = P]
           r == KeChangeProcessPriority(k, p, prio)
<1>1. k \in KeState /\ k.current \in k.scheduled /\ k.scheduled \subseteq Process
    BY AliveFacts DEF Healthy
<1>2. \A q \in Priorities : ~Contains(k.ready[q], p)
    BY DEF Healthy, Alive, Running, Consistent, ListsHoldAllBut, OnlyTheirsOnLists
<1>3. /\ b \in KeState /\ b.bugcheck /\ b.scheduled = k.scheduled /\ b.blocked = k.blocked
      /\ b.state = k.state
    BY <1>1 DEF KeBugCheck, KeState
<1>4. KepDequeueProcess(k, p) = b
    BY <1>1, <1>2 DEF KepDequeueProcess
<1>5. [k EXCEPT !.priority[p] = prio] = s
    BY <1>1 DEF KeState
<1> HIDE DEF b, s
<1>6. r \in {b, s}
    BY <1>3, <1>4, <1>5 DEF KeChangeProcessPriority, b
<1>7. P \in [Process -> Nat] /\ \A x \in Process : x # p => P[x] = k.priority[x]
    BY <1>1 DEF KeState, Priorities
<1> HIDE DEF P
<1>8. s \in KeState
    BY <1>1, <1>7 DEF s, KeState
<1>9. /\ s.scheduled = k.scheduled /\ s.blocked = k.blocked /\ s.state = k.state
      /\ s.timer = k.timer /\ s.ready = k.ready /\ s.current = k.current /\ s.priority = P
      /\ s.bugcheck = k.bugcheck /\ s.quantum = k.quantum
    BY <1>1 DEF s, KeState
<1>10. \A x \in k.scheduled : s.priority[x] = k.priority[x]
    BY <1>1, <1>7, <1>9
<1>11. Healthy(s)
    <2>1. OnlyTheirsOnLists(s)
        BY <1>1, <1>9, <1>10 DEF Healthy, Alive, Running, Consistent, ListsHoldAllBut, OnlyTheirsOnLists
    <2>2. NoneTwiceOnLists(s)
        BY <1>9 DEF Healthy, Alive, Running, Consistent, ListsHoldAllBut, NoneTwiceOnLists
    <2>3. ASSUME NEW x \in s.scheduled \ {s.current} PROVE OnItsList(s, x)
        <3>1. OnItsList(k, x) /\ s.priority[x] = k.priority[x]
            BY <1>9, <1>10, <2>3 DEF Healthy, Alive, Running, Consistent, ListsHoldAllBut
        <3> QED BY <1>9, <3>1 DEF OnItsList
    <2>4. OnNoList(s, s.current)
        BY <1>9 DEF Healthy, Alive, Running, Consistent, ListsHoldAllBut, OnNoList
    <2>5. Consistent(s, {s.current})
        BY <1>1, <1>8, <1>9, <1>10, <2>1, <2>2, <2>3, <2>4
           DEF Healthy, Alive, Running, Consistent, ListsHoldAllBut
    <2>6. Running(s)
        BY <1>9, <2>5 DEF Healthy, Alive, Running, IdleAwake
    <2> QED BY <1>9, <2>6 DEF Healthy, Alive, DeadDoNotRun
<1> HIDE DEF r
<1> QED BY <1>3, <1>6, <1>8, <1>9, <1>11 DEF r

\* A tick wakes sleepers; it takes nobody off the blocked list.
LEMMA TimerHealthy ==
    ASSUME NEW k, Healthy(k)
    PROVE  LET r == KeHandleTimer(k)
           IN  /\ Healthy(r) /\ ~r.bugcheck
               /\ r.scheduled = k.scheduled
               /\ \A x : Contains(r.blocked, x) <=> Contains(k.blocked, x)
<1> DEFINE t == [k EXCEPT !.ticks = (@ + TICK) % ULONG_RANGE, !.quantum = @ - 1]
           w == KepWakeUpSleepers(t)
           d == KepReschedule(w)
           r == KeHandleTimer(k)
           Good(x) == /\ Alive(x)
                      /\ x.scheduled = k.scheduled
                      /\ \A y : Contains(x.blocked, y) <=> Contains(k.blocked, y)
           S == {x \in KeState : Good(x)}
<1>1. Inv(r)
    BY TimerInv DEF Healthy, Alive
<1>2. k \in KeState /\ k.quantum # 0
    BY AliveFacts DEF Healthy
<1>3. Running(t)
    BY TickRunning DEF Healthy, Alive
<1>4. t.scheduled = k.scheduled /\ t.blocked = k.blocked /\ t.state = k.state
    BY <1>2 DEF KeState
<1> HIDE DEF t
<1>5. t \in S
    BY <1>3, <1>4 DEF Running, Consistent, Healthy, Alive, DeadDoNotRun
<1>6. ASSUME NEW x \in S PROVE WakeSleeper(x) \in S
    <2> DEFINE p == Head(x.timer)
               e == KeResumeProcess(x, p)
    <2>1. x \in KeState /\ Good(x)
        OBVIOUS
    <2>2. CASE ~SleeperIsDue(x)
        BY <2>2 DEF WakeSleeper
    <2>3. CASE SleeperIsDue(x)
        <3>1. x.timer \in Seq(Process) /\ x.timer # <<>>
            BY <2>1, <2>3 DEF KeState, SleeperIsDue
        <3>2. p \in Process /\ Contains(x.timer, p)
            BY <3>1, TailFacts
        <3> HIDE DEF p
        <3>3. /\ ~x.bugcheck /\ p \in x.scheduled /\ x.state[p] = "blocked"
              /\ ~Contains(x.blocked, p)
            BY <2>1, <3>2, AliveFacts
        <3>4. /\ Alive(e) /\ e.scheduled = x.scheduled
              /\ \A y : Contains(e.blocked, y) <=> Contains(x.blocked, y) /\ y # p
            BY <2>1, <3>2, <3>3, ResumeAlive
        <3>5. WakeSleeper(x) = e
            BY <2>3, <3>3 DEF WakeSleeper, p
        <3> HIDE DEF e
        <3>6. e \in KeState
            BY <3>4, AliveFacts
        <3> QED BY <2>1, <3>3, <3>4, <3>5, <3>6
    <2> QED BY <2>2, <2>3
<1>7. t \in KeState
    BY <1>5
<1>8. w \in S
    <2> HIDE DEF S
    <2> QED BY <1>5, <1>6, <1>7, WakeUpStays
<1> HIDE DEF w
<1>9. w \in KeState /\ Good(w)
    BY <1>8
<1>10. SameWaiters(w, d)
    BY <1>9, RescheduleSameWaiters
<1>11. ~d.bugcheck => NoNewRunner(w, d)
    BY <1>9, RescheduleRunner
<1>12. r \in {w, d}
    BY <1>2 DEF KeHandleTimer, w, d, t
<1> HIDE DEF r, d
<1>13. /\ r.scheduled = k.scheduled /\ Idle \in r.scheduled
       /\ \A y : Contains(r.blocked, y) <=> Contains(k.blocked, y)
    BY <1>9, <1>10, <1>12 DEF SameWaiters, Alive
<1>14. ~r.bugcheck /\ Running(r) /\ r.quantum # 0
    BY <1>1, <1>13 DEF Inv
<1>15. NoNewRunner(w, r)
    BY <1>11, <1>12, <1>14 DEF NoNewRunner
<1>16. Alive(r)
    BY <1>9, <1>13, <1>14, <1>15, StillAlive
<1> QED BY <1>13, <1>14, <1>16 DEF Healthy, r
=============================================================================
