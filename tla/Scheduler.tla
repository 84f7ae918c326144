------------------------------ MODULE Scheduler ------------------------------
(***************************************************************************)
(* The ARCOS scheduler, src/base/ke/scheduler.c.                           *)
(*                                                                         *)
(* The kernel runs on one processor with interrupts off, so every call of  *)
(* the scheduler is atomic.  A C function that changes the scheduler's     *)
(* globals and the PCB fields is an operator from the state before the     *)
(* call to the state after it; the actions at the end are the calls the    *)
(* rest of the kernel makes, and the timer interrupt.  A list linked       *)
(* through NextPCB is a sequence of processes: the invariant               *)
(* EveryProcessOnItsList is what makes that reading sound, since a PCB has *)
(* a single NextPCB.                                                       *)
(***************************************************************************)
EXTENDS Naturals, Sequences, SequencesExt

CONSTANTS
    Process,                  \* the process control blocks
    Idle,                     \* the PCB PsInitialize makes: process 0
    PROCESS_PRIORITY_LEVELS,  \* number of ready queues (32, ke.h)
    QUANTUM,                  \* ticks a dispatched process may run (5)
    TICK,                     \* milliseconds per timer interrupt (10)
    ULONG_RANGE,              \* number of values of a ULONG (2^32)
    Sleeps,                   \* the intervals processes sleep for
    NewPriorities             \* the priorities KeChangeProcessPriority is given

Priorities == 0 .. PROCESS_PRIORITY_LEVELS - 1
Ulong      == 0 .. ULONG_RANGE - 1
States     == {"created", "running", "ready", "blocked"}

ASSUME SchedulerAssumption ==
    /\ Idle \in Process
    /\ PROCESS_PRIORITY_LEVELS \in Nat \ {0}
    /\ QUANTUM \in Nat \ {0}
    /\ TICK \in Nat \ {0}
    /\ ULONG_RANGE \in Nat \ {0}
    /\ Sleeps \subseteq Ulong
    /\ NewPriorities \subseteq Priorities

VARIABLE
    ke   \* the scheduler's globals and the PCB fields it owns

(***************************************************************************)
(* ready, blocked, timer and current are KepReadyQueues, KepBlockedList,   *)
(* KepTimerList and KeCurrentProcess; state, priority, wake and method are *)
(* PCB fields (method tells whether ResumeMethod is set).  quantum is the  *)
(* Quantum of the current process: KepReschedule overwrites the field of   *)
(* every process it dispatches, so the others' values are never read.      *)
(* scheduled is the set of processes whose object the scheduler holds a    *)
(* reference to; bugcheck is set when KeBugCheck has been called, by a     *)
(* failed ASSERT too.                                                      *)
(***************************************************************************)
KeState ==
    [current   : Process,
     ready     : [Priorities -> Seq(Process)],
     blocked   : Seq(Process),
     timer     : Seq(Process),
     ticks     : Ulong,
     quantum   : 0 .. QUANTUM,
     state     : [Process -> States],
     priority  : [Process -> Nat],
     wake      : [Process -> Ulong],
     method    : [Process -> BOOLEAN],
     scheduled : SUBSET Process,
     bugcheck  : BOOLEAN]

\* PsInitialize: process 0 runs, with a zeroed PCB (State = created) and one
\* tick left, and holds no place on any list.
KeInit ==
    [current   |-> Idle,
     ready     |-> [q \in Priorities |-> <<>>],
     blocked   |-> <<>>,
     timer     |-> <<>>,
     ticks     |-> 0,
     quantum   |-> 1,
     state     |-> [p \in Process |-> "created"],
     priority  |-> [p \in Process |-> 0],
     wake      |-> [p \in Process |-> 0],
     method    |-> [p \in Process |-> FALSE],
     scheduled |-> {Idle},
     bugcheck  |-> FALSE]

-----------------------------------------------------------------------------
\* KeBugCheck never returns: nothing changes once it is set.
KeBugCheck(k) == [k EXCEPT !.bugcheck = TRUE]

Position(list, p) == CHOOSE i \in DOMAIN list : list[i] = p

\* Faulty variant: the process is put in front of its queue.
EnqueueInFront(k, p) ==
    IF k.priority[p] \in Priorities
    THEN [k EXCEPT !.ready[k.priority[p]] = <<p>> \o @,
                   !.state[p] = "ready"]
    ELSE KeBugCheck(k)

KepEnqueueProcess(k, p) ==
    IF k.priority[p] \in Priorities
    THEN [k EXCEPT !.ready[k.priority[p]] = Append(@, p),
                   !.state[p] = "ready"]
    ELSE KeBugCheck(k)

KepDequeueProcess(k, p) ==
    IF k.priority[p] \in Priorities /\ Contains(k.ready[k.priority[p]], p)
    THEN [k EXCEPT !.ready[k.priority[p]] = RemoveAt(@, Position(@, p))]
    ELSE KeBugCheck(k)

\* The ready queues KepReschedule scans that hold a process.
Candidates(k) ==
    {i \in Priorities :
        /\ k.ready[i] # <<>>
        /\ k.state[k.current] # "blocked" => i >= k.priority[k.current]}

\* Faulty variant: the scan runs in the wrong direction.
Lowest(S) == CHOOSE i \in S : \A j \in S : i <= j

Highest(S) == CHOOSE i \in S : \A j \in S : j <= i

\* The head of a ready queue becomes the current process.
DispatchFrom(k, i) ==
    [k EXCEPT !.current = Head(k.ready[i]), !.ready[i] = Tail(@)]

\* The loop of KepReschedule: the current process goes to the tail of its
\* queue unless it is blocked, the head of the highest queue is dispatched.
Dispatch(k) ==
    LET top == Highest(Candidates(k))
        r   == IF k.state[k.current] = "blocked"
               THEN k ELSE KepEnqueueProcess(k, k.current)
    IN  IF Candidates(k) = {}
        THEN k
        ELSE IF r.bugcheck
        THEN r
        ELSE DispatchFrom(r, top)

SetRunning(k) ==
    [k EXCEPT !.quantum = QUANTUM, !.state[k.current] = "running"]

KepReschedule(k) ==
    LET d == Dispatch(k)
    IN  IF d.bugcheck
        THEN d
        ELSE IF d.state[d.current] = "blocked"
        THEN KeBugCheck(d)
        ELSE SetRunning(d)

\* Faulty variant: the timer list is forgotten.
RemoveFromBlockedListOnly(k, p) ==
    IF Contains(k.blocked, p)
    THEN [k EXCEPT !.wake[p] = 0, !.method[p] = FALSE,
                   !.blocked = RemoveAt(@, Position(@, p))]
    ELSE KeBugCheck(k)

\* KepRemoveFromProcessList on KepTimerList, else on KepBlockedList, else a
\* bugcheck.  wake and method are not read again before they are next
\* written, so they are cleared here to keep the state space small.
RemoveFromBlockedLists(k, p) ==
    LET cleared == [k EXCEPT !.wake[p] = 0, !.method[p] = FALSE]
    IN  IF Contains(k.timer, p)
        THEN [cleared EXCEPT !.timer = RemoveAt(@, Position(@, p))]
        ELSE IF Contains(k.blocked, p)
        THEN [cleared EXCEPT !.blocked = RemoveAt(@, Position(@, p))]
        ELSE KeBugCheck(k)
-----------------------------------------------------------------------------
\* A process PsCreateProcess has just made, with its new priority.
NewProcess(k, p, prio) ==
    [k EXCEPT !.state[p] = "ready", !.priority[p] = prio]

KeStartSchedulingProcess(k, p) ==
    KepEnqueueProcess([k EXCEPT !.scheduled = @ \cup {p}], p)

\* The lists as KeStopSchedulingProcess leaves them, before it gives the
\* object up.
Unlisted(k, p) ==
    CASE k.state[p] = "running" ->
            KepReschedule([k EXCEPT !.state[p] = "blocked"])
      [] k.state[p] = "ready"   -> KepDequeueProcess(k, p)
      [] k.state[p] = "blocked" -> RemoveFromBlockedLists(k, p)
      [] OTHER                  -> KeBugCheck(k)

KeStopSchedulingProcess(k, p) ==
    LET u == Unlisted(k, p)
    IN  IF u.bugcheck THEN u ELSE [u EXCEPT !.scheduled = @ \ {p}]

KeBlockProcess(k) ==
    KepReschedule([k EXCEPT !.state[k.current]  = "blocked",
                            !.method[k.current] = FALSE,
                            !.blocked = <<k.current>> \o @])

\* Faulty variant: the woken process waits for the next tick.
ResumeWithoutReschedule(k, p) ==
    LET u == RemoveFromBlockedLists(k, p)
    IN  IF k.state[p] # "blocked" THEN KeBugCheck(k)
        ELSE IF u.bugcheck THEN u ELSE KepEnqueueProcess(u, p)

\* The caller's ResumeMethod changes no state of the scheduler.
KeResumeProcess(k, p) ==
    LET u == RemoveFromBlockedLists(k, p)
        e == KepEnqueueProcess(u, p)
    IN  IF k.state[p] # "blocked"
        THEN KeBugCheck(k)
        ELSE IF u.bugcheck
        THEN u
        ELSE IF e.bugcheck \/ e.priority[p] <= e.priority[e.current]
        THEN e
        ELSE KepReschedule(e)

\* Faulty variant: a ready process stays in the queue of its old priority.
ChangePriorityInPlace(k, p, prio) == [k EXCEPT !.priority[p] = prio]

KeChangeProcessPriority(k, p, prio) ==
    LET d == KepDequeueProcess(k, p)
    IN  CASE k.state[p] \in {"running", "blocked"} ->
                [k EXCEPT !.priority[p] = prio]
          [] k.state[p] = "ready" ->
                IF d.bugcheck
                THEN d
                ELSE KepEnqueueProcess([d EXCEPT !.priority[p] = prio], p)
          [] OTHER -> KeBugCheck(k)

\* Faulty variants: the head of the list is never compared; the list is not
\* sorted at all.
SlotBehindHead(k, w) ==
    IF k.timer = <<>>
    THEN 1
    ELSE CHOOSE i \in 2 .. Len(k.timer) + 1 :
            /\ i <= Len(k.timer) => k.wake[k.timer[i]] >= w
            /\ \A j \in 2 .. i - 1 : k.wake[k.timer[j]] < w
SlotAtEnd(k, w) == Len(k.timer) + 1

\* Where KeSuspendProcess links a process that wakes at time w: in front of a
\* head that wakes later, else behind the head and behind every entry after
\* it that wakes earlier.
TimerSlot(k, w) ==
    IF k.timer = <<>> \/ k.wake[k.timer[1]] > w
    THEN 1
    ELSE CHOOSE i \in 2 .. Len(k.timer) + 1 :
            /\ i <= Len(k.timer) => k.wake[k.timer[i]] >= w
            /\ \A j \in 2 .. i - 1 : k.wake[k.timer[j]] < w

KeSuspendProcess(k, ms, resume) ==
    LET w == (k.ticks + ms) % ULONG_RANGE
    IN  KepReschedule(
            [k EXCEPT !.wake[k.current]   = w,
                      !.state[k.current]  = "blocked",
                      !.method[k.current] = resume,
                      !.timer = InsertAt(@, TimerSlot(k, w), k.current)])
-----------------------------------------------------------------------------
\* Faulty variant: a sleeper is taken to be due up to a tick early.
SleeperIsAlmostDue(k) == k.timer # <<>> /\ k.wake[Head(k.timer)] < k.ticks + TICK

SleeperIsDue(k) == k.timer # <<>> /\ k.wake[Head(k.timer)] < k.ticks

\* One iteration of the loop of KepWakeUpSleepers.
WakeSleeper(k) ==
    IF ~k.bugcheck /\ SleeperIsDue(k)
    THEN KeResumeProcess(k, Head(k.timer))
    ELSE k

\* Faulty variant: one sleeper a tick.
WakeUpOneSleeper(k) == WakeSleeper(k)

\* An iteration removes one process from the timer list, so the loop makes at
\* most as many iterations as the list is long.
KepWakeUpSleepers(k) ==
    LET after[n \in Nat] == IF n = 0 THEN k ELSE WakeSleeper(after[n - 1])
    IN  after[Len(k.timer)]

\* Faulty variant: the end of the quantum is not acted upon.
HandleTimerWithoutQuantum(k) ==
    IF k.quantum = 0
    THEN KeBugCheck(k)
    ELSE KepWakeUpSleepers([k EXCEPT !.ticks = (@ + TICK) % ULONG_RANGE,
                                     !.quantum = @ - 1])

KeHandleTimer(k) ==
    LET w == KepWakeUpSleepers([k EXCEPT !.ticks = (@ + TICK) % ULONG_RANGE,
                                         !.quantum = @ - 1])
    IN  IF k.quantum = 0
        THEN KeBugCheck(k)
        ELSE IF w.bugcheck \/ w.quantum # 0
        THEN w
        ELSE KepReschedule(w)
-----------------------------------------------------------------------------
(***************************************************************************)
(* The calls the kernel makes, under the contract its comments and ASSERTs *)
(* state: only processes the scheduler knows are stopped, resumed or given *)
(* a priority, and process 0 only starts processes and waits for           *)
(* interrupts.  PsChangePriority refuses process 0; PsKillByPID does not.  *)
(***************************************************************************)
Init == ke = KeInit

StartProcess(p, prio) ==
    /\ ~ke.bugcheck
    /\ p \notin ke.scheduled /\ p # Idle
    /\ ke' = KeStartSchedulingProcess(NewProcess(ke, p, prio), p)

StopProcess(p) ==
    /\ ~ke.bugcheck
    /\ ke.current # Idle
    /\ p \in ke.scheduled
    /\ ke' = KeStopSchedulingProcess(ke, p)

BlockProcess ==
    /\ ~ke.bugcheck
    /\ ke.current # Idle
    /\ ke' = KeBlockProcess(ke)

\* A plain Sleep has no ResumeMethod and is ended by the timer alone.
ResumeProcess(p) ==
    /\ ~ke.bugcheck
    /\ p \in ke.scheduled
    /\ ke.state[p] = "blocked"
    /\ Contains(ke.timer, p) => ke.method[p]
    /\ ke' = KeResumeProcess(ke, p)

ChangeProcessPriority(p, prio) ==
    /\ ~ke.bugcheck
    /\ ke.current # Idle
    /\ p \in ke.scheduled \ {Idle}
    /\ ke' = KeChangeProcessPriority(ke, p, prio)

SuspendProcess(ms, resume) ==
    /\ ~ke.bugcheck
    /\ ke.current # Idle
    /\ ke' = KeSuspendProcess(ke, ms, resume)

HandleTimer ==
    /\ ~ke.bugcheck
    /\ ke' = KeHandleTimer(ke)

\* The endless loop KeBugCheck ends in, with interrupts off.
Spin ==
    /\ ke.bugcheck
    /\ UNCHANGED ke

Next ==
    \/ \E p \in Process, prio \in Priorities : StartProcess(p, prio)
    \/ \E p \in Process : StopProcess(p)
    \/ BlockProcess
    \/ \E p \in Process : ResumeProcess(p)
    \/ \E p \in Process, prio \in NewPriorities : ChangeProcessPriority(p, prio)
    \/ \E ms \in Sleeps, resume \in BOOLEAN : SuspendProcess(ms, resume)
    \/ HandleTimer
    \/ Spin

Spec == Init /\ [][Next]_ke

\* HalHandleException resets the timer after every tick and no call masks it
\* for good, so ticks never end unless the machine has halted.  (A tick is
\* possible in every state without a bugcheck, so this is weak fairness of
\* HandleTimer, in the form TLC evaluates fastest.)
FairSpec == Spec /\ (<>[]ke.bugcheck \/ []<><<ke'.ticks # ke.ticks>>_ke)
-----------------------------------------------------------------------------
\* The state has its type, and the current process a tick left.
TypeOK ==
    /\ ke \in KeState
    /\ ~ke.bugcheck => ke.quantum # 0

\* A process on a list belongs there.
OnlyTheirsOnLists(k) ==
    \A p \in Process :
        /\ \A q \in Priorities : Contains(k.ready[q], p) =>
              p \in k.scheduled /\ k.state[p] = "ready" /\ k.priority[p] = q
        /\ Contains(k.timer, p) \/ Contains(k.blocked, p) =>
              p \in k.scheduled /\ k.state[p] = "blocked"

\* p is on the list its State and Priority name.
OnItsList(k, p) ==
    \/ /\ k.state[p] = "ready"
       /\ k.priority[p] \in Priorities
       /\ Contains(k.ready[k.priority[p]], p)
    \/ /\ k.state[p] = "blocked"
       /\ Contains(k.timer, p) \/ Contains(k.blocked, p)

OnNoList(k, p) ==
    /\ \A q \in Priorities : ~Contains(k.ready[q], p)
    /\ ~Contains(k.timer, p)
    /\ ~Contains(k.blocked, p)

\* No process is on a list twice, or on both lists of blocked processes.
NoneTwiceOnLists(k) ==
    /\ \A q \in Priorities : IsInjective(k.ready[q])
    /\ IsInjective(k.blocked)
    /\ IsInjective(k.timer)
    /\ \A p \in Process : ~(Contains(k.timer, p) /\ Contains(k.blocked, p))

\* The lists hold each process the scheduler knows, once, but for those in
\* off: they are on no list.
ListsHoldAllBut(k, off) ==
    /\ OnlyTheirsOnLists(k)
    /\ NoneTwiceOnLists(k)
    /\ \A p \in k.scheduled \ off : OnItsList(k, p)
    /\ \A p \in off : OnNoList(k, p)

\* Every process the scheduler knows is either the running one or on exactly
\* one list, the one its State and Priority name.  A PCB has one NextPCB: a
\* process lost from the lists never runs again, one linked twice corrupts
\* both lists.
EveryProcessOnItsList ==
    ~ke.bugcheck =>
        /\ ke.current \in ke.scheduled
        /\ ke.state[ke.current] \in {"created", "running"}
        /\ ListsHoldAllBut(ke, {ke.current})

\* The timer list is sorted by WakeUpTime: KepWakeUpSleepers looks at its
\* head only, so an entry out of order oversleeps.
TimerListSorted ==
    ~ke.bugcheck =>
        \A i, j \in DOMAIN ke.timer :
            i < j => ke.wake[ke.timer[i]] <= ke.wake[ke.timer[j]]

\* While the callers keep the contract the scheduler halts the machine for one
\* reason only, the one KepReschedule gives: someone killed process 0.
OnlyLossOfProcessZeroHalts == ke.bugcheck => Idle \notin ke.scheduled

\* Whatever call, or sequence of calls inside one interrupt, changes the
\* current process, the new one has the highest priority of all that could
\* run.
DispatchesHighest ==
    [][ke'.current # ke.current /\ ~ke'.bugcheck =>
         \A q \in Priorities :
            ke'.ready[q] # <<>> => q <= ke'.priority[ke'.current]]_ke

\* A process that wakes up never waits behind a lower priority: when a step
\* moves it off the blocked lists, what runs after the step is at least as
\* urgent, even if the step wakes several.
WakeupPreempts ==
    [][~ke'.bugcheck =>
         \A p \in ke.scheduled \cap ke'.scheduled :
            ke.state[p] = "blocked" /\ ke'.state[p] # "blocked" =>
                ke'.priority[p] <= ke'.priority[ke'.current]]_ke

\* A tick wakes every sleeper that is due, not only the first: after it no
\* process on the timer list has a WakeUpTime in the past.
TickWakesAllDue ==
    [][ke'.ticks # ke.ticks /\ ~ke'.bugcheck =>
         \A i \in DOMAIN ke'.timer : ke'.wake[ke'.timer[i]] >= ke'.ticks]_ke
-----------------------------------------------------------------------------
\* p waits for the processor and nobody the scheduler knows is more urgent.
MostUrgentReady(p) ==
    /\ p \in ke.scheduled
    /\ ke.state[p] = "ready"
    /\ \A q \in ke.scheduled : ke.priority[q] <= ke.priority[p]

\* KeChangeProcessPriority moves p, if it is ready, to the tail of a queue.
MovesToTail(p) == \E prio \in NewPriorities : ChangeProcessPriority(p, prio)

\* Round robin: a process of the highest priority is never kept waiting for
\* ever by its equals, nor by a lower one that was running when it started or
\* was made lower while it ran, unless somebody changes the priority of the one
\* that waits again and again, even to the same value.
MostUrgentRuns ==
    \A p \in Process :
        \/ MostUrgentReady(p) ~> (ke.current = p \/ ~MostUrgentReady(p))
        \/ []<><<MovesToTail(p)>>_ke

\* Every sleep ends, whatever the others do, if its WakeUpTime is one the tick
\* counter will pass: the counter wraps without ever exceeding the largest
\* values, and KepWakeUpSleepers compares with <.
SleeperWakes ==
    \A p \in Process :
        Contains(ke.timer, p) /\ ke.wake[p] + TICK < ULONG_RANGE
            ~> ke.bugcheck \/ ~Contains(ke.timer, p)
=============================================================================
