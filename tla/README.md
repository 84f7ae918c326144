# A TLA+ model of the ARCOS kernel

ARCOS is a small multitasking operating system for MIPS32 (run under Simics),
written in C.  These modules model the parts of its kernel that keep state and
make decisions, and one of the programs it comes with, check them with TLC on
small instances, and prove the most important invariants for every instance
with TLAPS.

Paths such as `ke/scheduler.c` are relative to `src/base/`.  `PROJECT.json`
lists, for every definition that models code, the lines it models (`map`), the
runs, the faulty variants (`mutants`), the findings, the hazards and the
theorems.

## 1. The system

The kernel runs on one processor.  A system call, a timer interrupt and a UART
interrupt all enter at `HalHandleException` (hal/mipsel32/init.c:99) with
interrupts off, run to the end, and leave by restoring the context of whichever
process is current by then.  **A call or an interrupt is therefore one atomic
step**, and the concurrency that matters is the order of these steps.  What
makes it hard is that a function may change `KeCurrentProcess` half way (every
call that blocks or resumes somebody does) and its caller goes on, in the name
of a process that is not current any more.

| component | state | operations | talks to |
|---|---|---|---|
| **scheduler** ke/scheduler.c | `KepReadyQueues[32]`, `KepBlockedList`, `KepTimerList`, `KeCurrentProcess`, `KepTickCount`; of each PCB `State`, `Priority`, `NextPCB`, `WakeUpTime`, `ResumeMethod`, `Quantum` | start, stop, block, resume, suspend (sleep), change priority, timer tick | called by everybody below; calls back `ResumeMethod` of messages; holds a reference of the object manager per process |
| **object manager** ob/ob.c | per object `PointerCount`, `HandleCount`, `SignalState`, `WaitQueue`; per type the list of its objects; per process a table of 256 handles | create, reference, dereference, open, close, inherit, wait, signal, kill | blocks and resumes through the scheduler; its objects are PCBs and files |
| **process manager** ps/ps.c | the PID, exit status, supervisor and arguments of each PCB | create, kill self, kill by PID, open, change priority, supervise, list | all of the others |
| **messages** mess/mess.c | a queue of messages per process; `processQueue`, the receivers that wait | send, receive first, receive by type, delete, copy | suspends receivers until a time-out; resumes them; is called back when the time-out comes first |
| **serial file** io/io.c | the input buffer, `waitingQueue` of readers, `bufferQueue` of texts, `outputPointer` | read, write, the receive and the transmit interrupt | blocks and resumes readers |
| **system calls** ke/syscall.c, api/ | none | number to function, result into V0 | |
| **start and bug check** ke/init.c, ke/bugcheck.c | none | make process 0 and the first processes; stop the machine | |
| **exceptions, timer, UART** hal/mipsel32/ | hardware registers | dispatch of interrupts, save and restore | scheduler, serial file |
| **memory** mm/ | a bump pointer | allocate (never fails), free (does nothing) | |
| **run-time library** rtl/ | none | strings, memory | |
| **kernel debugger** kd/ | its own UART | print, commands | |
| **applications** apps/ | their own | shell, scroller, task manager; philosophers, waiter, ring, keep-alive, drone: protocols over messages | system calls |

### What is hard, and what makes each component correct

* **Scheduler.**  All lists share one `NextPCB` per PCB, so a call made for a
  process that is still linked elsewhere corrupts two lists; the timer list is
  examined at its head only; several wake-ups, each with a possible change of
  process, and the end of a quantum may come in one tick; the tick counter
  wraps.  Correct: every process on exactly the list it belongs to; the most
  urgent one runs; round robin among equals; sleeps end, and end on time; the
  machine halts for no other reason than the loss of process 0.
* **Object manager.**  Two counts and a type list must agree with handle
  tables, waiters and kernel pointers that come and go in any order.  Correct:
  the counts are the references, an object exists as long as one is left, and a
  sleeper is in one wait queue whose object cannot vanish.
* **Process manager.**  The death of a process is a sequence over three
  components, in the middle of which another process becomes current.  Correct:
  no reference is lost or kept, PIDs are unique even among the dead who still
  have handles, waits for a process end with its death and only then.
* **Messages.**  A linked list of receivers is searched by loops that are
  unlinked from underneath, twice; a message races the time-out.  Correct: no
  message is overlooked or received twice, no call ends without a reason, and no
  message to a living process halts the machine.
* **Serial file.**  Two interrupts and several processes share an array and two
  queues.  Correct: characters and texts arrive whole and in order, and each
  reader returns with one.
* **Arguments.**  The strings a process starts with are packed into one block by
  one function and taken apart by others, which count differently.  Correct:
  what was typed, and what the waiter tells its philosophers, arrives.
* **Philosophers.**  Requests are repeated after time-outs and answered late, an
  answer does not say which fork it means, and the waiter forgets what it cannot
  grant.  Correct: no fork is given away twice, neighbours never eat together,
  somebody always eats again.

## 2. The modules

| module | models | composes |
|---|---|---|
| `Scheduler` | ke/scheduler.c | |
| `SleepIntervals` | the same with a clock that does not wrap | extends `Scheduler` |
| `ObjectManager` | ob/ob.c | |
| `Processes` | ps/ps.c | extends `Scheduler`, instantiates `ObjectManager` |
| `Messages` | mess/mess.c | extends `Scheduler`, implements `Mailboxes` |
| `Mailboxes` | nothing: the abstract specification of the message calls | |
| `SerialIo` | io/io.c | extends `Scheduler`, implements `Terminal` |
| `Terminal` | nothing: the abstract specification of the serial file | |
| `Philosophers` | apps/waiter.c, apps/philosopher.c | instantiates `Mailboxes` |
| `RtlString` | rtl/string.c | |
| `Arguments` | the argument block: ps/ps.c, mm/mm.c, and the users of it in apps/ | extends `RtlString` |
| `Commands` | the shell's commands and the programs they start | extends `Philosophers`, `Arguments` |
| `ListFacts`, `SchedulerProofs`, `SchedulingProofs`, `ObjectManagerProofs`, `ProcessesProofs`, `MessagesProofs`, `SerialIoProofs`, `PhilosopherProofs` | proofs | extend `Scheduler`, `SleepIntervals`, `ObjectManager`, `Processes`, `Messages`, `SerialIo`, `Commands` |
| `MC...` | instances for TLC | |

The chain from the bottom: `Messages` runs on the scheduler and implements
`Mailboxes`, which is proved; `Philosophers` runs on `Mailboxes`, so what is shown
of them holds on the kernel.

A C function that changes kernel state is an **operator from the state before
the call to the state after it** (`KepReschedule(k)`, `ObCloseHandle(s, c, h)`),
with the function's name; so a function that calls another is modelled by the
composition of operators, including the change of the current process in
between.  An **action** is one system call or interrupt.  Names that differ from
the code: `StartProcess`, `StopProcess`, ... are the calls of
`KeStartSchedulingProcess` and so on made by the rest of the kernel;
`Unlisted`, `Dispatch`, `WakeSleeper`, `Deliver`, `Walk` are parts of one C
function.  Definitions commented "Faulty variant" belong to no specification;
they are bugs each property is known to find.

**State.**  `ke` is a record of the scheduler's globals and of PCB fields as
functions over `Process`.  A list linked by `NextPCB` is a sequence; the
invariant `EveryProcessOnItsList`, which is proved, is what makes that sound.
`bugcheck` is set where the code calls `KeBugCheck` or an `ASSERT` fails (the
build has them on): the machine spins there for ever.  The quantum is
kept for the current process only, as `KepReschedule` overwrites it at every
dispatch.  In `ObjectManager`, `ob` holds the headers, type lists and handle
tables; `held` counts the pointers the callers have, `life` which processes may
call.  In `Processes`, `ObjectManager` is instantiated with PCBs for objects
and with `held` and `life` *defined* from the scheduler's state, so its
invariants become statements about the three components together.  In
`Messages` the queue of receivers keeps its pointers (`first`, `last`, `next`),
since they are the hazard.  In `SerialIo` the input buffer is the array of the
code, and its two queues are sequences.

**Contract of the scheduler.**  In `Scheduler` itself any process but 0 may make
any call, with the conditions its callers establish: only processes it knows
are stopped, resumed or changed, only those in a list it may be resumed from,
and process 0 never blocks.  `Processes`, `Messages` and `SerialIo` do not
assume this contract but make the calls the code makes: there a broken contract
shows as a bug check.  All three do break it, and `HaltsOnlyByMisuse`,
`OnlyDeadReceiversHalt` and `OnlyDeadReadersHalt` say by which calls only: a dead
process stopped again or given a priority, a priority above 31 in a create call, a
message to a process that was killed while it received, a character for a reader
that was killed; and any call once process 0, or a process that waited for an
object, has been killed.

**Killed processes.**  `PsKillByPID` asks nothing about its victim.  In `Processes` it
kills whom the constant `Victims` names, in the run `processes` everybody: the
current process, ready, sleeping, waiting and dead ones, and process 0.  The
kernel counts on process 0, which has to be ready when nobody else is, and on
those in a WaitQueue, whom the next signal resumes; the field `missed` records which
of them were killed, and is no state of the code.  While it is empty the machine halts
by misuse only (`HaltsOnlyByMisuse`) and waiting works (`WaitersWaitForTheLiving`).
In `Messages` a killed process is found by its PID, with the `State` it died in and
its node still linked, until `LastReference`; or it is not found from the start, if
nobody has a handle to it.  A second kill of a dead process is in `Processes` only.

**Mailboxes.**  A mailbox has the messages not yet received, what the process
waits for, and the message its last receive call returned.  `Messages` maps its
queues and its nodes from `first` to `last` to them, so a queue of receivers
searched by loops that are unlinked from underneath is shown to behave like a
wait of each process for itself.  A machine that halts in the middle of a send takes
no step of `Mailboxes`.  The mailbox of a dead process can still be sent to, and
nobody receives from it: MessDeleteMessageQueue frees the messages it had but leaves
`MessageQueue` pointing to them, and what is sent later goes behind them.  What the
code loses on purpose or by mistake is
in the specification: `ReceiveType` may lose what is behind the message it
returns.

**Terminal.**  IoReadSerial takes a character typed ahead, stores it in the reader's
buffer and blocks all the same; the interrupt that resumes the reader stores the
next one over it (io.c:206, 260).  The comment above (io.c:204) says the first is
returned.  `Terminal` says what the code does: `Ask` loses the first of the
characters typed ahead when nobody else waits, and everything else that is kept is
read, once and in order.  Beside the file, `Others` makes every call of the
scheduler for any process but 0, readers included; but nobody else resumes a
process that is in `waitingQueue`.

**Philosophers.**  What a program does from one system call to the next is an
action.  The waiter has a higher priority than the philosophers, but the user may
change priorities: they take turns in any order.  A time-out may end at any time,
earlier or later than the answer.  The waiter leaves after 300 messages in the
code and after any number in the model.

**Commands.**  One variable, `shell`, goes through lines typed by the user: each is
split, its program is looked up, its arguments are packed, and the program
reads them.  The argument block is a sequence of characters followed by what was
in memory before (`Garbage`), as `MmAlloc` does not clear it.  The waiter's
arguments for its philosophers, and the PIDs and priorities of `kill` and
`changeprio`, go the same way.

## 3. What each run checks

| run | question | size |
|---|---|---|
| `scheduler` | any sequence of calls and ticks, with a wrapping counter: lists consistent, timer list sorted, highest priority dispatched, wake-ups preempt, one tick wakes all that are due, halts only without process 0 | 3 processes + idle, 3 priorities, quantum 2, counter of 8 values |
| `scheduler_live` | the most urgent ready process runs unless its priority is set again and again, sleeps end | 2 priorities, changed freely, counter of 4 values, no symmetry |
| `sleep` | no sleep ends early, none a tick late, as long as the counter is far from its limit | tick of 2 ms, intervals 0, 1, 3, 4 |
| `sleep_wrap` | *violated*: with the counter at its limit sleeps end early | the same, counter of 16 values, all of them |
| `objects` | counts are references, objects live as long as they are referenced, sleepers are queued, no ASSERT fails | 3 processes, 2 objects, 2 handles each |
| `processes` | all three components: references, PIDs, waiting; which calls halt the machine | 3 processes + idle, 1 handle each; everybody killed, process 0, the waiting and the dead too; a priority out of range |
| `dead_handles` | *violated*: the dead hold no objects | 3 processes + idle, 1 handle each; self and ready ones killed |
| `killed_waiter` | *violated*: the processes in a wait queue are blocked | the same; waiting ones killed too |
| `messages` | `mess.c` implements `Mailboxes`, receivers' queue intact, receives end for a reason, only messages to killed receivers halt | 3 processes + idle, 2 messages, 2 types, 3 nodes; everybody killed, PCBs kept or not |
| `stale_node` | *violated*: a plain sleep is not ended by a message | 3 processes + idle, 2 messages, 2 types |
| `serial` | input buffer clean, readers blocked and served in order, only dead readers halt, `io.c` implements `Terminal` | 3 processes + idle, buffer of 3, 2 characters, 2 texts queued; every other call of the scheduler beside it |
| `philosophers` | what is typed arrives at the programs; forks are accounted for, neighbours never eat together, somebody eats again and again, the meals end with the waiter | 3 philosophers, one request under way of each kind; 232 lines, the 16 programs of ps.c |

The runs marked *violated* show where the code does not do what a comment or a
document says; section 6.

**Bounds and why they are enough.**  Three processes beside the idle one let two
wait in a list while a third acts, remove the first, the middle and the last of
a list, and let one be preempted by a second while a third is ready.  Two
priorities are needed for preemption, three for a choice among the preempting.
A quantum of 2 (code: 5) has a tick at which it ends and one at which it does
not; where only the scheduler's interplay with others matters it is 1.  The
counter of 8 values wraps several times within a run.  In `processes` the
counter has one value, so that time stands still and a sleeper
stays on the timer list until somebody kills it; time-driven wake-ups are the
subject of `scheduler`, `sleep`, `messages` and `serial`.  In the latter two the
counter has two values and a time-out of 0 ms, which ends at the next tick or, asked for at
the last value, never: both kinds of receiver are there.  `MAX_HANDLE_COUNT`
(code: 256) of 1 or 2 makes a full table an ordinary event.  `FIFO_SIZE` 3
(code: 16) leaves room for two characters, enough for an empty, a partly
filled and a full buffer.  Bounds the models
need and the code does not have: `HeldLimit` (pointers the kernel holds to an
object), one leaked reference in `PsChangePriority`, `NodeCount` (nodes in use),
`OneUrgent` (in `messages` one process at a time has the higher of the two
priorities: who is more urgent decides who runs next, not what is in the queues),
`QuietWhileKept` (there, while the PCB of a killed process is kept, nobody is
more urgent and no queue holds more than one message: a send looks at the
receiver's node and State, not at what is queued), `MissedFirst` (in `processes`
the kill of a process the kernel counts on is followed up where it was the first
death and no reference was leaked; the run passes without this bound too, with
1.2 million states.  `HaltsOnlyByMisuse` says nothing of what happens after such
a kill, and the theorems about the other properties end with it),
`Message` (messages in existence), `MaxTexts`, and `MaxRequests` (requests
of one philosopher that the waiter has not received; time-outs would repeat them
without end.  One is enough for the answers: a repeated request reaches the waiter
before the drop of the fork it asks for, is refused, and leaves no trace).  Three philosophers (code: 5) are the smallest table at which not
all are neighbours of each other through both forks, and at which the limit of
N - 1 forks given as left ones matters; the safety properties are proved for
every N and without `MaxRequests`.  Lines hold each program's name, a part of it
and an extension of it, and PIDs of one, two and three digits with priorities of
one and two, since the argument block is rounded up to 4 bytes.  `LONG_RANGE`
2048 stands for LONG_MAX: every number typed is below it.  `Commands` runs one
command at a time, and ends with the dinner.  Symmetry is used for processes,
and in `messages` for messages, never with liveness.

**Fairness.**  `scheduler_live` assumes that ticks never end, unless the machine
has halted.  `HalHandleException` re-arms the timer at each tick
(hal/mipsel32/init.c:154) and nothing masks it for good.  No fairness of calls
is assumed: a process may loop for ever without one.  Each change of the priority
of a ready process, even to the same value, moves it to the tail of its queue, so
repeated calls starve it: `MostUrgentRuns` has an alternative for that, and is
violated without.

`philosophers` assumes weak fairness of the waiter and of each philosopher.  The
waiter blocks whenever there is no message, so those of lower priority run; the
philosophers have one priority, share the processor in turn and sleep between
their calls; and sleeps and time-outs end, which is `SleeperWakes`.  The waiter
need not leave: `Leave` is not under fairness.

## 4. What is proved

All theorems hold for every value of the constants that the named `ASSUME`s of
the modules admit (`SchedulerAssumption`, ...), which TLC evaluates.

| module | theorem | property |
|---|---|---|
| `SchedulerProofs` | `InvAlways` | `IInv`, the inductive invariant |
| | `TypesCorrect` | `TypeOK`, in particular that the current process has a tick left, so the ASSERT in `KeHandleTimer` holds |
| | `ListsAlwaysConsistent` | `EveryProcessOnItsList` |
| | `HaltsOnlyWithoutProcessZero` | `OnlyLossOfProcessZeroHalts` |
| `SchedulingProofs` | `TimerListAlwaysSorted` | `TimerListSorted` |
| | `TickAlwaysWakesAllDue` | `TickWakesAllDue` |
| | `AlwaysDispatchesHighest` | `DispatchesHighest` |
| | `WakeupAlwaysPreempts` | `WakeupPreempts` |
| | `SleepsNeverShort`, `SleepsNeverLong` | `SleepIsNeverShort`, `SleepIsNeverLong`, given `[]CounterFarFromLimit` |
| `ObjectManagerProofs` | `AlwaysSteady` | `IInv`, the inductive invariant |
| | `ObjectManagerTypes`, `CountsAreExact` | `TypeOK`, `CountsAreReferences` |
| | `ReferencesKeepAlive` | `ExistsWhileReferenced` |
| | `SleepersCanBeWoken` | `SleepersAreQueued` |
| | `NoBugCheck` | `CountsNeverCrash` |
| `ProcessesProofs` | `ProcessesInvariant` | `PsInv`, the inductive invariant |
| | `ProcessesTyped`, `ReferencesAccounted` | `PsTypeOK`, `ProcessReferencesAccounted` |
| | `PIDsUnique` | `PIDsAreUnique` |
| | `NobodyWaitsForTheDead`, `OnlyDeathEndsWaits` | `WaitersWaitForTheLiving`, `WaitsEndByDeath` |
| | `ProcessesOnTheirLists`, `OnlyMisuseHalts` | `EveryProcessOnItsList`, `HaltsOnlyByMisuse` |
| | `WaitersAreBlocked` | `SignalledProcessesAreBlocked`, until a waiting process or process 0 is killed |
| `MessagesProofs` | `MessagesInvariant` | `Kept`, the inductive invariant |
| | `MessagesTypesCorrect` | `MessTypeOK` |
| | `OnlyMessagesToTheDeadHalt` | `OnlyDeadReceiversHalt` |
| | `WaitingListAlwaysIntact` | `WaitingListIntact` |
| | `ReceivesEndForAReason` | `ReceiveEndsForAReason` |
| | `KeepsMailboxesPromise` | `ImplementsMailboxes`, the refinement of `Mailboxes` |
| `SerialIoProofs` | `IoInvAlways` | `IoInv`, the inductive invariant |
| | `IoTypesCorrect`, `NulAlwaysBehindInput` | `IoTypeOK`, `NulBehindInput` |
| | `OnlyDeadReadersEverHalt` | `OnlyDeadReadersHalt` |
| | `ReadersAlwaysGetCharacters` | `ReadersGetCharacters` |
| | `ReadersAlwaysBlocked` | `ReadersAreBlocked` |
| | `KeepsTerminalsPromise` | `ImplementsTerminal`, the refinement of `Terminal` |
| `PhilosopherProofs` | `ForksInv` | `IInv`, the inductive invariant |
| | `PhTypesCorrect`, `ForksAlwaysAccounted` | `PhTypeOK`, `ForksAccounted` |
| | `NeighboursAlwaysTakeTurns` | `NeighboursNeverEatTogether` |
| | `ProgramsAlwaysFoundByName` | `ProgramsFoundByName` |
| | `AtoULPrinted` | reading a printed ULONG gives it back |
| | `ArgumentsAlwaysArrive` | `ArgumentsArrive`, given `ArgumentsFit` |

**The scheduler's lists.**  `EveryProcessOnItsList` is not inductive.  First, the
halt: if all lists were right but process 0 blocked, `KepReschedule` would find
nobody to run; so `IdleAwake` says that process 0, while it is known, is never
blocked.  Second, priorities: the list of a ready process is the one its
`Priority` names, so all known processes must have one in range.  Third,
`created` is a state only process 0 is ever current in.  These make up
`Running(k)`, what holds between two calls, and `Inv` adds the quantum.  Inside a
call it does not hold; `Consistent(k, off)` is what does: all lists are right
but for the processes in `off`, which are on none.  The lemmas follow the
functions: enqueueing a process takes it out of `off` (`EnqueueConsistent`),
unlinking puts it in (`RemoveBlocked`, `DequeueReady`), `KepReschedule` exchanges
the running process (`RescheduleAwake`, `RescheduleBlocked`).  One lemma per
action (`StartInv`, `StopInv`, ..., `TimerInv`) and `NextInv` complete it.

The loop that wakes sleepers is a recursive function.  Whatever each of its
iterations keeps, the loop keeps: `WakeUpIterates` shows it for any set of
states, by an induction over a set of naturals (`IterateExists`,
`NatSetInduction`), and each proof that passes the loop gives the set it needs
(`WakeUpStays`, `LoopWakesAllDue`, `TickChooses`).

**The timer.**  Each call keeps the timer list in order and the counter where it
is (`KeepsTime`); the one insertion puts the process behind those that end no
later (`TimerSlotFacts`, `InsertInOrder`), which is where the two comparisons of
the loop, `>` for the head and `<` for the rest, have to agree.  For the tick the
set is `AfterIterations(k, n)`: either the head is not due, or n sleepers have been
woken; as there are no more iterations than sleepers can be, the head is not due
at the end, and in a sorted list (`HeadTellsOfAll`) nobody is.

That sleeps take as long as they were meant to needs both directions: what a tick
wakes was due (`OnlyDueWoken`, kept by each iteration) and what is due is woken.
The invariant between counter and clock is `TimeLeftTold`: of everyone on the timer
list `WakeUpTime - KepTickCount` says what the clock says.  No other call may touch
the `WakeUpTime` of a sleeper or put one on the list, the second half of
`KeepsTime`.  The two theorems have the hypothesis `[]CounterFarFromLimit`, under
which neither sum wraps (`NoWrap`).  As a behaviour may stop at any state, they say
the same of every behaviour up to the moment the counter comes near its limit.
Without the hypothesis the first is false: `sleep_wrap`.

**Who runs.**  `DispatchesHighest` looks at calls that change the current process,
but within a tick it may change, change back and be given another quantum.  So
what each call keeps is `Chosen(k, r)`: either nothing more urgent than the current
process is ready (`UrgentRuns`), or the current one is as it was and nobody more
urgent was woken.  Both are kept by each resume within the loop
(`ResumeKeepsChoice`), and both properties follow.

**Objects.**  `Steady(s, L, H)` is what holds between two calls of the object
manager: s are the objects, L the lives of the processes, H the pointers callers
hold.  The counts are compared with the cardinality of the set of slots that name
the object, which `FilledSlot` and `ClearedSlot` follow through one slot, and
`InheritedFacts` through the table of a new process.  Two parts are there for the
induction only: `Listed` ties the lists to the pointer count rather than to
the references, since within a call the two differ (`DereferenceFacts` is about the
moment in ObCloseHandle when the handle is no longer counted but still in its
slot); and `UnbornAreEmpty` says that a process that is not yet created has an
empty table, for ObInitProcess overwrites what is there without giving it up.
ObKillProcess closes one handle after the other in the table of the *current*
process, guided by the table of the one killed; each iteration keeps `Steady`,
whichever handles these are, so the loop does (`KillStays`).  The theorems are about
the callers' contract in the module.

**Processes.**  `ProcessesProofs` proves the three components together, with the
lemmas of the two modules above: those of `SchedulerProofs` speak of any state of
the scheduler, and those of `ObjectManagerProofs` of any objects, lives and held
pointers, so that both can be cited for the moments inside one call of ps.c when
a process has left the scheduler and its handles are still open.  `Unharmed` is
`Settled`, which holds in a machine that has halted as well (PIDs, signals, who is
in which WaitQueue), and `Works`, which holds while it runs: the scheduler's
invariant, and `Steady` with the lives and the held pointers that the scheduler's
state defines.  Two facts are there for the induction only: an object that exists
is a process the scheduler knows or one that has ended, for else a failed
creation could leave a PID behind; and the WaitQueue of a process that has ended is
empty.  `FreePID` shows that the loop of GetNewPID ends: there are more PIDs than
processes that exist (a pigeonhole argument).  `ResumeAllHealthy` is the loop that
resumes those who waited: they are blocked, each once, and stay so until it is
their turn.  None of this survives the
death of process 0 or of a process that waits, which ps.c does not prevent, so the
inductive invariant is `PsInv`: while nobody is `missed` the state is `Unharmed`;
`MissedForEver` says that nobody is forgotten.  What a theorem claims before such a
death is in its statement or, for `NobodyWaitsForTheDead` and `OnlyMisuseHalts`, in
the property; there is no other hypothesis, whatever `Victims` is.  TLC finds the type
invariant, the references, the PIDs and the lists intact after such a death too.
What the run `killed_waiter` violates is itself a theorem for the states before
(`WaitersAreBlocked`), so such deaths are all that can make a signal meet a process
that is not blocked.  It adds to the invariant that the blocked list and the
`State` fields agree, which has to hold in a halted machine too: `StaysBlocked`
follows the three calls that halt it.

**Messages.**  `WaitingListIntact` speaks of the nodes that can be reached; what
the proofs speak of is a sequence C of nodes and a place l in it: `Ordered(s, C,
l)` says that C is the chain from `first` to NULL, no two of its nodes with the
same owner, and that `last` is its l-th node.  Behind l there may be nodes already
removed: RemoveProcessFromQueue does not cut the link to a last node (finding 4),
so `last = Len(C)` is not invariant and the chain with a place is what makes it
inductive.  `Orderly` adds that the nodes up to l belong to those who receive,
each once, and to processes killed meanwhile.  `RemoveNode` follows a removal
through the chain, in all four branches of the code, and a second one of the same
node with the same `prev`.  A loop over the queue is a recursive function of its
iteration number; `ResumeMethodIs` and `SendMessageIs` say in which state it is
after each iteration: nothing happens before the node of p is met (`PlaceOf`),
nothing behind it.  At the node p is resumed, which calls `ResumeMethod`, which
removes the node with a loop of its own; then MessSendMessage removes it again,
which `DeliverWanted` puts together.  The scheduler's part is `Quiet`: the
scheduler's invariant, and that nobody blocks without a time-out, so
KeResumeProcess always finds a *living* process on the timer list.  A dead one it does
not find: `SendCases` is about any receiver that can be found, and where it is dead
the machine has halted (`DeadHalts`, `SendHalts`), before the queues are changed.  So
`Kept` says that the state is `Orderly`, or was when the machine halted.

The refinement mapping takes what p waits for from *its* node; `NodeIs` says that
there is one, `WaitsSame` and `MailSame` when an entry of the mapping stays what
it is.  Each call then changes the box of one process (`BoxesBut`): `KillClears`,
`SendPuts`, `ReceiveFirstTakes`, `ReceiveTypeTakes`, `DeleteDeletes`; a tick ends
the waits of those whose time is over (`TickTimesOut`).  A message that ends a
receive call stays on the queue in the code but not in the box: `UnlinkAppended`
is why the two agree.

**The serial file** runs on the scheduler without keeping its contract: it resumes
whoever is in `waitingQueue`.  `IoInv` says how far it does keep it: as long as there
was no bug check the scheduler's invariant holds, and the
readers that *live* are on the blocked list.  So a step that halts the machine
resumed a dead one (`DeadReaderHalts`), and everything else is what
`SchedulerProofs` shows of the calls, cited here as lemmas.  The buffer is `Clean`:
characters, then NUL, to the end; the loop of `RemoveFirstCharFromBuffer` moves
the last NUL in from where nothing was ever written.  `ReadersAreBlocked` adds the
order of the two queues, which an unblocking in the middle of one and at the head of
the other must not disturb (the lemmas about `Precedes`).

That every step of io.c is a step of `Terminal` or none (`StepKeepsPromise`) rests on
what its state means to the users: `Typed` is the array up to the length, `Owed` what
is behind the output pointer in all texts, one after the other.  `TypedGet` shows that
the loop which moves the characters takes one off the front, `OwedTransmit` that
the end of a text, where the pointer goes back to the beginning of the next, takes
off one character too.  They need what `FlattenSeq` computes, which is a recursive
function: `FlattenJoins`, by induction over the length, says that it is the one
function that joins a text to what is in front of it.

**The forks.**  The theorems hold for `PhSpec` and for `CommandsSpec`, of which every
step is a step of `PhSpec` or none (`CommandsAreSteps`).  Each fork is in one place at
most: with a philosopher, promised to one, or on its way back; and it is free
exactly when it is in none.  This is not inductive, since the answer to a request
does not name its fork: if a request were granted that its sender made long ago,
the sender would take the fork for another one.  `RequestsAreOfUse` excludes it: a
request in the waiter's queue is for the fork its sender still wants, for one it
has, or for one whose return is behind it in the queue; so when the waiter finds
the fork free it is the wanted one.

**Commands.**  `ShellInv` says that the line being run is one of `Lines`, that the
program is the one named, and that its arguments are those typed, but for what may
follow them.  `SplitTakesWord` says that the first space of what is typed is the
one behind the word.  `FoundHasTheName` is why the comparison of the lengths in
GetProgramAdress is enough.

That the numbers arrive is the work of six routines, four of them recursive in the
model, and a recursive function is known to the provers only once one is shown to
exist.  `RecursionExists` does so for any set and any rank: if each value depends
on those of lower rank alone, the definition applied again and again agrees with
itself from some time on.  With it, printing (`UlongPrinted`, `LongPrinted`), reading
(`AtoULReads`) and the joining of a line (`NumbersJoined`) are what their
definitions say; for the format of the philosophers `FormatEnds` writes the
function down.  `AtoULPrinted` is an induction over the number: the last digit printed is
the last one read, and the sum does not wrap.  What is cut and kept is then a matter of
lengths: 25 characters hold two numbers of ten digits, a space and more
(`TenDigits`), and the digits that may stand behind lost NULs begin after the last
number (`KillHears`, `ChangePrioHears`).

`ArgumentsAlwaysArrive` has one hypothesis, `ArgumentsFit`: the forks have one digit, as
the source has five of them, and the waiter's PID is a LONG with a number of
digits that is no multiple of four.  waiter.c does not see to the latter: a PID of
four digits fills the block of the arguments, its NUL is not kept, and the
philosopher may read another PID.  With PIDs below 1000, as in the run, the
hypothesis holds.  For kill and changeprio nothing is assumed: the case is a premise
of the property.

**Only model-checked**: liveness under fairness (`MostUrgentRuns`, `SleeperWakes`,
`SomebodyEats`, `MealsEndWithTheWaiter`), which is out of reach of the proof system.
The properties of the runs `dead_handles` and `stale_node` are false, and so are
those of `sleep_wrap` and `killed_waiter` without what the theorems suppose.  Every other property that a run
checks is a theorem.

## 5. What is not modelled

* The contents of registers and contexts, of messages but those of the
  philosophers, and of texts; CPU times; the debugger; the list of processes and
  the other calls that only read; the formatting of hexadecimal numbers.
* **Exhausted memory**: `MmAlloc` (mm/mm.c) never returns NULL, and `MmFree`
  does nothing, so a freed PCB or node is never used again.  With the
  allocator of mm/nondynmm.c this would change.
* **Supervision** (`PsSupervise`, ps.c:334): its message is sent by a system
  call from inside a system call, which overwrites the saved context of the
  current process: a matter of the assembly.  So apps/keepalive.c and
  apps/drone.c, which rest on it, are not modelled either, nor the race between
  them: a drone may die before it is supervised.
* **The result of blocking calls**: `KeSetSyscallResult(KeCurrentProcess, F())`
  reads the current process before or after `F`, as the compiler likes.  In
  `Messages` the result is the caller's.
* **PIDs used again** by a process while a node of the receivers' queue still
  carries them (mess.c:158).
* **Messages, objects and the serial file together.**  In `Messages` a process blocks
  only to receive or to sleep, and in `SerialIo` nobody resumes a reader but the
  interrupt.  With the node a receiver leaves behind (finding 4) a message can resume
  a process that has gone on to read, or to wait for an object; it then stays in
  `waitingQueue` or in the WaitQueue, and is resumed a second time when its turn
  comes (mess.c:169).
* **Inheritance** in `Processes`: no call of the kernel makes a handle that is
  inherited.  `ObjectManager` has them.
* apps/ring.c, the scroller, the task manager and the editing of a line by the
  shell; the LCD; the Windows port, the boot code and the assembly.

## 6. Findings

1. **Sleeps across the limit of the tick counter end at once** (scheduler.c:498).
   `WakeUpTime` wraps, and is compared with `<`.  Conversely, a `WakeUpTime`
   within a tick of the limit is never passed and the process never wakes,
   which is why `SleeperWakes` has a premise.
2. **The dead keep their handles, and the next process loses its own**
   (ob.c:311).  `ObKillProcess` closes the handles in the table of
   `KeCurrentProcess`, which is no longer the process that died.
3. **A process killed while it waits stays in the wait queue** (ob.c:609), and
   the signal that comes resumes a process that is on no list: a bug check.
4. **A receiver whose time-out is over can stay linked** (mess.c:80).  Removing
   the last of several nodes leaves the one before it pointing to it; a message
   then ends whatever plain `Sleep` the process has begun.  `WaitingListIntact`
   shows that this is the only kind of damage: nodes as far as `last` are
   exactly right, although each is removed twice when a message is delivered.

Modelled as the code has them, and stated by properties that hold because they
allow them:

* `MessReceiveType` loses every message behind the one it returns (mess.c:239-240,
  249-250): `ReceiveType` of `Mailboxes` may.
* `IoReadSerial` takes a character typed ahead and waits all the same, so that the
  next one overwrites it (io.c:205-208, 260), although the comment at io.c:204 says
  "just return the first char in that buffer": `Ask` of `Terminal` loses it.
* A character that comes for a reader that was killed halts the machine
  (io.c:265), and so do a message to a receiver that was killed and is still referred
  to (mess.c:164-170), a second kill of a process that is dead but has handles
  (ps.c:301) and a priority above 31 in a create call (ps.c:224).
* `PsKillByPID` kills process 0, whose PID is 0, and processes that wait
  (ps.c:286-309); the machine halts when nobody else is ready, and when the object is
  signalled, at once if the process waits for itself.
* `PsChangePriority` never gives its reference up (ps.c:401): the process stays, and
  keeps its PID, when it is dead and without handles.
* Arguments whose length is a multiple of four lose their NUL (ps.c:245), and the
  number at their end may gain digits.

## 7. Plan

Done: the scheduler with its proofs; sleep intervals; the object manager; the
process manager without supervision, with callers that break the scheduler's
contract; messages, and the mailboxes they implement; the serial file and the
terminal it implements; philosophers over mailboxes, and the commands that start
them; strings and arguments.  What is left, from the most valuable:

1. **Supervision** and the nested system call, then keepalive and drone.
2. **PIDs used again** in `Messages`.
3. `Messages`, `SerialIo` and `Processes` on one scheduler, for the processes that a
   left node makes a message resume.
4. apps/ring.c, and GetLine with its editing over `Terminal`.
