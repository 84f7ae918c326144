------------------------------ MODULE Processes ------------------------------
(***************************************************************************)
(* The ARCOS process manager, src/base/ps/ps.c, on top of the scheduler    *)
(* and the object manager: a process is created, killed, looked up by its  *)
(* PID, given a priority and waited for through these calls, each of which *)
(* changes the state of all three.                                         *)
(*                                                                         *)
(* A call runs with interrupts off, in the system call of the current      *)
(* process, so each is one action.  The process objects are the PCBs, and  *)
(* Ob!Exists tells which of them still exist.  A PCB is never used again:  *)
(* MmFree does nothing.                                                    *)
(***************************************************************************)
EXTENDS Scheduler, FiniteSets

CONSTANTS
    NoProcess,         \* the NULL in a free slot of a handle table
    processType,       \* the type object of processes
    AnyType,           \* the NULL ObjectType
    MAX_HANDLE_COUNT,  \* slots of a handle table (256)
    Victims,           \* the kinds of processes PsKillByPID is called for
    CreatePriorities   \* the priorities processes are created with

ASSUME ProcessesAssumption ==
    /\ IsFiniteSet(Process)
    /\ NoProcess \notin Process
    /\ AnyType # processType
    /\ MAX_HANDLE_COUNT \in Nat
    /\ CreatePriorities \subseteq Nat

VARIABLES
    ob,    \* the object manager's state
    ps     \* the PCB fields the process manager owns

vars == <<ke, ob, ps>>

(***************************************************************************)
(* pid is the PID field; exited the set of processes whose ExitStatus is   *)
(* no longer the 654321 of a running process; used the PCBs ever made.     *)
(* Two fields are not state of the code but records of what it forgets:    *)
(* leaked counts the references PsChangePriority took, and missed are the  *)
(* killed processes the kernel still counts on, process 0 and those that   *)
(* were in a WaitQueue.                                                    *)
(***************************************************************************)
PsState ==
    [pid    : [Process -> Nat],
     exited : SUBSET Process,
     used   : SUBSET Process,
     leaked : [Process -> Nat],
     missed : SUBSET Process]

Waits(p)     == Contains(ke.blocked, p)
Scheduled(p) == p \in ke.scheduled

\* The object manager, whose callers' pointers are the scheduler's reference
\* to each process it knows and those that were leaked.
Ob == INSTANCE ObjectManager
      WITH Object    <- Process,
           NoObject  <- NoProcess,
           Types     <- {processType},
           TypeOf    <- [p \in Process |-> processType],
           Inherited <- {},
           HeldLimit <- 1,
           held <- [p \in Process |->
                       ps.leaked[p] + (IF Scheduled(p) THEN 1 ELSE 0)],
           life <- [p \in Process |->
                       IF p \notin ps.used THEN "unborn"
                       ELSE IF ~Scheduled(p) THEN "dead"
                       ELSE IF Waits(p) THEN "asleep" ELSE "awake"]

Exists(p) == Ob!Exists(ob, p)
Halted    == ke.bugcheck \/ ob.bugcheck
-----------------------------------------------------------------------------
\* Faulty variant: dead processes are forgotten.
PIDInUseByTheLiving(pid) == \E p \in Process : Scheduled(p) /\ ps.pid[p] = pid

\* PIDInUse, which walks the list of process objects.
PIDInUse(pid) == \E p \in Process : Exists(p) /\ ps.pid[p] = pid

\* There are never more PIDs in use than processes.
GetNewPID ==
    CHOOSE n \in 1 .. Cardinality(Process) :
        /\ ~PIDInUse(n)
        /\ \A m \in 1 .. n - 1 : PIDInUse(m)

\* The process PsReferenceProcess and PsOpenProcess find; no call changes a
\* PID, so there is one at most.
WithPID(pid) == {p \in Process : Exists(p) /\ ps.pid[p] = pid}

\* PsCreateProcess without a free slot for the handle: the new object is given
\* up again.
CreateFails(p) ==
    LET o == Ob!ObInitProcess(Ob!ObCreateObject(ob, p), ke.current, p)
    IN  /\ Ob!FreeSlots(o, ke.current) = {}
        /\ ob' = Ob!ObDereferenceObject(o, p)
        /\ ps' = [ps EXCEPT !.used = @ \cup {p}, !.pid[p] = GetNewPID]
        /\ UNCHANGED ke

\* Faulty variants: the reference of ObCreateObject is kept; the scheduler takes
\* none; the priority is set when the process is on a queue already.
CreateKeepingReference(p, prio) ==
    LET o == Ob!ObInitProcess(Ob!ObCreateObject(ob, p), ke.current, p)
        h == Ob!ObOpenObjectByPointer(o, ke.current, p, FALSE, processType)
    IN  /\ Ob!FreeSlots(o, ke.current) # {}
        /\ ke' = KeStartSchedulingProcess(NewProcess(ke, p, prio), p)
        /\ ob' = Ob!ObReferenceObject(h, p, AnyType)
        /\ ps' = [ps EXCEPT !.used = @ \cup {p}, !.pid[p] = GetNewPID]
CreateUnreferenced(p, prio) ==
    LET o == Ob!ObInitProcess(Ob!ObCreateObject(ob, p), ke.current, p)
        h == Ob!ObOpenObjectByPointer(o, ke.current, p, FALSE, processType)
    IN  /\ Ob!FreeSlots(o, ke.current) # {}
        /\ ke' = KeStartSchedulingProcess(NewProcess(ke, p, prio), p)
        /\ ob' = Ob!ObDereferenceObject(h, p)
        /\ ps' = [ps EXCEPT !.used = @ \cup {p}, !.pid[p] = GetNewPID]
CreatePriorityLate(p, prio) ==
    LET o == Ob!ObInitProcess(Ob!ObCreateObject(ob, p), ke.current, p)
        h == Ob!ObOpenObjectByPointer(o, ke.current, p, FALSE, processType)
        r == Ob!ObReferenceObject(h, p, AnyType)
        k == KeStartSchedulingProcess(NewProcess(ke, p, 0), p)
    IN  /\ Ob!FreeSlots(o, ke.current) # {}
        /\ ke' = [k EXCEPT !.priority[p] = prio]
        /\ ob' = Ob!ObDereferenceObject(r, p)
        /\ ps' = [ps EXCEPT !.used = @ \cup {p}, !.pid[p] = GetNewPID]

\* The handle, the scheduler's reference, and the end of the reference
\* ObCreateObject returned, unless the priority makes the scheduler halt.
CreateSucceeds(p, prio) ==
    LET o == Ob!ObInitProcess(Ob!ObCreateObject(ob, p), ke.current, p)
        h == Ob!ObOpenObjectByPointer(o, ke.current, p, FALSE, processType)
        r == Ob!ObReferenceObject(h, p, AnyType)
    IN  /\ Ob!FreeSlots(o, ke.current) # {}
        /\ ke' = KeStartSchedulingProcess(NewProcess(ke, p, prio), p)
        /\ ob' = IF ke'.bugcheck THEN r ELSE Ob!ObDereferenceObject(r, p)
        /\ ps' = [ps EXCEPT !.used = @ \cup {p}, !.pid[p] = GetNewPID]

\* KeResumeProcess for each waiter in turn, unless one crashes the machine.
ResumeAll(k, waiters) ==
    LET after[n \in 0 .. Len(waiters)] ==
            IF n = 0
            THEN k
            ELSE IF after[n - 1].bugcheck
            THEN after[n - 1]
            ELSE KeResumeProcess(after[n - 1], waiters[n])
    IN  after[Len(waiters)]

\* Faulty variant: the waiters are not told.
KillWithoutSignal(o, p) ==
    LET referenced == Ob!ObReferenceObject(o, p, processType)
        stopped    == KeStopSchedulingProcess(ke, p)
        released   == Ob!ObDereferenceObject(referenced, p)
        closed     == Ob!ObKillProcess(released, stopped.current, p)
    IN  IF stopped.bugcheck
        THEN [ke |-> stopped, ob |-> referenced, killed |-> {}]
        ELSE [ke |-> stopped, ob |-> Ob!ObDereferenceObject(closed, p), killed |-> {p}]

\* PsKillProcess, from a state of the object manager in which its caller holds
\* a reference.  ObKillProcess runs after KeStopSchedulingProcess, so it finds
\* the process that was chosen to run next as KeCurrentProcess.
PsKillProcess(o, p) ==
    LET referenced == Ob!ObReferenceObject(o, p, processType)
        stopped    == KeStopSchedulingProcess(ke, p)
        released   == Ob!ObDereferenceObject(referenced, p)
        closed     == Ob!ObKillProcess(released, stopped.current, p)
        signalled  == Ob!ObSignalObject(closed, p)
    IN  IF stopped.bugcheck
        THEN [ke |-> stopped, ob |-> referenced, killed |-> {}]
        ELSE [ke |-> ResumeAll(stopped, closed.waiters[p]),
              ob |-> Ob!ObDereferenceObject(signalled, p),
              killed |-> {p}]
-----------------------------------------------------------------------------
\* What PsKillByPID can be given the PID of.
Kind(p) ==
    IF p = Idle THEN "idle"
    ELSE IF ~Scheduled(p) THEN "dead"
    ELSE IF p = ke.current THEN "self"
    ELSE IF ke.state[p] = "ready" THEN "ready"
    ELSE IF Contains(ke.timer, p) THEN "sleeping"
    ELSE "waiting"

\* The kernel counts on process 0, to be there when nobody else is ready, and on
\* the processes ObSignalObject will resume.  PsKillByPID refuses neither.
Needed == {"idle", "waiting"}

\* Process 0 makes the first processes before its first KepReschedule and then
\* only waits for interrupts.
Calls == ~Halted /\ (ke.current # Idle \/ ke.state[Idle] = "created")
CallsLater == ~Halted /\ ke.current # Idle

PsInit ==
    /\ ke = KeInit
    /\ ob = Ob!ObCreateObject(Ob!ObInit, Idle)
    /\ ps = [pid    |-> [p \in Process |-> 0],
             exited |-> {},
             used   |-> {Idle},
             leaked |-> [p \in Process |-> 0],
             missed |-> {}]

PsCreateProcess(p, prio) ==
    /\ Calls
    /\ p \notin ps.used
    /\ CreateFails(p) \/ CreateSucceeds(p, prio)

PsKillMe ==
    LET r == PsKillProcess(ob, ke.current)
    IN  /\ CallsLater
        /\ ke' = r.ke
        /\ ob' = r.ob
        /\ ps' = [ps EXCEPT !.exited = @ \cup r.killed]

PsKillByPID(p) ==
    LET r == PsKillProcess(Ob!ObReferenceObject(ob, p, processType), p)
    IN  /\ CallsLater
        /\ p \in WithPID(ps.pid[p]) /\ Kind(p) \in Victims
        /\ ke' = r.ke
        /\ ob' = IF r.ke.bugcheck THEN r.ob ELSE Ob!ObDereferenceObject(r.ob, p)
        /\ ps' = [ps EXCEPT !.exited = @ \cup r.killed,
                             !.missed = @ \cup {q \in {p} : Kind(q) \in Needed}]

\* The reference PsReferenceProcess takes is never given up.
PsChangePriority(p, prio) ==
    /\ CallsLater
    /\ p \in WithPID(ps.pid[p]) /\ ps.pid[p] > 0
    /\ Kind(p) = "dead" => "dead" \in Victims
    /\ \A q \in Process : ps.leaked[q] = 0   \* bound on the references leaked
    /\ ke' = KeChangeProcessPriority(ke, p, prio)
    /\ ob' = Ob!ObReferenceObject(ob, p, processType)
    /\ ps' = [ps EXCEPT !.leaked[p] = @ + 1]

PsOpenProcess(p) ==
    /\ CallsLater
    /\ p \in WithPID(ps.pid[p])
    /\ ob' = Ob!ObOpenObjectByPointer(ob, ke.current, p, FALSE, processType)
    /\ UNCHANGED <<ke, ps>>

CloseHandle(h) ==
    /\ Calls
    /\ ob' = Ob!ObCloseHandle(ob, ke.current, h)
    /\ UNCHANGED <<ke, ps>>

WaitForSingleObject(h) ==
    /\ CallsLater
    /\ ob' = Ob!ObWaitForSingleObject(ob, ke.current, h)
    /\ ke' = IF Ob!Blocks(ob, ke.current, h) THEN KeBlockProcess(ke) ELSE ke
    /\ UNCHANGED ps

Sleep(ms) ==
    /\ CallsLater
    /\ ke' = KeSuspendProcess(ke, ms, FALSE)
    /\ UNCHANGED <<ob, ps>>

Tick ==
    /\ ~Halted
    /\ ke' = KeHandleTimer(ke)
    /\ UNCHANGED <<ob, ps>>

\* The endless loop of KeBugCheck.
Stopped == Halted /\ UNCHANGED vars

PsNext ==
    \/ Stopped
    \/ \E p \in Process, prio \in CreatePriorities : PsCreateProcess(p, prio)
    \/ PsKillMe
    \/ \E p \in Process : PsKillByPID(p) \/ PsOpenProcess(p)
    \/ \E p \in Process, prio \in NewPriorities : PsChangePriority(p, prio)
    \/ \E h \in Ob!Handle : CloseHandle(h) \/ WaitForSingleObject(h)
    \/ \E ms \in Sleeps : Sleep(ms)
    \/ Tick

PsSpec == PsInit /\ [][PsNext]_vars
-----------------------------------------------------------------------------
PsTypeOK ==
    /\ ke \in KeState
    /\ ob \in Ob!ObState
    /\ ps \in PsState

\* Across creation, failed creation, death and priority changes the reference
\* count of a process is the number of its open handles, plus one while the
\* scheduler knows it, plus what PsChangePriority forgot; and the object
\* exists exactly while that is not 0.  So the scheduler never holds a process
\* that was deleted, and a dead one disappears with its last handle.
ProcessReferencesAccounted ==
    ~Halted => Ob!CountsAreReferences /\ Ob!ExistsWhileReferenced

\* A PID names one process, even while dead processes keep theirs and other
\* numbers are given out again.
PIDsAreUnique ==
    \A p, q \in Process : Exists(p) /\ Exists(q) /\ p # q => ps.pid[p] # ps.pid[q]

\* A call for a process that has died, or with a priority there is no queue for.
Misuse ==
    \/ \E p \in Process : ~Scheduled(p) /\ PsKillByPID(p)
    \/ \E p \in Process, prio \in NewPriorities : ~Scheduled(p) /\ PsChangePriority(p, prio)
    \/ \E p \in Process, prio \in CreatePriorities \ Priorities : PsCreateProcess(p, prio)

\* The process manager keeps the contracts of the scheduler and of the object
\* manager, whatever it does in whatever order, with the exceptions ps.c leaves
\* to its callers.  Until process 0 or a process that waits for an object has been
\* killed, neither manager crashes but in a call that kills a dead process, changes
\* its priority, or creates one with a priority above the highest.  After such a
\* kill the machine may halt in a call that is not to blame: when nobody is ready, or
\* when the object waited for is signalled, which the kill itself does when the
\* process waits for its own end.
HaltsOnlyByMisuse ==
    [][~Halted /\ Halted' => Misuse \/ ps'.missed # {}]_vars

\* Unless a waiter was killed: a process on the list KeBlockProcess fills waits for
\* one process, which has not died, and keeps it in existence by a handle.  Nobody
\* waits for a dead process: it would be for ever.
WaitersWaitForTheLiving ==
    ps.missed = {} =>
        /\ Ob!SleepersAreQueued
        /\ \A p \in Process : ob.waiters[p] # <<>> => Scheduled(p)
        /\ \A p \in Process : Exists(p) /\ ob.signal[p] <=> Exists(p) /\ p \in ps.exited

\* Unless a waiter was killed: a wait ends only by the death of the process waited
\* for.
WaitsEndByDeath ==
    [][ps'.missed = {} =>
         \A p, q \in Process :
             Contains(ob.waiters[q], p) /\ ~Contains(ob'.waiters[q], p) => q \in ps'.exited]_vars

\* docs/process-manager.doc, of killing a process: "3 Ask Obj Manager to
\* release all objects held by process".
DeadHoldNoObjects ==
    \A p \in ps.exited, h \in Ob!Slots : ~Ob!IsOpen(ob, p, h)

\* The ASSERT and the bug check of KeResumeProcess say of the processes
\* ObSignalObject gives it that they are blocked, and on one of its lists.
SignalledProcessesAreBlocked ==
    \A o, p \in Process :
        Exists(o) /\ Contains(ob.waiters[o], p) =>
            /\ ke.state[p] = "blocked"
            /\ Contains(ke.timer, p) \/ Contains(ke.blocked, p)
=============================================================================
