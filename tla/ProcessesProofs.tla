--------------------------- MODULE ProcessesProofs ---------------------------
(***************************************************************************)
(* Proofs about Processes, for every set of processes, every size of the   *)
(* handle tables, every priority and every wait and sleep.  The scheduler  *)
(* and the object manager come with the lemmas of their own proofs: those  *)
(* of SchedulerProofs are about any state of the scheduler, and those of   *)
(* ObjectManagerProofs about any state of the objects and of the processes *)
(* that use them, so that they speak of the states inside one call of ps.c *)
(* too, when a process has left the scheduler and not yet the objects.     *)
(*                                                                         *)
(* ps.c does not see to it that PsKillByPID is given neither process 0 nor *)
(* a process that waits in a WaitQueue.  What is proved is about the       *)
(* states and the steps before that happens, those with ps.missed = {}.    *)
(***************************************************************************)
EXTENDS Processes, SchedulerProofs

ObP == INSTANCE ObjectManagerProofs
       WITH Object    <- Process,
            NoObject  <- NoProcess,
            Types     <- {processType},
            TypeOf    <- [p \in Process |-> processType],
            Inherited <- {},
            HeldLimit <- 1,
            held <- [p \in Process |->
                        ps.leaked[p] + (IF Scheduled(p) THEN 1 ELSE 0)],
            life <- [p \in Process |->
                        IF p \notin ps.used THEN "unborn"
                        ELSE IF ~Scheduled(p) THEN "dead"
                        ELSE IF Waits(p) THEN "asleep" ELSE "awake"]

\* What the object manager sees of the processes, and of the pointers to them,
\* in the state k of the scheduler.
Life(k, used) ==
    [p \in Process |->
        IF p \notin used THEN "unborn"
        ELSE IF p \notin k.scheduled THEN "dead"
        ELSE IF Contains(k.blocked, p) THEN "asleep" ELSE "awake"]

Held(k, leaked) ==
    [p \in Process |-> leaked[p] + (IF p \in k.scheduled THEN 1 ELSE 0)]

\* The parts that hold in a machine that has halted too.
Settled(k, o, s) ==
    /\ k \in KeState /\ o \in Ob!ObState /\ s \in PsState
    /\ ~o.bugcheck
    /\ Idle \in k.scheduled
    /\ k.scheduled \subseteq s.used
    /\ s.exited \subseteq s.used \ k.scheduled
    /\ s.pid[Idle] = 0
    /\ \A p, q \in Process :
          Ob!Exists(o, p) /\ Ob!Exists(o, q) /\ p # q => s.pid[p] # s.pid[q]
    /\ \A p \in Process : Ob!Exists(o, p) => p \in k.scheduled \cup s.exited
    /\ \A p \in Process : o.signal[p] <=> p \in s.exited
    /\ \A p \in Process : o.waiters[p] # <<>> => p \in k.scheduled
    /\ ObP!Queued(o, Life(k, s.used))

\* In a machine that runs the references add up as well.
Works(k, o, s) ==
    /\ Settled(k, o, s)
    /\ Healthy(k)
    /\ ObP!Steady(o, Life(k, s.used), Held(k, s.leaked))

Unharmed == Settled(ke, ob, ps) /\ (~Halted => Works(ke, ob, ps))

\* The inductive invariant.  When a waiter is killed KeStopSchedulingProcess takes it
\* off the blocked list and nobody takes it off the WaitQueue, and no invariant of
\* the three managers together survives that.
PsInv == "missed" \in DOMAIN ps /\ (ps.missed = {} => Unharmed)
-----------------------------------------------------------------------------
\* The assumptions of ObjectManager, of its instance here.
LEMMA Constants ==
    /\ ObP!IsFiniteSet(Process)
    /\ NoProcess \notin Process
    /\ AnyType \notin {processType}
    /\ [p \in Process |-> processType] \in [Process -> {processType}]
    /\ MAX_HANDLE_COUNT \in Nat
    /\ {} \subseteq Process
BY ProcessesAssumption DEF IsFiniteSet, ObP!IsFiniteSet

\* Processes and ObjectManagerProofs each have an instance of ObjectManager: they
\* have the same states, and its functions are the same.
LEMMA SameState ==
    /\ ObP!ObState = Ob!ObState
    /\ \A s, p : ObP!Exists(s, p) = Ob!Exists(s, p)
    /\ \A s, p, h : ObP!IsOpen(s, p, h) = Ob!IsOpen(s, p, h)
BY Zenon DEF ObP!ObState, Ob!ObState, ObP!Entry, Ob!Entry, ObP!Slots, Ob!Slots,
       ObP!Exists, Ob!Exists, ObP!IsOpen, Ob!IsOpen, ObP!Contains, Ob!Contains

LEMMA SameDereference ==
    ASSUME NEW s, NEW o
    PROVE  ObP!ObDereferenceObject(s, o) = Ob!ObDereferenceObject(s, o)
BY Zenon DEF ObP!ObDereferenceObject, Ob!ObDereferenceObject, ObP!Unlink, Ob!Unlink,
       ObP!ObBugCheck, Ob!ObBugCheck, ObP!Exists, Ob!Exists, ObP!Contains, Ob!Contains,
       ObP!RemoveAt, Ob!RemoveAt

LEMMA SameReference ==
    ASSUME NEW s, NEW o, NEW t
    PROVE  ObP!ObReferenceObject(s, o, t) = Ob!ObReferenceObject(s, o, t)
BY Zenon DEF ObP!ObReferenceObject, Ob!ObReferenceObject, ObP!OfType, Ob!OfType

LEMMA SameClose ==
    ASSUME NEW s, NEW c, NEW h
    PROVE  ObP!ObCloseHandle(s, c, h) = Ob!ObCloseHandle(s, c, h)
BY Zenon, SameDereference DEF ObP!ObCloseHandle, Ob!ObCloseHandle, ObP!IsOpen, Ob!IsOpen,
       ObP!NoHandle, Ob!NoHandle, ObP!Slots, Ob!Slots

LEMMA SameKill ==
    ASSUME NEW s, NEW c, NEW p
    PROVE  ObP!ObKillProcess(s, c, p) = Ob!ObKillProcess(s, c, p)
BY SameClose DEF ObP!ObKillProcess, Ob!ObKillProcess, ObP!IsOpen, Ob!IsOpen, ObP!Slots, Ob!Slots

LEMMA SameOpen ==
    ASSUME NEW s, NEW c, NEW o, NEW i, NEW t
    PROVE  ObP!ObOpenObjectByPointer(s, c, o, i, t) = Ob!ObOpenObjectByPointer(s, c, o, i, t)
BY Zenon DEF ObP!ObOpenObjectByPointer, Ob!ObOpenObjectByPointer, ObP!OfType, Ob!OfType,
       ObP!FreeSlots, Ob!FreeSlots, ObP!Lowest, Ob!Lowest, ObP!IsOpen, Ob!IsOpen, ObP!Slots, Ob!Slots

LEMMA SameCreate ==
    ASSUME NEW s, NEW o
    PROVE  ObP!ObCreateObject(s, o) = Ob!ObCreateObject(s, o)
BY Zenon DEF ObP!ObCreateObject, Ob!ObCreateObject

LEMMA SameInitProcess ==
    ASSUME NEW s, NEW c, NEW p
    PROVE  ObP!ObInitProcess(s, c, p) = Ob!ObInitProcess(s, c, p)
BY Zenon DEF ObP!ObInitProcess, Ob!ObInitProcess, ObP!InheritedSlots, Ob!InheritedSlots,
       ObP!InheritedHandles, Ob!InheritedHandles, ObP!IsOpen, Ob!IsOpen, ObP!Slots, Ob!Slots,
       ObP!NoHandle, Ob!NoHandle, ObP!Cardinality, Ob!Cardinality

LEMMA SameNamed ==
    ASSUME NEW s, NEW c, NEW h, NEW t
    PROVE  ObP!Named(s, c, h, t) = Ob!Named(s, c, h, t)
BY Zenon DEF ObP!Named, Ob!Named, ObP!IsOpen, Ob!IsOpen, ObP!OfType, Ob!OfType, ObP!Slots, Ob!Slots

LEMMA SameWait ==
    ASSUME NEW s, NEW c, NEW h
    PROVE  /\ ObP!ObWaitForSingleObject(s, c, h) = Ob!ObWaitForSingleObject(s, c, h)
           /\ ObP!Blocks(s, c, h) = Ob!Blocks(s, c, h)
BY Zenon, SameNamed, SameReference, SameDereference
   DEF ObP!ObWaitForSingleObject, Ob!ObWaitForSingleObject, ObP!Blocks, Ob!Blocks,
       ObP!ObReferenceObjectByHandle, Ob!ObReferenceObjectByHandle

LEMMA SameSignal ==
    ASSUME NEW s, NEW o
    PROVE  ObP!ObSignalObject(s, o) = Ob!ObSignalObject(s, o)
BY Zenon DEF ObP!ObSignalObject, Ob!ObSignalObject

\* What the invariant of the object manager says, in the terms of Processes.
LEMMA SteadyFacts ==
    ASSUME NEW s, NEW L, NEW H, ObP!Steady(s, L, H)
    PROVE  /\ s \in Ob!ObState /\ ~s.bugcheck
           /\ L \in [Process -> Ob!Lives] /\ H \in [Process -> Nat]
           /\ ObP!Queued(s, L)
           /\ \A p \in Process : s.pointers[p] \in Nat
           /\ \A p \in Process : Ob!Exists(s, p) <=> s.pointers[p] # 0
           /\ \A p \in Process : H[p] > 0 => s.pointers[p] # 0
<1>1. s \in Ob!ObState /\ ~s.bugcheck
    BY SameState DEF ObP!Steady, ObP!Sound
<1>2. ASSUME NEW p \in Process PROVE Ob!Exists(s, p) <=> s.pointers[p] # 0
    <2>1. [q \in Process |-> processType][p] = processType
        OBVIOUS
    <2>2. ObP!Contains(s.ofType[processType], p) <=> s.pointers[p] # 0
        BY <2>1 DEF ObP!Steady, ObP!Sound, ObP!Listed
    <2>3. Ob!Exists(s, p) = Ob!Contains(s.ofType[processType], p)
        BY <2>1 DEF Ob!Exists
    <2> QED BY <2>2, <2>3 DEF Ob!Contains, ObP!Contains
<1>3. L \in [Process -> Ob!Lives] /\ H \in [Process -> Nat] /\ ObP!Queued(s, L)
    BY DEF ObP!Steady, ObP!Lives, Ob!Lives
<1>4. ASSUME NEW p \in Process
      PROVE  s.pointers[p] \in Nat /\ (H[p] > 0 => s.pointers[p] # 0)
    <2>1. s.pointers[p] \in Nat /\ s.handles[p] \in Nat /\ H[p] \in Nat
        BY <1>1, <1>3 DEF Ob!ObState
    <2>2. s.pointers[p] = s.handles[p] + H[p]
        BY DEF ObP!Steady, ObP!Sound, ObP!Counted
    <2> QED BY <2>1, <2>2
<1>5. \A p \in Process : s.pointers[p] \in Nat
    BY <1>4
<1>6. \A p \in Process : H[p] > 0 => s.pointers[p] # 0
    BY <1>4
<1>7. \A p \in Process : Ob!Exists(s, p) <=> s.pointers[p] # 0
    BY <1>2, Zenon
<1> QED BY <1>1, <1>3, <1>5, <1>6, <1>7, Zenon

\* Nobody is signalled or told, and nothing comes into existence.
Frame(s, r) ==
    /\ r.signal = s.signal
    /\ r.waiters = s.waiters
    /\ \A q \in Process : r.pointers[q] # 0 => s.pointers[q] # 0

\* Each function of the object manager that ps.c calls keeps the invariant of
\* ObjectManagerProofs, and changes no more than Frame allows.
LEMMA DereferenceFrame ==
    ASSUME NEW m, m.pointers \in [Process -> Nat], NEW o \in Process
    PROVE  /\ Frame(m, Ob!ObDereferenceObject(m, o))
           /\ Ob!ObDereferenceObject(m, o).handles = m.handles
<1> DEFINE P == [m.pointers EXCEPT ![o] = @ - 1]
           d == [m EXCEPT !.pointers = P]
           F == [d.ofType EXCEPT ![[p \in Process |-> processType][o]] =
                    Ob!RemoveAt(d.ofType[[p \in Process |-> processType][o]],
                        CHOOSE i \in DOMAIN d.ofType[[p \in Process |-> processType][o]] :
                            d.ofType[[p \in Process |-> processType][o]][i] = o)]
           r == Ob!ObDereferenceObject(m, o)
<1>1. /\ d.signal = m.signal /\ d.waiters = m.waiters /\ d.handles = m.handles
      /\ d.pointers = P \/ d.pointers = m.pointers
    OBVIOUS
<1>2. [m EXCEPT !.pointers[o] = @ - 1] = d
    OBVIOUS
<1> HIDE DEF P, d
<1>3. ASSUME m.pointers[o] = 0 \/ m.handles[o] >= m.pointers[o]
      PROVE  Frame(m, r) /\ r.handles = m.handles
    <2>1. r = [m EXCEPT !.bugcheck = TRUE]
        BY <1>3 DEF Ob!ObDereferenceObject, Ob!ObBugCheck
    <2>2. /\ [m EXCEPT !.bugcheck = TRUE].signal = m.signal
          /\ [m EXCEPT !.bugcheck = TRUE].waiters = m.waiters
          /\ [m EXCEPT !.bugcheck = TRUE].pointers = m.pointers
          /\ [m EXCEPT !.bugcheck = TRUE].handles = m.handles
        OBVIOUS
    <2> HIDE DEF r
    <2>3. /\ r.signal = m.signal /\ r.waiters = m.waiters
          /\ r.pointers = m.pointers /\ r.handles = m.handles
        BY <2>1, <2>2, Zenon
    <2> QED BY <2>3 DEF Frame
<1>4. ASSUME ~(m.pointers[o] = 0 \/ m.handles[o] >= m.pointers[o])
      PROVE  Frame(m, r) /\ r.handles = m.handles
    <2>1. r \in {Ob!Unlink(d, o), d}
        BY <1>2, <1>4 DEF Ob!ObDereferenceObject
    <2>2. Ob!Unlink(d, o) \in {[d EXCEPT !.ofType = F], [d EXCEPT !.bugcheck = TRUE]}
        BY DEF Ob!Unlink, Ob!ObBugCheck
    <2> HIDE DEF r, F
    <2>3. /\ [d EXCEPT !.ofType = F].signal = d.signal
          /\ [d EXCEPT !.ofType = F].waiters = d.waiters
          /\ [d EXCEPT !.ofType = F].pointers = d.pointers
          /\ [d EXCEPT !.ofType = F].handles = d.handles
          /\ [d EXCEPT !.bugcheck = TRUE].signal = d.signal
          /\ [d EXCEPT !.bugcheck = TRUE].waiters = d.waiters
          /\ [d EXCEPT !.bugcheck = TRUE].pointers = d.pointers
          /\ [d EXCEPT !.bugcheck = TRUE].handles = d.handles
        OBVIOUS
    <2>4. /\ r.signal = d.signal /\ r.waiters = d.waiters
          /\ r.pointers = d.pointers /\ r.handles = d.handles
        BY <2>1, <2>2, <2>3
    <2>5. \A q \in Process : P[q] # 0 => m.pointers[q] # 0
        BY <1>4 DEF P
    <2> QED BY <1>1, <2>4, <2>5 DEF Frame
<1> HIDE DEF r
<1>5. Frame(m, r) /\ r.handles = m.handles
    BY <1>3, <1>4
<1> QED BY <1>5 DEF r

LEMMA DereferenceWorks ==
    ASSUME NEW s, NEW L, NEW H, ObP!Steady(s, L, H), NEW o \in Process, H[o] > 0
    PROVE  /\ ObP!Steady(Ob!ObDereferenceObject(s, o), L, [H EXCEPT ![o] = @ - 1])
           /\ Frame(s, Ob!ObDereferenceObject(s, o))
           /\ Ob!ObDereferenceObject(s, o).handles = s.handles
<1>1. ObP!Steady(ObP!ObDereferenceObject(s, o), L, [H EXCEPT ![o] = @ - 1])
    BY Constants, ObP!DereferenceSteady
<1>2. s \in Ob!ObState
    BY SteadyFacts
<1>3. Frame(s, Ob!ObDereferenceObject(s, o)) /\ Ob!ObDereferenceObject(s, o).handles = s.handles
    BY <1>2, DereferenceFrame DEF Ob!ObState
<1> QED BY <1>1, <1>3, SameDereference

LEMMA CloseWorks ==
    ASSUME NEW s, NEW L, NEW H, ObP!Steady(s, L, H),
           NEW c \in Process, L[c] = "awake", NEW h
    PROVE  ObP!Steady(Ob!ObCloseHandle(s, c, h), L, H) /\ Frame(s, Ob!ObCloseHandle(s, c, h))
<1>1. ObP!Steady(ObP!ObCloseHandle(s, c, h), L, H)
    BY Constants, ObP!CloseSteady
<1>2. ObP!Steady(Ob!ObCloseHandle(s, c, h), L, H)
    BY <1>1, SameClose
<1>3. s \in Ob!ObState
    BY SteadyFacts
<1>4. CASE ~Ob!IsOpen(s, c, h)
    BY <1>2, <1>4 DEF Ob!ObCloseHandle, Frame
<1>5. CASE Ob!IsOpen(s, c, h)
    <2> DEFINE o  == s.table[c][h].object
               hs == [s.handles EXCEPT ![o] = @ - 1]
               d  == Ob!ObDereferenceObject([s EXCEPT !.handles = hs], o)
               T  == [d.table EXCEPT ![c][h] = Ob!NoHandle]
    <2>1. o \in Process
        BY <1>3, <1>5 DEF Ob!ObState, Ob!Entry, Ob!IsOpen
    <2>2. [s EXCEPT !.handles[o] = @ - 1] = [s EXCEPT !.handles = hs]
        BY <1>3 DEF Ob!ObState
    <2>3. Frame(s, d)
        <3> DEFINE m == [s EXCEPT !.handles = hs]
        <3>1. m.signal = s.signal /\ m.waiters = s.waiters /\ m.pointers = s.pointers
            OBVIOUS
        <3>2. m.pointers \in [Process -> Nat]
            BY <1>3, <3>1 DEF Ob!ObState
        <3> HIDE DEF o, hs, m
        <3>3. Frame(m, Ob!ObDereferenceObject(m, o))
            BY <2>1, <3>2, DereferenceFrame
        <3> QED BY <3>1, <3>3 DEF Frame, m
    <2>4. Ob!ObCloseHandle(s, c, h) = IF d.bugcheck THEN d ELSE [d EXCEPT !.table[c][h] = Ob!NoHandle]
        BY <1>5, <2>2 DEF Ob!ObCloseHandle
    <2> HIDE DEF d
    <2>5. /\ [d EXCEPT !.table[c][h] = Ob!NoHandle].signal = d.signal
          /\ [d EXCEPT !.table[c][h] = Ob!NoHandle].waiters = d.waiters
          /\ [d EXCEPT !.table[c][h] = Ob!NoHandle].pointers = d.pointers
        OBVIOUS
    <2> QED BY <1>2, <2>3, <2>4, <2>5 DEF Frame
<1> QED BY <1>4, <1>5

LEMMA KillWorks ==
    ASSUME NEW s, NEW L, NEW H, ObP!Steady(s, L, H),
           NEW c \in Process, L[c] = "awake", NEW p
    PROVE  ObP!Steady(Ob!ObKillProcess(s, c, p), L, H) /\ Frame(s, Ob!ObKillProcess(s, c, p))
<1> DEFINE S == {x \in Ob!ObState : ObP!Steady(x, L, H) /\ Frame(s, x)}
<1>1. s \in S
    BY SteadyFacts DEF Frame
<1>2. ASSUME NEW x \in S, NEW n \in Nat PROVE ObP!CloseNext(x, c, p, n) \in S
    <2>1. /\ ObP!Steady(Ob!ObCloseHandle(x, c, n), L, H)
          /\ Frame(x, Ob!ObCloseHandle(x, c, n))
        BY CloseWorks
    <2>2. Ob!ObCloseHandle(x, c, n) \in Ob!ObState
        BY <2>1, SteadyFacts
    <2>3. Frame(s, x)
        OBVIOUS
    <2>4. Frame(s, Ob!ObCloseHandle(x, c, n))
        BY <2>1, <2>3 DEF Frame
    <2>5. Ob!ObCloseHandle(x, c, n) \in S
        BY <2>1, <2>2, <2>4
    <2>6. ObP!CloseNext(x, c, p, n) \in {Ob!ObCloseHandle(x, c, n), x}
        BY SameClose DEF ObP!CloseNext
    <2> QED BY <2>5, <2>6, <1>2
<1>3. ObP!ObKillProcess(s, c, p) \in S
    <2> HIDE DEF S
    <2> QED BY <1>1, <1>2, Constants, ObP!KillStays
<1>4. Ob!ObKillProcess(s, c, p) \in S
    BY <1>3, SameKill
<1> QED BY <1>4

LEMMA ReferenceWorks ==
    ASSUME NEW s, NEW L, NEW H, ObP!Steady(s, L, H), NEW o \in Process, s.pointers[o] # 0,
           NEW t \in {processType, AnyType}
    PROVE  /\ ObP!Steady(Ob!ObReferenceObject(s, o, t), L, [H EXCEPT ![o] = @ + 1])
           /\ Frame(s, Ob!ObReferenceObject(s, o, t))
           /\ Ob!ObReferenceObject(s, o, t).table = s.table
<1>1. [p \in Process |-> processType][o] = processType
    OBVIOUS
<1>2. ObP!OfType(o, t) /\ Ob!OfType(o, t)
    BY <1>1 DEF ObP!OfType, Ob!OfType
<1>3. ObP!Steady(ObP!ObReferenceObject(s, o, t), L, [H EXCEPT ![o] = @ + 1])
    BY <1>2, Constants, ObP!ReferenceSteady
<1>4. s.pointers \in [Process -> Nat]
    BY SteadyFacts DEF Ob!ObState
<1> DEFINE P == [s.pointers EXCEPT ![o] = @ + 1]
           r == [s EXCEPT !.pointers = P]
<1>5. Ob!ObReferenceObject(s, o, t) = r
    BY <1>2 DEF Ob!ObReferenceObject
<1>6. r.signal = s.signal /\ r.waiters = s.waiters /\ (r.pointers = P \/ r.pointers = s.pointers)
      /\ r.table = s.table
    OBVIOUS
<1>7. \A q \in Process : P[q] # 0 => s.pointers[q] # 0
    BY <1>4
<1> HIDE DEF P, r
<1>8. Frame(s, r)
    BY <1>6, <1>7 DEF Frame
<1> QED BY <1>3, <1>5, <1>6, <1>8, SameReference

LEMMA OpenWorks ==
    ASSUME NEW s, NEW L, NEW H, ObP!Steady(s, L, H),
           NEW c \in Process, L[c] = "awake", NEW o \in Process, s.pointers[o] # 0
    PROVE  LET r == Ob!ObOpenObjectByPointer(s, c, o, FALSE, processType)
           IN  ObP!Steady(r, L, H) /\ Frame(s, r)
<1> DEFINE r == Ob!ObOpenObjectByPointer(s, c, o, FALSE, processType)
           e == [object |-> o, inherit |-> FALSE]
           h == Ob!Lowest(Ob!FreeSlots(s, c))
           P == [s.pointers EXCEPT ![o] = @ + 1]
           T == [s.table EXCEPT ![c][h] = e]
           N == [s.handles EXCEPT ![o] = @ + 1]
           x == [s EXCEPT !.table = T, !.handles = N, !.pointers = P]
<1>1. ObP!Exists(s, o)
    BY SteadyFacts, SameState
<1>2. ObP!Steady(ObP!ObOpenObjectByPointer(s, c, o, FALSE, processType), L, H)
    BY <1>1, Constants, ObP!OpenSteady
<1>3. ObP!Steady(r, L, H)
    BY <1>2, SameOpen
<1>4. s.pointers \in [Process -> Nat]
    BY SteadyFacts DEF Ob!ObState
<1>5. r \in {s, x}
    BY DEF Ob!ObOpenObjectByPointer
<1>6. x.signal = s.signal /\ x.waiters = s.waiters /\ (x.pointers = P \/ x.pointers = s.pointers)
    OBVIOUS
<1>7. \A q \in Process : P[q] # 0 => s.pointers[q] # 0
    BY <1>4
<1> HIDE DEF P, x, r
<1>8. Frame(s, r)
    BY <1>5, <1>6, <1>7 DEF Frame
<1> QED BY <1>3, <1>8 DEF r

LEMMA CreateWorks ==
    ASSUME NEW s, NEW L, NEW H, ObP!Steady(s, L, H), NEW o \in Process, s.pointers[o] = 0
    PROVE  LET r == Ob!ObCreateObject(s, o)
           IN  /\ ObP!Steady(r, L, [H EXCEPT ![o] = 1])
               /\ r.signal = [s.signal EXCEPT ![o] = FALSE]
               /\ r.waiters = [s.waiters EXCEPT ![o] = <<>>]
               /\ r.handles = [s.handles EXCEPT ![o] = 0]
               /\ \A q \in Process : r.pointers[q] # 0 => s.pointers[q] # 0 \/ q = o
<1> DEFINE r  == Ob!ObCreateObject(s, o)
           Ps == [s.pointers EXCEPT ![o] = 1]
           Hs == [s.handles EXCEPT ![o] = 0]
           Ss == [s.signal EXCEPT ![o] = FALSE]
           Ws == [s.waiters EXCEPT ![o] = <<>>]
           Fs == [s.ofType EXCEPT ![[p \in Process |-> processType][o]] = <<o>> \o @]
<1>1. ~ObP!Exists(s, o)
    BY SteadyFacts, SameState
<1>2. ObP!Steady(ObP!ObCreateObject(s, o), L, [H EXCEPT ![o] = 1])
    BY <1>1, Constants, ObP!CreateSteady
<1>3. ObP!Steady(r, L, [H EXCEPT ![o] = 1])
    BY <1>2, SameCreate
<1>4. s \in Ob!ObState /\ s.pointers \in [Process -> Nat]
    BY SteadyFacts DEF Ob!ObState
<1>5. r = [s EXCEPT !.pointers = Ps, !.handles = Hs, !.signal = Ss, !.waiters = Ws, !.ofType = Fs]
    BY DEF Ob!ObCreateObject
<1>6. \A q \in Process : Ps[q] # 0 => s.pointers[q] # 0 \/ q = o
    BY <1>4
<1> HIDE DEF r, Ps, Hs, Ss, Ws, Fs
<1>7. r.pointers = Ps /\ r.handles = Hs /\ r.signal = Ss /\ r.waiters = Ws
    BY <1>4, <1>5 DEF Ob!ObState
<1> QED BY <1>3, <1>6, <1>7 DEF r, Ps, Hs, Ss, Ws

\* A process inherits nothing: no handle in this system is inheritable.
LEMMA InitWorks ==
    ASSUME NEW s, NEW L, NEW H, ObP!Steady(s, L, H),
           NEW c \in Process, L[c] = "awake", NEW p \in Process, L[p] = "unborn"
    PROVE  LET r == Ob!ObInitProcess(s, c, p)
           IN  /\ ObP!Steady(r, [L EXCEPT ![p] = "awake"], H)
               /\ Frame(s, r)
               /\ \A q \in Process : s.handles[q] = 0 => r.handles[q] = 0
<1> DEFINE r  == Ob!ObInitProcess(s, c, p)
           Tn == [h \in ObP!Slots |-> IF h \in ObP!InheritedSlots(s, c)
                                      THEN s.table[c][h] ELSE ObP!NoHandle]
           Tb == [s.table EXCEPT ![p] = Tn]
           Hs == [o \in Process |-> s.handles[o] + ObP!InheritedHandles(s, c, o)]
           Ps == [o \in Process |-> s.pointers[o] + ObP!InheritedHandles(s, c, o)]
<1>1. ObP!Steady(ObP!ObInitProcess(s, c, p), [L EXCEPT ![p] = "awake"], H)
    BY Constants, ObP!InitProcessSteady
<1>2. ObP!Steady(r, [L EXCEPT ![p] = "awake"], H)
    BY <1>1, SameInitProcess
<1>3. s \in Ob!ObState
    BY SteadyFacts
<1>4. s \in ObP!ObState /\ s.pointers \in [Process -> Nat] /\ s.handles \in [Process -> Nat]
    BY <1>3, SameState DEF Ob!ObState
<1>5. \A h \in ObP!Slots : s.table[p][h] = ObP!NoHandle
    BY DEF ObP!Steady, ObP!UnbornAreEmpty
<1>6. r = [s EXCEPT !.table = Tb, !.handles = Hs, !.pointers = Ps]
    BY SameInitProcess DEF ObP!ObInitProcess
<1> HIDE DEF r, Tn
<1>7. r.table = Tb /\ r.handles = Hs /\ r.pointers = Ps /\ r.signal = s.signal /\ r.waiters = s.waiters
    BY <1>4, <1>6 DEF ObP!ObState
<1>8. ASSUME NEW q \in Process, s.handles[q] = 0 PROVE ObP!InheritedHandles(s, c, q) = 0
    <2>1. ObP!HandlesTo(s, q) = {}
        <3>1. ObP!Cardinality(ObP!HandlesTo(s, q)) = 0
            BY <1>8 DEF ObP!Steady, ObP!Sound, ObP!Counted
        <3> QED BY <3>1, Constants, ObP!HandlesFinite
    <2>2. \A h \in ObP!Slots : <<c, h>> \notin ObP!HandlesTo(s, q)
        BY <2>1
    <2>3. \A h \in ObP!Slots : s.table[c][h].object # q
        BY <2>2 DEF ObP!HandlesTo
    <2>4. {h \in ObP!InheritedSlots(s, c) : s.table[c][h].object = q} = {}
        BY <2>3 DEF ObP!InheritedSlots
    <2> QED BY <2>4, ObP!FS_EmptySet DEF ObP!InheritedHandles
<1>9. \A q \in Process : s.handles[q] = 0 => r.handles[q] = 0
    BY <1>7, <1>8
<1>10. ASSUME NEW q \in Process, s.pointers[q] = 0 PROVE r.pointers[q] = 0
    <2>1. s.pointers[q] = s.handles[q] + H[q] /\ H[q] \in Nat /\ s.handles[q] \in Nat
        BY <1>4 DEF ObP!Steady, ObP!Sound, ObP!Counted
    <2>2. s.handles[q] = 0
        BY <1>10, <2>1
    <2> QED BY <1>7, <1>8, <1>10, <2>2
<1>11. Frame(s, r)
    BY <1>7, <1>10 DEF Frame
<1> QED BY <1>2, <1>9, <1>11 DEF r

\* The waiters of a signalled object wake.
LEMMA SignalWorks ==
    ASSUME NEW s, NEW L, NEW H, ObP!Steady(s, L, H), NEW o \in Process
    PROVE  LET r == Ob!ObSignalObject(s, o)
           IN  /\ ObP!Steady(r, [p \in Process |-> IF Contains(s.waiters[o], p)
                                                   THEN "awake" ELSE L[p]], H)
               /\ r.signal = [s.signal EXCEPT ![o] = TRUE]
               /\ r.waiters = [s.waiters EXCEPT ![o] = <<>>]
               /\ r.pointers = s.pointers
<1> DEFINE r  == Ob!ObSignalObject(s, o)
           Ss == [s.signal EXCEPT ![o] = TRUE]
           Ws == [s.waiters EXCEPT ![o] = <<>>]
           M  == [p \in Process |-> IF Contains(s.waiters[o], p) THEN "awake" ELSE L[p]]
<1>1. ObP!Steady(ObP!ObSignalObject(s, o),
                 [p \in Process |-> IF ObP!Contains(s.waiters[o], p) THEN "awake" ELSE L[p]], H)
    BY Constants, ObP!SignalSteady
<1>2. ObP!Steady(r, M, H)
    BY <1>1, SameSignal DEF Contains, ObP!Contains
<1>3. s \in Ob!ObState
    BY SteadyFacts
<1>4. r = [s EXCEPT !.signal = Ss, !.waiters = Ws]
    BY DEF Ob!ObSignalObject
<1> HIDE DEF r, Ss, Ws
<1>5. r.signal = Ss /\ r.waiters = Ws /\ r.pointers = s.pointers
    BY <1>3, <1>4 DEF Ob!ObState
<1> QED BY <1>2, <1>5 DEF r, Ss, Ws

\* The caller falls asleep in the WaitQueue of an object that is not signalled
\* yet, or goes on; nobody leaves a WaitQueue.
LEMMA WaitWorks ==
    ASSUME NEW s, NEW L, NEW H, ObP!Steady(s, L, H),
           NEW c \in Process, L[c] = "awake", NEW h
    PROVE  LET r == Ob!ObWaitForSingleObject(s, c, h)
           IN  /\ ObP!Steady(r, IF Ob!Blocks(s, c, h) THEN [L EXCEPT ![c] = "asleep"] ELSE L, H)
               /\ r.signal = s.signal
               /\ \A q \in Process : r.pointers[q] # 0 => s.pointers[q] # 0
               /\ \A q \in Process : r.waiters[q] # <<>> =>
                     s.waiters[q] # <<>> \/ (s.pointers[q] # 0 /\ ~s.signal[q])
               /\ \A q, x \in Process : Contains(s.waiters[q], x) => Contains(r.waiters[q], x)
<1> DEFINE r == Ob!ObWaitForSingleObject(s, c, h)
           o == Ob!Named(s, c, h, AnyType)
           m == Ob!ObReferenceObjectByHandle(s, c, h, AnyType)
           Ws == [m.waiters EXCEPT ![o] = <<c>> \o @]
           n == [m EXCEPT !.waiters = Ws]
<1>1. ObP!Steady(ObP!ObWaitForSingleObject(s, c, h),
                 IF ObP!Blocks(s, c, h) THEN [L EXCEPT ![c] = "asleep"] ELSE L, H)
    BY Constants, ObP!WaitSteady
<1>2. ObP!Steady(r, IF Ob!Blocks(s, c, h) THEN [L EXCEPT ![c] = "asleep"] ELSE L, H)
    BY <1>1, SameWait
<1>3. s \in Ob!ObState
    BY SteadyFacts
<1>4. /\ s.pointers \in [Process -> Nat] /\ s.waiters \in [Process -> Seq(Process)]
      /\ s.signal \in [Process -> BOOLEAN]
    BY <1>3 DEF Ob!ObState
<1>5. CASE o = NoProcess
    <2>1. r = s
        BY <1>5 DEF Ob!ObWaitForSingleObject
    <2> HIDE DEF r
    <2>2. \A q \in Process : r.waiters[q] # <<>> => s.waiters[q] # <<>>
        BY <2>1
    <2> QED BY <1>2, <2>1, <2>2 DEF r
<1>6. CASE o # NoProcess
    <2>1. ObP!Named(s, c, h, AnyType) # NoProcess
        BY <1>6, SameNamed
    <2>2. o \in Process /\ s.pointers[o] # 0
        BY <2>1, SameNamed, Constants, ObP!NamedExists
    <2>3. m = Ob!ObReferenceObject(s, o, AnyType)
        BY <1>6 DEF Ob!ObReferenceObjectByHandle
    <2> HIDE DEF m, o
    <2>4. Frame(s, m) /\ m \in Ob!ObState
        <3>1. /\ ObP!Steady(m, L, [H EXCEPT ![o] = @ + 1]) /\ Frame(s, m)
            BY <2>2, <2>3, ReferenceWorks
        <3> QED BY <3>1, SteadyFacts
    <2>5. m.pointers \in [Process -> Nat] /\ m.signal = s.signal /\ m.waiters = s.waiters
        BY <2>4 DEF Frame, Ob!ObState
    <2>6. r = IF s.signal[o] THEN Ob!ObDereferenceObject(m, o) ELSE Ob!ObDereferenceObject(n, o)
        BY <1>6 DEF Ob!ObWaitForSingleObject, m, o
    <2>7. n.pointers = m.pointers /\ n.signal = m.signal
        OBVIOUS
    <2>8. n.waiters = Ws
        BY <2>4 DEF Ob!ObState
    <2> HIDE DEF n, r
    <2>9. CASE s.signal[o]
        <3>1. Frame(m, r)
            BY <2>2, <2>5, <2>6, <2>9, DereferenceFrame
        <3>2. /\ r.signal = s.signal /\ r.waiters = s.waiters
              /\ \A q \in Process : r.pointers[q] # 0 => s.pointers[q] # 0
            BY <2>4, <2>5, <3>1 DEF Frame
        <3> QED BY <1>2, <3>2 DEF r
    <2>10. CASE ~s.signal[o]
        <3>1. Frame(n, r)
            BY <2>2, <2>5, <2>6, <2>7, <2>10, DereferenceFrame
        <3>2. /\ r.signal = s.signal /\ r.waiters = Ws
              /\ \A q \in Process : r.pointers[q] # 0 => s.pointers[q] # 0
            BY <2>4, <2>5, <2>7, <2>8, <3>1 DEF Frame
        <3>3. \A q \in Process : Ws[q] = IF q = o THEN <<c>> \o s.waiters[q] ELSE s.waiters[q]
            BY <1>4, <2>5
        <3> HIDE DEF Ws
        <3>4. \A q \in Process : r.waiters[q] # <<>> =>
                     s.waiters[q] # <<>> \/ (s.pointers[q] # 0 /\ ~s.signal[q])
            BY <2>2, <2>10, <3>2, <3>3
        <3>5. ASSUME NEW q \in Process, NEW x \in Process, Contains(s.waiters[q], x)
              PROVE  Contains(r.waiters[q], x)
            <4>1. ~Contains(s.waiters[q], c) /\ IsInjective(s.waiters[q])
                BY DEF ObP!Steady, ObP!Queued, ObP!Contains, Contains, ObP!IsInjective, IsInjective
            <4>2. s.waiters[q] \in Seq(Process)
                BY <1>4
            <4>3. Contains(<<c>> \o s.waiters[q], x)
                BY <3>5, <4>1, <4>2, PrependFacts
            <4> QED BY <3>2, <3>3, <3>5, <4>3
        <3> QED BY <1>2, <3>2, <3>4, <3>5 DEF r
    <2> QED BY <2>9, <2>10
<1> QED BY <1>5, <1>6
-----------------------------------------------------------------------------
\* The loop over the waiters of ObSignalObject.
LEMMA ResumeAllHealthy ==
    ASSUME NEW k, Healthy(k), NEW w \in Seq(Process), IsInjective(w),
           \A x : Contains(w, x) => Contains(k.blocked, x)
    PROVE  LET r == ResumeAll(k, w)
           IN  /\ Healthy(r) /\ ~r.bugcheck
               /\ r.scheduled = k.scheduled
               /\ \A x : Contains(r.blocked, x) <=> Contains(k.blocked, x) /\ ~Contains(w, x)
<1> DEFINE Good(n, x) == /\ Healthy(x)
                         /\ x.scheduled = k.scheduled
                         /\ \A y : Contains(x.blocked, y) <=>
                               Contains(k.blocked, y) /\ \A i \in 1 .. n : w[i] # y
           Go(n, x) == IF n < Len(w) /\ Good(n, x) THEN KeResumeProcess(x, w[n + 1]) ELSE x
           Def(f) == [n \in 0 .. Len(w) |->
                        IF n = 0
                        THEN k
                        ELSE IF f[n - 1].bugcheck
                        THEN f[n - 1]
                        ELSE KeResumeProcess(f[n - 1], w[n])]
           g == CHOOSE f : f = Def(f)
           E(f) == {n \in Nat : n <= Len(w) => Good(n, f[n])}
<1>1. Len(w) \in Nat
    OBVIOUS
<1>2. Good(0, k)
    OBVIOUS
<1>3. ASSUME NEW n \in Nat, n < Len(w), NEW x, Good(n, x)
      PROVE  ~x.bugcheck /\ Good(n + 1, KeResumeProcess(x, w[n + 1]))
    <2> DEFINE p == w[n + 1]
               r == KeResumeProcess(x, p)
    <2>1. n + 1 \in 1 .. Len(w) /\ DOMAIN w = 1 .. Len(w)
        BY <1>1, <1>3
    <2>2. p \in Process /\ Contains(w, p)
        BY <2>1 DEF Contains
    <2>3. \A i \in 1 .. n : i \in 1 .. Len(w) /\ i # n + 1
        BY <1>1, <1>3
    <2>4. \A i \in 1 .. n : w[i] # p
        BY <2>1, <2>3 DEF IsInjective
    <2>5. Contains(x.blocked, p)
        BY <1>3, <2>2, <2>4
    <2>6. /\ p \in x.scheduled /\ x.state[p] = "blocked" /\ ~x.bugcheck
        BY <1>3, <2>5, AliveFacts DEF Healthy
    <2> HIDE DEF p
    <2>7. /\ Healthy(r) /\ ~r.bugcheck
          /\ r.scheduled = x.scheduled
          /\ \A y : Contains(r.blocked, y) <=> Contains(x.blocked, y) /\ y # p
        BY <1>3, <2>2, <2>6, ResumeHealthy
    <2> HIDE DEF r
    <2>8. \A i \in 1 .. n + 1 : i \in 1 .. n \/ i = n + 1
        OBVIOUS
    <2>9. 1 .. n \subseteq 1 .. n + 1 /\ n + 1 \in 1 .. n + 1
        OBVIOUS
    <2>10. ASSUME NEW y
           PROVE  (\A i \in 1 .. n + 1 : w[i] # y) <=> (\A i \in 1 .. n : w[i] # y) /\ y # p
        BY <2>8, <2>9 DEF p
    <2>11. Good(n + 1, r)
        BY <1>3, <2>7, <2>10
    <2> QED BY <2>6, <2>11 DEF r, p
<1> HIDE DEF Good
<1>4. \E f : f = Def(f)
    <2> DEFINE S == KeState
    <2>1. k \in S
        BY DEF Healthy, Alive, Running, Consistent
    <2>2. ASSUME NEW n \in Nat, NEW x \in S PROVE Go(n, x) \in S
        <3>1. CASE n < Len(w) /\ Good(n, x)
            <4>1. Good(n + 1, KeResumeProcess(x, w[n + 1]))
                BY <1>3, <3>1
            <4>2. KeResumeProcess(x, w[n + 1]) \in S
                BY <4>1 DEF Good, Healthy, Alive, Running, Consistent
            <4> QED BY <3>1, <4>2
        <3>2. CASE ~(n < Len(w) /\ Good(n, x))
            BY <3>2
        <3> QED BY <3>1, <3>2
    <2> HIDE DEF S, Go
    <2>3. PICK G \in [Nat -> [S -> S]] : \A n \in Nat : \A x \in S : G[n][x] = Go(n, x)
        <3>1. [n \in Nat |-> [x \in S |-> Go(n, x)]] \in [Nat -> [S -> S]]
            BY <2>2
        <3> QED BY <3>1
    <2>4. PICK f : IsIteration(f, S, k, G)
        BY <2>1, IterateExists
    <2>5. f[0] = k
        BY <2>4 DEF IsIteration
    <2>6. ASSUME NEW n \in Nat PROVE f[n + 1] = Go(n, f[n])
        <3>1. f[n] \in S /\ f[n + 1] = G[n][f[n]]
            BY <2>4 DEF IsIteration
        <3> QED BY <2>3, <3>1
    <2>7. Nat \subseteq E(f)
        <3>1. 0 \in E(f)
            BY <1>2, <2>5
        <3>2. ASSUME NEW n \in Nat, n \in E(f) PROVE n + 1 \in E(f)
            <4> SUFFICES ASSUME n + 1 <= Len(w) PROVE Good(n + 1, f[n + 1])
                OBVIOUS
            <4>1. n < Len(w) /\ n <= Len(w)
                BY <1>1
            <4>2. Good(n, f[n])
                BY <3>2, <4>1
            <4>3. f[n + 1] = KeResumeProcess(f[n], w[n + 1])
                BY <2>6, <4>1, <4>2 DEF Go
            <4> QED BY <1>3, <4>1, <4>2, <4>3
        <3> HIDE DEF E
        <3> QED BY <3>1, <3>2, NatSetInduction
    <2> DEFINE a == [n \in 0 .. Len(w) |-> f[n]]
    <2>8. ASSUME NEW n \in 0 .. Len(w) PROVE a[n] = Def(a)[n]
        <3>1. CASE n = 0
            BY <2>5, <3>1
        <3>2. CASE n # 0
            <4>1. n - 1 \in Nat /\ (n - 1) + 1 = n /\ n - 1 < Len(w) /\ n - 1 \in 0 .. Len(w)
                BY <1>1, <3>2
            <4>2. Good(n - 1, f[n - 1])
                BY <1>1, <2>7, <4>1
            <4>3. ~f[n - 1].bugcheck
                BY <1>3, <4>1, <4>2
            <4>4. f[n] = KeResumeProcess(f[n - 1], w[n])
                BY <2>6, <4>1, <4>2 DEF Go
            <4> QED BY <3>2, <4>1, <4>3, <4>4
        <3> QED BY <3>1, <3>2
    <2>9. a = Def(a)
        BY <2>8
    <2> QED BY <2>9
<1>5. g = Def(g)
    <2> HIDE DEF Def
    <2> QED BY <1>4
<1> HIDE DEF g
<1>6. ASSUME NEW n \in 0 .. Len(w)
      PROVE  g[n] = IF n = 0
                    THEN k
                    ELSE IF g[n - 1].bugcheck THEN g[n - 1] ELSE KeResumeProcess(g[n - 1], w[n])
    <2>1. g[n] = Def(g)[n]
        BY <1>5, Zenon
    <2> QED BY <2>1
<1>7. Nat \subseteq E(g)
    <2>1. 0 \in E(g)
        BY <1>1, <1>2, <1>6
    <2>2. ASSUME NEW n \in Nat, n \in E(g) PROVE n + 1 \in E(g)
        <3> SUFFICES ASSUME n + 1 <= Len(w) PROVE Good(n + 1, g[n + 1])
            OBVIOUS
        <3>1. n < Len(w) /\ n <= Len(w) /\ n + 1 \in 0 .. Len(w) /\ n + 1 # 0 /\ (n + 1) - 1 = n
            BY <1>1
        <3>2. Good(n, g[n])
            BY <2>2, <3>1
        <3>3. ~g[n].bugcheck /\ Good(n + 1, KeResumeProcess(g[n], w[n + 1]))
            BY <1>3, <3>1, <3>2
        <3>4. g[n + 1] = KeResumeProcess(g[n], w[n + 1])
            BY <1>6, <3>1, <3>3
        <3> QED BY <3>3, <3>4
    <2> HIDE DEF E
    <2> QED BY <2>1, <2>2, NatSetInduction
<1>8. Good(Len(w), g[Len(w)])
    BY <1>1, <1>7
<1>9. ResumeAll(k, w) = g[Len(w)]
    BY DEF ResumeAll, g
<1>10. \A y : (\A i \in 1 .. Len(w) : w[i] # y) <=> ~Contains(w, y)
    BY DEF Contains
<1>11. \A x : Healthy(x) => ~x.bugcheck
    BY AliveFacts DEF Healthy
<1> QED BY <1>8, <1>9, <1>10, <1>11 DEF Good
-----------------------------------------------------------------------------
\* What the invariant says of the current process and of references.
LEMMA WorksFacts ==
    ASSUME NEW k, NEW o, NEW s, Works(k, o, s)
    PROVE  /\ Settled(k, o, s) /\ Healthy(k) /\ ~k.bugcheck
           /\ ObP!Steady(o, Life(k, s.used), Held(k, s.leaked))
           /\ k.current \in Process /\ Life(k, s.used)[k.current] = "awake"
           /\ k.scheduled \subseteq Process /\ k.scheduled \subseteq s.used
           /\ \A p \in Process : Ob!Exists(o, p) <=> o.pointers[p] # 0
           /\ \A p \in Process : Held(k, s.leaked)[p] > 0 => o.pointers[p] # 0
<1>1. /\ Settled(k, o, s) /\ Healthy(k) /\ ObP!Steady(o, Life(k, s.used), Held(k, s.leaked))
    BY DEF Works
<1>2. /\ ~k.bugcheck /\ k.current \in Process /\ k.current \in k.scheduled
      /\ k.scheduled \subseteq Process /\ ~Contains(k.blocked, k.current)
    BY <1>1, AliveFacts DEF Healthy
<1>3. k.scheduled \subseteq s.used
    BY <1>1 DEF Settled
<1>4. Life(k, s.used)[k.current] = "awake"
    BY <1>2, <1>3 DEF Life
<1>5. \A p \in Process : Ob!Exists(o, p) <=> o.pointers[p] # 0
    BY <1>1, SteadyFacts
<1>6. \A p \in Process : Held(k, s.leaked)[p] > 0 => o.pointers[p] # 0
    BY <1>1, SteadyFacts
<1> QED BY <1>1, <1>2, <1>3, <1>4, <1>5, <1>6

\* A call that starts and stops no process.
LEMMA FramedSettled ==
    ASSUME NEW k, NEW o, NEW s, Works(k, o, s),
           NEW j \in KeState, j.scheduled = k.scheduled,
           NEW u \in PsState, u.pid = s.pid, u.exited = s.exited, u.used = s.used,
           NEW r, NEW H, ObP!Steady(r, Life(j, s.used), H),
           r.signal = o.signal,
           \A q \in Process : r.pointers[q] # 0 => o.pointers[q] # 0,
           \A q \in Process : r.waiters[q] # <<>> =>
              o.waiters[q] # <<>> \/ (o.pointers[q] # 0 /\ ~o.signal[q])
    PROVE  Settled(j, r, u)
<1>1. Settled(k, o, s) /\ \A p \in Process : Ob!Exists(o, p) <=> o.pointers[p] # 0
    BY WorksFacts
<1>2. r \in Ob!ObState /\ ~r.bugcheck /\ ObP!Queued(r, Life(j, s.used))
    BY SteadyFacts
<1>3. \A p \in Process : Ob!Exists(r, p) <=> r.pointers[p] # 0
    BY SteadyFacts
<1>4. \A p \in Process : Ob!Exists(r, p) => Ob!Exists(o, p)
    BY <1>1, <1>3
<1>5. \A p, q \in Process :
          Ob!Exists(r, p) /\ Ob!Exists(r, q) /\ p # q => u.pid[p] # u.pid[q]
    BY <1>1, <1>4 DEF Settled
<1>6. \A p \in Process : Ob!Exists(r, p) => p \in j.scheduled \cup u.exited
    BY <1>1, <1>4 DEF Settled
<1>7. \A p \in Process : r.signal[p] <=> p \in u.exited
    BY <1>1 DEF Settled
<1>8. \A p \in Process : r.waiters[p] # <<>> => p \in j.scheduled
    <2> SUFFICES ASSUME NEW p \in Process, r.waiters[p] # <<>> PROVE p \in k.scheduled
        OBVIOUS
    <2>1. CASE o.waiters[p] # <<>>
        BY <1>1, <2>1 DEF Settled
    <2>2. CASE o.pointers[p] # 0 /\ ~o.signal[p]
        <3>1. Ob!Exists(o, p) /\ p \notin s.exited
            BY <1>1, <2>2 DEF Settled
        <3> QED BY <1>1, <3>1 DEF Settled
    <2> QED BY <2>1, <2>2
<1>9. /\ Idle \in j.scheduled /\ j.scheduled \subseteq u.used
      /\ u.exited \subseteq u.used \ j.scheduled /\ u.pid[Idle] = 0
    BY <1>1 DEF Settled
<1> QED BY <1>2, <1>5, <1>6, <1>7, <1>8, <1>9 DEF Settled

\* Frame, in the form FramedSettled asks for.
LEMMA FrameWeakens ==
    ASSUME NEW s, NEW r, Frame(s, r)
    PROVE  /\ r.signal = s.signal
           /\ \A q \in Process : r.pointers[q] # 0 => s.pointers[q] # 0
           /\ \A q \in Process : r.waiters[q] # <<>> =>
                 s.waiters[q] # <<>> \/ (s.pointers[q] # 0 /\ ~s.signal[q])
BY DEF Frame

\* PsKillProcess of a process that runs, is ready or sleeps, for a caller with
\* a reference.
LEMMA KillProcessFacts ==
    ASSUME NEW used, ke.scheduled \subseteq used, Healthy(ke), ke.current # Idle,
           NEW p \in ke.scheduled, p # Idle, ~Contains(ke.blocked, p),
           NEW o, NEW H, ObP!Steady(o, Life(ke, used), H), H[p] > 0
    PROVE  LET r == PsKillProcess(o, p)
           IN  /\ Healthy(r.ke) /\ ~r.ke.bugcheck
               /\ r.ke.scheduled = ke.scheduled \ {p}
               /\ ObP!Steady(r.ob, Life(r.ke, used), [H EXCEPT ![p] = @ - 1])
               /\ r.killed = {p}
               /\ r.ob.signal = [o.signal EXCEPT ![p] = TRUE]
               /\ r.ob.waiters = [o.waiters EXCEPT ![p] = <<>>]
               /\ \A q \in Process : r.ob.pointers[q] # 0 => o.pointers[q] # 0
<1> DEFINE L0 == Life(ke, used)
           L1 == [L0 EXCEPT ![p] = "dead"]
           H1 == [H EXCEPT ![p] = @ + 1]
           referenced == Ob!ObReferenceObject(o, p, processType)
           stopped    == KeStopSchedulingProcess(ke, p)
           released   == Ob!ObDereferenceObject(referenced, p)
           c          == stopped.current
           closed     == Ob!ObKillProcess(released, c, p)
           w          == closed.waiters[p]
           L2 == [q \in Process |-> IF Contains(w, q) THEN "awake" ELSE L1[q]]
           signalled  == Ob!ObSignalObject(closed, p)
           resumed    == ResumeAll(stopped, w)
           final      == Ob!ObDereferenceObject(signalled, p)
<1>1. ke.scheduled \subseteq Process /\ p \in Process /\ H \in [Process -> Nat] /\ o.pointers[p] # 0
    BY AliveFacts, SteadyFacts DEF Healthy
<1>2. ObP!Steady(referenced, L0, H1) /\ Frame(o, referenced)
    BY <1>1, ReferenceWorks
<1>3. /\ Healthy(stopped) /\ ~stopped.bugcheck
      /\ stopped.scheduled = ke.scheduled \ {p}
      /\ \A x : Contains(stopped.blocked, x) <=> Contains(ke.blocked, x) /\ x # p
    BY StopHealthy
<1> HIDE DEF stopped
<1>4. /\ Healthy(stopped) /\ ~stopped.bugcheck
      /\ stopped.scheduled = ke.scheduled \ {p}
      /\ \A x : Contains(stopped.blocked, x) <=> Contains(ke.blocked, x)
    BY <1>3
<1>5. H1[p] > 0 /\ [H1 EXCEPT ![p] = @ - 1] = H
    <2>1. \A n \in Nat : n + 1 > 0 /\ (n + 1) - 1 = n
        OBVIOUS
    <2>2. H[p] \in Nat /\ H1 \in [Process -> Nat] /\ H1[p] = H[p] + 1
        BY <1>1
    <2>3. \A q \in Process : q # p => H1[q] = H[q]
        BY <1>1
    <2> HIDE DEF H1
    <2>4. \A q \in Process : [H1 EXCEPT ![p] = @ - 1][q] = H[q]
        BY <1>1, <2>1, <2>2, <2>3
    <2> QED BY <1>1, <2>1, <2>2, <2>4
<1> HIDE DEF H1
<1>6. ObP!Steady(released, L0, H) /\ Frame(referenced, released)
    BY <1>1, <1>2, <1>5, DereferenceWorks
<1>7. c \in Process /\ c \in ke.scheduled /\ ~Contains(ke.blocked, c)
    BY <1>4, AliveFacts DEF Healthy
<1>8. L0[c] = "awake" /\ L0[p] = "awake"
    BY <1>1, <1>7 DEF Life
<1> HIDE DEF L0, c, released
<1>9. ObP!Steady(closed, L0, H) /\ Frame(released, closed)
    BY <1>6, <1>7, <1>8, KillWorks
<1> HIDE DEF closed
<1>10. Frame(o, closed)
    BY <1>2, <1>6, <1>9 DEF Frame
<1>11. ObP!Steady(closed, L1, H)
    BY <1>1, <1>8, <1>9, Constants, ObP!DeathSteady
<1> HIDE DEF L1
<1>12. /\ ObP!Steady(signalled, L2, H)
       /\ signalled.signal = [closed.signal EXCEPT ![p] = TRUE]
       /\ signalled.waiters = [closed.waiters EXCEPT ![p] = <<>>]
       /\ signalled.pointers = closed.pointers
    BY <1>1, <1>11, SignalWorks
<1> HIDE DEF signalled
<1>13. ObP!Steady(final, L2, [H EXCEPT ![p] = @ - 1]) /\ Frame(signalled, final)
    BY <1>1, <1>12, DereferenceWorks
<1>14. w \in Seq(Process) /\ IsInjective(w)
       /\ \A x \in Process : Contains(w, x) => L0[x] = "asleep"
    <2>1. closed \in Ob!ObState /\ ObP!Queued(closed, L0)
        BY <1>9, SteadyFacts
    <2>2. w \in Seq(Process)
        BY <1>1, <2>1 DEF Ob!ObState
    <2> QED BY <1>1, <2>1, <2>2 DEF ObP!Queued, ObP!Contains, Contains, ObP!IsInjective, IsInjective
<1>15. ASSUME NEW x, Contains(w, x) PROVE x \in Process /\ Contains(ke.blocked, x)
    <2>1. x \in Process
        BY <1>14, <1>15 DEF Contains
    <2>2. L0[x] = "asleep"
        BY <1>14, <1>15, <2>1
    <2> QED BY <2>1, <2>2 DEF L0, Life
<1> HIDE DEF w
<1>16. /\ Healthy(resumed) /\ ~resumed.bugcheck
       /\ resumed.scheduled = stopped.scheduled
       /\ \A x : Contains(resumed.blocked, x) <=> Contains(stopped.blocked, x) /\ ~Contains(w, x)
    BY <1>4, <1>14, <1>15, ResumeAllHealthy
<1> HIDE DEF resumed, final, L2
<1>17. Life(resumed, used) = L2
    <2>1. \A x \in Process : L1[x] = IF x = p THEN "dead" ELSE L0[x]
        BY DEF L1, L0, Life
    <2>2. ASSUME NEW x \in Process PROVE Life(resumed, used)[x] = L2[x]
        <3>1. L2[x] = IF Contains(w, x) THEN "awake" ELSE L1[x]
            BY DEF L2
        <3>2. L0[x] = IF x \notin used THEN "unborn"
                      ELSE IF x \notin ke.scheduled THEN "dead"
                      ELSE IF Contains(ke.blocked, x) THEN "asleep" ELSE "awake"
            BY DEF L0, Life
        <3>3. Life(resumed, used)[x] =
                      IF x \notin used THEN "unborn"
                      ELSE IF x \notin ke.scheduled \ {p} THEN "dead"
                      ELSE IF Contains(ke.blocked, x) /\ ~Contains(w, x) THEN "asleep" ELSE "awake"
            BY <1>4, <1>16 DEF Life
        <3>4. Contains(w, x) => x \in ke.scheduled /\ x # p /\ Contains(ke.blocked, x)
            BY <1>15, AliveFacts DEF Healthy
        <3> QED BY <2>1, <3>1, <3>2, <3>3, <3>4
    <2> QED BY <2>2 DEF Life, L2
<1>18. PsKillProcess(o, p) = [ke |-> resumed, ob |-> final, killed |-> {p}]
    BY <1>4 DEF PsKillProcess, resumed, final, signalled, closed, released, stopped, w, c
<1>19. /\ final.signal = [o.signal EXCEPT ![p] = TRUE]
       /\ final.waiters = [o.waiters EXCEPT ![p] = <<>>]
       /\ \A q \in Process : final.pointers[q] # 0 => o.pointers[q] # 0
    BY <1>10, <1>12, <1>13 DEF Frame
<1> QED BY <1>4, <1>13, <1>16, <1>17, <1>18, <1>19
-----------------------------------------------------------------------------
\* A process that does not exist yet leaves a PID free: GetNewPID finds one.
LEMMA FreePID ==
    ASSUME NEW p \in Process, ~Exists(p)
    PROVE  GetNewPID \in Nat /\ \A q \in Process : Exists(q) => ps.pid[q] # GetNewPID
<1> DEFINE N == Cardinality(Process)
           S == {n \in 1 .. N : ~PIDInUse(n)}
           T == Process \ {p}
<1>1. IsFiniteSet(Process) /\ N \in Nat
    BY ProcessesAssumption, FS_CardinalityType
<1>2. IsFiniteSet(T) /\ Cardinality(T) = N - 1
    BY <1>1, FS_RemoveElement
<1>3. IsFiniteSet(1 .. N) /\ Cardinality(1 .. N) = N
    <2>1. 1 \in Int /\ N \in Int /\ (IF 1 > N THEN 0 ELSE N - 1 + 1) = N
        BY <1>1
    <2> HIDE DEF N
    <2> QED BY <2>1, FS_Interval
<1>4. S # {}
    <2> SUFFICES ASSUME \A n \in 1 .. N : PIDInUse(n) PROVE FALSE
        OBVIOUS
    <2> DEFINE f == [n \in 1 .. N |-> CHOOSE q \in Process : Exists(q) /\ ps.pid[q] = n]
    <2>1. ASSUME NEW n \in 1 .. N PROVE f[n] \in T /\ ps.pid[f[n]] = n
        <3>1. \E q \in Process : Exists(q) /\ ps.pid[q] = n
            BY DEF PIDInUse
        <3>2. f[n] \in Process /\ Exists(f[n]) /\ ps.pid[f[n]] = n
            BY <3>1
        <3> QED BY <3>2
    <2>2. f \in [1 .. N -> T]
        BY <2>1
    <2> HIDE DEF f, N, T
    <2>3. Cardinality(T) < Cardinality(1 .. N)
        BY <1>1, <1>2, <1>3
    <2>4. PICK x \in 1 .. N, y \in 1 .. N : x # y /\ f[x] = f[y]
        BY <1>2, <1>3, <2>2, <2>3, FS_PigeonHole
    <2>5. ps.pid[f[x]] = x /\ ps.pid[f[y]] = y
        BY <2>1
    <2> QED BY <2>4, <2>5
<1>5. \E n \in S : \A m \in S : n <= m
    <2>1. S \subseteq Nat
        OBVIOUS
    <2> HIDE DEF S
    <2> QED BY <1>4, <2>1, LeastOfNat
<1>6. \E n \in 1 .. N : ~PIDInUse(n) /\ \A m \in 1 .. n - 1 : PIDInUse(m)
    <2>1. PICK n \in S : \A m \in S : n <= m
        BY <1>5
    <2>2. \A m \in 1 .. n - 1 : m \in 1 .. N /\ ~(n <= m)
        BY <1>1
    <2> QED BY <2>1, <2>2
<1>7. GetNewPID \in 1 .. N /\ ~PIDInUse(GetNewPID)
    BY <1>6 DEF GetNewPID
<1> QED BY <1>7 DEF PIDInUse

\* The new object of PsCreateProcess: one reference, and no handle.
LEMMA NewObject ==
    ASSUME Works(ke, ob, ps), NEW p \in Process, p \notin ps.used
    PROVE  LET o  == Ob!ObInitProcess(Ob!ObCreateObject(ob, p), ke.current, p)
               L0 == Life(ke, ps.used)
               H0 == Held(ke, ps.leaked)
           IN  /\ ~Exists(p) /\ H0[p] = 0 /\ ps.leaked[p] = 0
               /\ ObP!Steady(o, [L0 EXCEPT ![p] = "awake"], [H0 EXCEPT ![p] = 1])
               /\ o.signal = ob.signal /\ o.waiters = ob.waiters
               /\ o.handles[p] = 0
               /\ \A q \in Process : o.pointers[q] # 0 => ob.pointers[q] # 0 \/ q = p
<1> DEFINE L0 == Life(ke, ps.used)
           H0 == Held(ke, ps.leaked)
           H1 == [H0 EXCEPT ![p] = 1]
           n  == Ob!ObCreateObject(ob, p)
           c  == ke.current
           o  == Ob!ObInitProcess(n, c, p)
           K  == [L0 EXCEPT ![p] = "awake"]
<1>1. /\ Settled(ke, ob, ps) /\ ObP!Steady(ob, L0, H0)
      /\ c \in Process /\ L0[c] = "awake"
    BY WorksFacts
<1>2. /\ ob \in Ob!ObState /\ H0 \in [Process -> Nat]
      /\ \A q \in Process : ob.pointers[q] \in Nat
      /\ \A q \in Process : Ob!Exists(ob, q) <=> ob.pointers[q] # 0
      /\ \A q \in Process : H0[q] > 0 => ob.pointers[q] # 0
    BY <1>1, SteadyFacts
<1>3. p \notin ke.scheduled /\ p \notin ps.exited
    BY <1>1 DEF Settled
<1>4. ~Exists(p) /\ ob.pointers[p] = 0
    BY <1>1, <1>2, <1>3 DEF Settled, Exists
<1>5. H0[p] = 0
    BY <1>2, <1>4
<1>6. ps.leaked[p] = 0
    <2>1. ps.leaked[p] \in Nat
        BY <1>1 DEF Settled, PsState
    <2>2. H0[p] = ps.leaked[p] + 0
        BY <1>3 DEF Held
    <2> QED BY <1>5, <2>1, <2>2
<1>7. L0[p] = "unborn"
    BY DEF Life
<1> HIDE DEF L0, H0
<1>8. /\ ObP!Steady(n, L0, H1)
      /\ n.signal = [ob.signal EXCEPT ![p] = FALSE]
      /\ n.waiters = [ob.waiters EXCEPT ![p] = <<>>]
      /\ n.handles = [ob.handles EXCEPT ![p] = 0]
      /\ \A q \in Process : n.pointers[q] # 0 => ob.pointers[q] # 0 \/ q = p
    BY <1>1, <1>4, CreateWorks
<1> HIDE DEF n, c, H1
<1>9. /\ ObP!Steady(o, K, H1)
      /\ Frame(n, o)
      /\ \A q \in Process : n.handles[q] = 0 => o.handles[q] = 0
    <2>1. ObP!Steady(n, L0, H1) /\ c \in Process /\ L0[c] = "awake" /\ L0[p] = "unborn"
        BY <1>1, <1>7, <1>8
    <2> QED BY <2>1, InitWorks, ZenonT(60)
<1> HIDE DEF o, K
<1>10. /\ ob.signal \in [Process -> BOOLEAN] /\ ob.waiters \in [Process -> Seq(Process)]
       /\ ob.handles \in [Process -> Nat]
    BY <1>2 DEF Ob!ObState
<1>11. ob.signal[p] = FALSE /\ ob.waiters[p] = <<>>
    BY <1>1, <1>3, <1>10 DEF Settled
<1>12. n.signal = ob.signal /\ n.waiters = ob.waiters /\ n.handles[p] = 0
    <2>1. [ob.signal EXCEPT ![p] = FALSE] = ob.signal
        BY <1>10, <1>11, Zenon
    <2>2. [ob.waiters EXCEPT ![p] = <<>>] = ob.waiters
        BY <1>10, <1>11, Zenon
    <2> QED BY <1>8, <1>10, <2>1, <2>2
<1>13. o.signal = ob.signal /\ o.waiters = ob.waiters /\ o.handles[p] = 0
    BY <1>9, <1>12 DEF Frame
<1>14. \A q \in Process : o.pointers[q] # 0 => ob.pointers[q] # 0 \/ q = p
    BY <1>8, <1>9 DEF Frame
<1> QED BY <1>4, <1>5, <1>6, <1>9, <1>13, <1>14 DEF n, o, c, K, H1, H0, L0

\* The fields of the new PCB.
LEMMA NewFields ==
    ASSUME Works(ke, ob, ps), NEW p \in Process, p \notin ps.used
    PROVE  LET u == [ps EXCEPT !.used = @ \cup {p}, !.pid[p] = GetNewPID]
           IN  /\ u \in PsState /\ u.pid[p] = GetNewPID
               /\ \A q \in Process \ {p} : u.pid[q] = ps.pid[q]
               /\ u.used = ps.used \cup {p} /\ u.exited = ps.exited /\ u.leaked = ps.leaked
<1> DEFINE P == [ps.pid EXCEPT ![p] = GetNewPID]
           U == ps.used \cup {p}
           u == [ps EXCEPT !.used = @ \cup {p}, !.pid[p] = GetNewPID]
<1>1. ps \in PsState /\ ps.pid \in [Process -> Nat] /\ ps.used \subseteq Process
    BY WorksFacts DEF Settled, PsState
<1>2. GetNewPID \in Nat
    BY NewObject, FreePID
<1>3. P \in [Process -> Nat] /\ U \subseteq Process
    BY <1>1, <1>2
<1>4. P[p] = GetNewPID /\ \A q \in Process \ {p} : P[q] = ps.pid[q]
    BY <1>1
<1>5. u = [ps EXCEPT !.used = U, !.pid = P]
    OBVIOUS
<1> HIDE DEF P, U, u
<1>6. /\ u \in PsState /\ u.pid = P /\ u.used = U
      /\ u.exited = ps.exited /\ u.leaked = ps.leaked
    BY <1>1, <1>3, <1>5 DEF PsState
<1> QED BY <1>4, <1>6 DEF u, U

\* A process that was created, and given up again or not.
LEMMA CreatedSettled ==
    ASSUME Works(ke, ob, ps), NEW p \in Process, p \notin ps.used,
           NEW u \in PsState, u.pid[p] = GetNewPID,
           \A q \in Process \ {p} : u.pid[q] = ps.pid[q],
           u.used = ps.used \cup {p}, u.exited = ps.exited,
           NEW j \in KeState, j.scheduled = ke.scheduled \/ j.scheduled = ke.scheduled \cup {p},
           NEW r, NEW H, ObP!Steady(r, Life(j, u.used), H),
           r.signal = ob.signal, r.waiters = ob.waiters,
           \A q \in Process : r.pointers[q] # 0 =>
              ob.pointers[q] # 0 \/ (q = p /\ p \in j.scheduled)
    PROVE  Settled(j, r, u)
<1>1. Settled(ke, ob, ps) /\ \A q \in Process : Ob!Exists(ob, q) <=> ob.pointers[q] # 0
    BY WorksFacts
<1>2. r \in Ob!ObState /\ ~r.bugcheck /\ ObP!Queued(r, Life(j, u.used))
    BY SteadyFacts
<1>3. \A q \in Process : Ob!Exists(r, q) <=> r.pointers[q] # 0
    BY SteadyFacts
<1>4. \A q \in Process : Ob!Exists(r, q) => Exists(q) \/ (q = p /\ p \in j.scheduled)
    BY <1>1, <1>3 DEF Exists
<1>5. ~Exists(p)
    BY NewObject
<1>6. \A q \in Process : Exists(q) => ps.pid[q] # GetNewPID
    BY <1>5, FreePID
<1>7. \A x, y \in Process :
          Ob!Exists(r, x) /\ Ob!Exists(r, y) /\ x # y => u.pid[x] # u.pid[y]
    <2> SUFFICES ASSUME NEW x \in Process, NEW y \in Process,
                        Ob!Exists(r, x), Ob!Exists(r, y), x # y
                 PROVE  u.pid[x] # u.pid[y]
        OBVIOUS
    <2>1. CASE x = p
        <3>1. Exists(y) /\ y \in Process \ {p}
            BY <1>4, <2>1
        <3> QED BY <1>6, <2>1, <3>1
    <2>2. CASE y = p
        <3>1. Exists(x) /\ x \in Process \ {p}
            BY <1>4, <2>2
        <3> QED BY <1>6, <2>2, <3>1
    <2>3. CASE x # p /\ y # p
        <3>1. Ob!Exists(ob, x) /\ Ob!Exists(ob, y) /\ x \in Process \ {p} /\ y \in Process \ {p}
            BY <1>4, <2>3 DEF Exists
        <3> QED BY <1>1, <3>1 DEF Settled
    <2> QED BY <2>1, <2>2, <2>3
<1>8. \A q \in Process : Ob!Exists(r, q) => q \in j.scheduled \cup u.exited
    BY <1>1, <1>4 DEF Settled, Exists
<1>9. /\ \A q \in Process : r.signal[q] <=> q \in u.exited
      /\ \A q \in Process : r.waiters[q] # <<>> => q \in j.scheduled
    BY <1>1 DEF Settled
<1>10. Idle \in Process \ {p}
    BY <1>1, SchedulerAssumption DEF Settled
<1>11. /\ Idle \in j.scheduled /\ j.scheduled \subseteq u.used
       /\ u.exited \subseteq u.used \ j.scheduled /\ u.pid[Idle] = 0
    <2>1. p \notin ps.exited
        BY <1>1 DEF Settled
    <2> QED BY <1>1, <1>10, <2>1 DEF Settled
<1> QED BY <1>2, <1>7, <1>8, <1>9, <1>11 DEF Settled
-----------------------------------------------------------------------------
\* The invariant holds at the start, when process 0 is the only object.
LEMMA PsInitInv == PsInit => PsInv
<1> SUFFICES ASSUME PsInit PROVE PsInv
    OBVIOUS
<1> DEFINE L == Life(KeInit, {Idle})
           Z == [q \in Process |-> 0]
           H == [Z EXCEPT ![Idle] = 1]
           o == Ob!ObCreateObject(Ob!ObInit, Idle)
<1>1. /\ ke = KeInit /\ ob = o
      /\ ps = [pid |-> Z, exited |-> {}, used |-> {Idle}, leaked |-> Z, missed |-> {}]
    BY DEF PsInit
<1>2. Idle \in Process
    BY SchedulerAssumption
<1>3. /\ KeInit.scheduled = {Idle} /\ KeInit.blocked = <<>> /\ KeInit.quantum = 1
      /\ ~KeInit.bugcheck /\ KeInit.state = [q \in Process |-> "created"]
    BY DEF KeInit
<1>4. Healthy(KeInit)
    <2>1. Running(KeInit)
        BY <1>3, InitInv DEF Inv
    <2>2. DeadDoNotRun(KeInit)
        BY <1>3 DEF DeadDoNotRun
    <2> QED BY <1>3, <2>1, <2>2 DEF Healthy, Alive
<1>5. KeInit \in KeState
    BY <1>4, AliveFacts DEF Healthy
<1>6. \A x : ~Contains(<<>>, x)
    BY DEF Contains
<1>7. /\ L \in [Process -> ObP!Lives] /\ \A q \in Process : L[q] # "asleep"
      /\ L = Life(KeInit, ps.used)
    BY <1>1, <1>3, <1>6 DEF Life, ObP!Lives
<1>8. Held(KeInit, Z) = H
    BY <1>2, <1>3 DEF Held
<1>9. Ob!ObInit = ObP!ObInit
    BY DEF Ob!ObInit, ObP!ObInit, Ob!NoHandle, ObP!NoHandle, Ob!Slots, ObP!Slots
<1> HIDE DEF L, KeInit
<1>10. ObP!Steady(Ob!ObInit, L, Z)
    BY <1>7, <1>9, Constants, ObP!InitSteady
<1>11. /\ Ob!ObInit.pointers = Z /\ Ob!ObInit.signal = [q \in Process |-> FALSE]
       /\ Ob!ObInit.waiters = [q \in Process |-> <<>>]
    BY DEF Ob!ObInit
<1> HIDE DEF Ob!ObInit
<1>12. Ob!ObInit.pointers[Idle] = 0 /\ H = [Z EXCEPT ![Idle] = 1]
    BY <1>2, <1>11
<1> HIDE DEF H, Z
<1>13. /\ ObP!Steady(o, L, H)
       /\ o.signal = [Ob!ObInit.signal EXCEPT ![Idle] = FALSE]
       /\ o.waiters = [Ob!ObInit.waiters EXCEPT ![Idle] = <<>>]
       /\ \A q \in Process : o.pointers[q] # 0 => Ob!ObInit.pointers[q] # 0 \/ q = Idle
    BY <1>2, <1>10, <1>12, CreateWorks
<1> HIDE DEF o
<1>14. /\ o \in Ob!ObState /\ ~o.bugcheck /\ ObP!Queued(o, L)
       /\ \A q \in Process : Ob!Exists(o, q) <=> o.pointers[q] # 0
    BY <1>13, SteadyFacts
<1>15. \A q \in Process : Ob!Exists(o, q) => q = Idle
    BY <1>11, <1>13, <1>14 DEF Z
<1>16. \A q \in Process : ~o.signal[q] /\ o.waiters[q] = <<>>
    BY <1>11, <1>13
<1>17. /\ ps \in PsState /\ ps.pid = Z /\ ps.exited = {} /\ ps.used = {Idle} /\ ps.leaked = Z
    BY <1>1, <1>2 DEF PsState, Z
<1>18. Settled(ke, ob, ps)
    BY <1>1, <1>2, <1>3, <1>5, <1>7, <1>14, <1>15, <1>16, <1>17 DEF Settled, Z
<1>19. ObP!Steady(ob, Life(ke, ps.used), Held(ke, ps.leaked))
    BY <1>1, <1>7, <1>8, <1>13, <1>17
<1>20. "missed" \in DOMAIN ps
    BY <1>17 DEF PsState
<1> QED BY <1>1, <1>4, <1>18, <1>19, <1>20 DEF PsInv, Unharmed, Works
-----------------------------------------------------------------------------
\* What the code does with one process at a time, as a step of the invariant.
Steps(k, o, s) == Settled(k, o, s) /\ (~(k.bugcheck \/ o.bugcheck) => Works(k, o, s))

\* WaitsEndByDeath, of one step.
EndsByDeath ==
    \A p, q \in Process :
        Contains(ob.waiters[q], p) /\ ~Contains(ob'.waiters[q], p) => q \in ps'.exited

\* PsCreateProcess, with and without a slot for the handle, and with a priority
\* that halts the machine.
LEMMA CreateStep ==
    ASSUME Works(ke, ob, ps), NEW p \in Process, p \notin ps.used, NEW prio \in CreatePriorities,
           CreateFails(p) \/ CreateSucceeds(p, prio)
    PROVE  /\ Steps(ke', ob', ps') /\ EndsByDeath
           /\ prio \in Priorities => ~ke'.bugcheck
<1> DEFINE L0 == Life(ke, ps.used)
           H0 == Held(ke, ps.leaked)
           L1 == [L0 EXCEPT ![p] = "awake"]
           H1 == [H0 EXCEPT ![p] = 1]
           H2 == [H1 EXCEPT ![p] = @ + 1]
           o  == Ob!ObInitProcess(Ob!ObCreateObject(ob, p), ke.current, p)
           h  == Ob!ObOpenObjectByPointer(o, ke.current, p, FALSE, processType)
           r  == Ob!ObReferenceObject(h, p, AnyType)
           d  == Ob!ObDereferenceObject(o, p)
           e  == Ob!ObDereferenceObject(r, p)
           u  == [ps EXCEPT !.used = @ \cup {p}, !.pid[p] = GetNewPID]
<1>1. /\ Settled(ke, ob, ps) /\ Healthy(ke) /\ ~ke.bugcheck
      /\ ke.current \in Process /\ L0[ke.current] = "awake"
    BY WorksFacts
<1>2. /\ ~Exists(p) /\ H0[p] = 0 /\ ps.leaked[p] = 0
      /\ ObP!Steady(o, L1, H1)
      /\ o.signal = ob.signal /\ o.waiters = ob.waiters
      /\ o.handles[p] = 0
      /\ \A q \in Process : o.pointers[q] # 0 => ob.pointers[q] # 0 \/ q = p
    BY NewObject
<1>3. ke \in KeState /\ ke.scheduled \subseteq Process /\ p \notin ke.scheduled
      /\ ~Contains(ke.blocked, p)
    BY <1>1, AliveFacts DEF Healthy, Settled
<1>4. \A q \in Process : H0[q] = ps.leaked[q] + (IF q \in ke.scheduled THEN 1 ELSE 0)
    BY DEF Held
<1>5. \A q \in Process : L0[q] = IF q \notin ps.used THEN "unborn"
                                 ELSE IF q \notin ke.scheduled THEN "dead"
                                 ELSE IF Contains(ke.blocked, q) THEN "asleep" ELSE "awake"
    BY DEF Life
<1>6. H0 \in [Process -> Nat] /\ H1[p] = 1 /\ H2[p] = 2
      /\ [H1 EXCEPT ![p] = @ - 1] = H0 /\ [H2 EXCEPT ![p] = @ - 1] = H1
    <2>1. H0 \in [Process -> Nat] /\ L0 \in [Process -> Ob!Lives]
        BY <1>1, WorksFacts, SteadyFacts
    <2> HIDE DEF H0
    <2>2. H1 \in [Process -> Nat] /\ H1[p] = 1 /\ \A q \in Process : q # p => H1[q] = H0[q]
        BY <2>1
    <2>3. [H1 EXCEPT ![p] = @ - 1] = H0
        <3> HIDE DEF H1
        <3>1. \A q \in Process : [H1 EXCEPT ![p] = @ - 1][q] = H0[q]
            BY <1>2, <2>1, <2>2
        <3> QED BY <2>1, <2>2, <3>1
    <2> HIDE DEF H1
    <2>4. H2 \in [Process -> Nat] /\ H2[p] = 2 /\ \A q \in Process : q # p => H2[q] = H1[q]
        BY <2>2
    <2>5. [H2 EXCEPT ![p] = @ - 1] = H1
        <3> HIDE DEF H2
        <3>1. \A q \in Process : [H2 EXCEPT ![p] = @ - 1][q] = H1[q]
            BY <2>2, <2>4
        <3> QED BY <2>2, <2>4, <3>1
    <2> QED BY <2>1, <2>2, <2>3, <2>4, <2>5
<1>7. /\ u \in PsState /\ u.pid[p] = GetNewPID
      /\ \A q \in Process \ {p} : u.pid[q] = ps.pid[q]
      /\ u.used = ps.used \cup {p} /\ u.exited = ps.exited /\ u.leaked = ps.leaked
    BY NewFields
<1> HIDE DEF L0, H0, H1, H2, u
<1>8. CASE CreateFails(p)
    <2>1. ke' = ke /\ ob' = d /\ ps' = u
        BY <1>8 DEF CreateFails, u
    <2> HIDE DEF o
    <2>2. ObP!Steady(d, L1, H0) /\ Frame(o, d) /\ d.handles = o.handles
        BY <1>2, <1>6, DereferenceWorks
    <2>3. L1[p] = "awake" /\ L0 \in [Process -> Ob!Lives]
        BY <1>1, <1>2, WorksFacts, SteadyFacts DEF L0
    <2>4. ObP!Steady(d, [L1 EXCEPT ![p] = "dead"], H0)
        <3> HIDE DEF d, L1
        <3> QED BY <2>2, <2>3, Constants, ObP!DeathSteady
    <2>5. [L1 EXCEPT ![p] = "dead"] = Life(ke, ps.used \cup {p})
        <3>1. [L1 EXCEPT ![p] = "dead"] = [L0 EXCEPT ![p] = "dead"]
            BY <2>3
        <3>2. \A q \in Process : [L0 EXCEPT ![p] = "dead"][q] = Life(ke, ps.used \cup {p})[q]
            BY <1>3, <1>5, <2>3 DEF Life
        <3>3. Life(ke, ps.used \cup {p}) = [q \in Process |-> Life(ke, ps.used \cup {p})[q]]
            BY DEF Life
        <3> QED BY <2>3, <3>1, <3>2, <3>3
    <2>6. d.pointers[p] = 0
        <3>1. d.handles[p] = 0
            BY <1>2, <2>2
        <3>2. d.pointers[p] = d.handles[p] + H0[p]
            BY <2>2 DEF ObP!Steady, ObP!Sound, ObP!Counted
        <3> QED BY <1>2, <3>1, <3>2
    <2>7. \A q \in Process : d.pointers[q] # 0 => ob.pointers[q] # 0
        BY <1>2, <2>2, <2>6 DEF Frame
    <2>8. d.signal = ob.signal /\ d.waiters = ob.waiters
        BY <1>2, <2>2 DEF Frame
    <2>9. ObP!Steady(d, Life(ke, ps.used \cup {p}), H0)
        BY <2>4, <2>5
    <2> HIDE DEF d
    <2>10. Settled(ke, d, u)
        BY <1>3, <1>7, <2>7, <2>8, <2>9, CreatedSettled
    <2>11. Works(ke, d, u)
        BY <1>1, <1>7, <2>9, <2>10 DEF Works, H0
    <2>12. EndsByDeath
        BY <2>1, <2>8 DEF EndsByDeath
    <2> QED BY <1>1, <2>1, <2>10, <2>11, <2>12 DEF Steps
<1>9. CASE CreateSucceeds(p, prio)
    <2> DEFINE k == KeStartSchedulingProcess(NewProcess(ke, p, prio), p)
    <2>1. ke' = k /\ ob' = (IF k.bugcheck THEN r ELSE e) /\ ps' = u
        BY <1>9 DEF CreateSucceeds, u
    <2>2. /\ k \in KeState /\ k.scheduled = ke.scheduled \cup {p} /\ k.blocked = ke.blocked
          /\ ~k.bugcheck => Healthy(k)
          /\ prio \in Priorities => ~k.bugcheck
        <3>1. CASE prio \in Priorities
            <4>1. /\ Healthy(k) /\ k.scheduled = ke.scheduled \cup {p} /\ k.blocked = ke.blocked
                  /\ ~k.bugcheck
                BY <1>1, <1>3, <3>1, StartHealthy
            <4> HIDE DEF k
            <4>2. k \in KeState
                BY <4>1, AliveFacts DEF Healthy
            <4> QED BY <4>1, <4>2 DEF k
        <3>2. CASE prio \notin Priorities
            <4>1. prio \in Nat
                BY ProcessesAssumption
            <4> QED BY <1>3, <3>2, <4>1, StartHalts
        <3> QED BY <3>1, <3>2
    <2> HIDE DEF k, o
    <2>3. L0 \in [Process -> Ob!Lives] /\ L1[p] = "awake" /\ L1[ke.current] = "awake"
        <3>1. L0 \in [Process -> Ob!Lives]
            BY <1>1, WorksFacts, SteadyFacts DEF L0
        <3> QED BY <1>1, <3>1
    <2>4. L1 = Life(k, ps.used \cup {p})
        <3>1. \A q \in Process : L1[q] = Life(k, ps.used \cup {p})[q]
            BY <1>3, <1>5, <2>2, <2>3 DEF Life
        <3>2. Life(k, ps.used \cup {p}) = [q \in Process |-> Life(k, ps.used \cup {p})[q]]
            BY DEF Life
        <3> QED BY <2>3, <3>1, <3>2
    <2> HIDE DEF L1
    <2>5. o.pointers[p] # 0
        <3>1. H1[p] > 0
            BY <1>6
        <3> QED BY <1>2, <3>1, SteadyFacts
    <2>6. ObP!Steady(h, L1, H1) /\ Frame(o, h)
        BY <1>1, <1>2, <2>3, <2>5, OpenWorks
    <2> HIDE DEF h
    <2>7. h.pointers[p] # 0
        <3>1. H1[p] > 0
            BY <1>6
        <3> QED BY <2>6, <3>1, SteadyFacts
    <2>8. ObP!Steady(r, L1, H2) /\ Frame(h, r)
        BY <2>6, <2>7, ReferenceWorks DEF H2
    <2> HIDE DEF r
    <2>9. ObP!Steady(e, L1, H1) /\ Frame(r, e)
        BY <1>6, <2>8, DereferenceWorks
    <2> HIDE DEF e
    <2>10. /\ r.signal = ob.signal /\ r.waiters = ob.waiters
           /\ \A q \in Process : r.pointers[q] # 0 => ob.pointers[q] # 0 \/ q = p
        BY <1>2, <2>6, <2>8 DEF Frame
    <2>11. /\ e.signal = ob.signal /\ e.waiters = ob.waiters
           /\ \A q \in Process : e.pointers[q] # 0 => ob.pointers[q] # 0 \/ q = p
        BY <2>9, <2>10 DEF Frame
    <2>12. p \in k.scheduled
        BY <2>2
    <2>13. Settled(k, r, u)
        BY <1>7, <2>2, <2>4, <2>8, <2>10, <2>12, CreatedSettled
    <2>14. Settled(k, e, u)
        BY <1>7, <2>2, <2>4, <2>9, <2>11, <2>12, CreatedSettled
    <2>15. Held(k, ps.leaked) = H1
        <3>1. \A q \in Process : H1[q] = IF q = p THEN 1 ELSE H0[q]
            BY <1>6 DEF H1
        <3>2. \A q \in Process : Held(k, ps.leaked)[q] = H1[q]
            BY <1>2, <1>4, <2>2, <3>1 DEF Held
        <3>3. H1 = [q \in Process |-> H1[q]]
            BY <1>6 DEF H1
        <3> QED BY <3>2, <3>3 DEF Held
    <2>16. ~k.bugcheck => Works(k, e, u)
        BY <1>7, <2>2, <2>4, <2>9, <2>14, <2>15 DEF Works
    <2>17. EndsByDeath
        BY <2>1, <2>10, <2>11 DEF EndsByDeath
    <2>18. CASE k.bugcheck
        BY <2>1, <2>2, <2>13, <2>18, <2>17 DEF Steps
    <2>19. CASE ~k.bugcheck
        BY <2>1, <2>2, <2>14, <2>16, <2>19, <2>17 DEF Steps
    <2> QED BY <2>18, <2>19
<1> QED BY <1>8, <1>9

\* A reference that is taken and given up again.
LEMMA ReferenceAndBack ==
    ASSUME NEW H \in [Process -> Nat], NEW p \in Process
    PROVE  /\ [H EXCEPT ![p] = @ + 1] \in [Process -> Nat]
           /\ [H EXCEPT ![p] = @ + 1][p] > 0
           /\ [[H EXCEPT ![p] = @ + 1] EXCEPT ![p] = @ - 1] = H
<1> DEFINE K == [H EXCEPT ![p] = @ + 1]
<1>1. \A n \in Nat : n + 1 \in Nat /\ n + 1 > 0 /\ (n + 1) - 1 = n
    OBVIOUS
<1>2. K \in [Process -> Nat] /\ K[p] = H[p] + 1 /\ \A q \in Process : q # p => K[q] = H[q]
    OBVIOUS
<1> HIDE DEF K
<1>3. \A q \in Process : [K EXCEPT ![p] = @ - 1][q] = H[q]
    BY <1>1, <1>2
<1>4. [K EXCEPT ![p] = @ - 1] = H
    BY <1>2, <1>3
<1>5. K[p] > 0
    BY <1>1, <1>2
<1> QED BY <1>2, <1>4, <1>5 DEF K

\* A process that was stopped, closed and signalled.
LEMMA DeathSettled ==
    ASSUME Works(ke, ob, ps), NEW p \in ke.scheduled, p # Idle,
           NEW j \in KeState, j.scheduled = ke.scheduled \ {p},
           NEW r, NEW H, ObP!Steady(r, Life(j, ps.used), H),
           r.signal = [ob.signal EXCEPT ![p] = TRUE],
           r.waiters = [ob.waiters EXCEPT ![p] = <<>>],
           \A q \in Process : r.pointers[q] # 0 => ob.pointers[q] # 0
    PROVE  Settled(j, r, [ps EXCEPT !.exited = @ \cup {p}])
<1> DEFINE u == [ps EXCEPT !.exited = @ \cup {p}]
<1>1. Settled(ke, ob, ps) /\ \A q \in Process : Ob!Exists(ob, q) <=> ob.pointers[q] # 0
    BY WorksFacts
<1>2. r \in Ob!ObState /\ ~r.bugcheck /\ ObP!Queued(r, Life(j, ps.used))
    BY SteadyFacts
<1>3. \A q \in Process : Ob!Exists(r, q) <=> r.pointers[q] # 0
    BY SteadyFacts
<1>4. \A q \in Process : Ob!Exists(r, q) => Ob!Exists(ob, q)
    BY <1>1, <1>3
<1>5. /\ ob.signal \in [Process -> BOOLEAN] /\ ob.waiters \in [Process -> Seq(Process)]
      /\ p \in Process /\ ps \in PsState
    BY <1>1 DEF Settled, Ob!ObState, KeState
<1>6. /\ u \in PsState /\ u.pid = ps.pid /\ u.used = ps.used /\ u.exited = ps.exited \cup {p}
    <2> DEFINE X == ps.exited \cup {p}
    <2>1. X \subseteq Process
        BY <1>5 DEF PsState
    <2>2. u = [ps EXCEPT !.exited = X]
        OBVIOUS
    <2> HIDE DEF X, u
    <2>3. u \in PsState /\ u.pid = ps.pid /\ u.used = ps.used /\ u.exited = X
        BY <1>5, <2>1, <2>2 DEF PsState
    <2> QED BY <2>3 DEF X
<1> HIDE DEF u
<1>7. \A x, y \in Process : Ob!Exists(r, x) /\ Ob!Exists(r, y) /\ x # y => u.pid[x] # u.pid[y]
    BY <1>1, <1>4, <1>6 DEF Settled
<1>8. \A q \in Process : Ob!Exists(r, q) => q \in j.scheduled \cup u.exited
    BY <1>1, <1>4, <1>6 DEF Settled
<1>9. \A q \in Process : r.signal[q] <=> q \in u.exited
    <2> SUFFICES ASSUME NEW q \in Process PROVE r.signal[q] <=> q \in u.exited
        OBVIOUS
    <2>1. CASE q = p
        BY <1>5, <1>6, <2>1
    <2>2. CASE q # p
        <3>1. r.signal[q] = ob.signal[q]
            BY <1>5, <2>2
        <3>2. ob.signal[q] <=> q \in ps.exited
            BY <1>1 DEF Settled
        <3> QED BY <1>6, <2>2, <3>1, <3>2
    <2> QED BY <2>1, <2>2
<1>10. \A q \in Process : r.waiters[q] # <<>> => q \in j.scheduled
    <2> SUFFICES ASSUME NEW q \in Process, r.waiters[q] # <<>> PROVE q \in j.scheduled
        OBVIOUS
    <2>1. q # p /\ ob.waiters[q] # <<>>
        BY <1>5
    <2> QED BY <1>1, <2>1 DEF Settled
<1>11. /\ Idle \in j.scheduled /\ j.scheduled \subseteq u.used
       /\ u.exited \subseteq u.used \ j.scheduled /\ u.pid[Idle] = 0
    BY <1>1, <1>6 DEF Settled
<1>12. Settled(j, r, u)
    BY <1>2, <1>6, <1>7, <1>8, <1>9, <1>10, <1>11 DEF Settled
<1> QED BY <1>12 DEF u

\* What is left of a killed process: the references but the scheduler's.
LEMMA HeldFacts ==
    ASSUME NEW k, NEW leaked \in [Process -> Nat]
    PROVE  /\ Held(k, leaked) \in [Process -> Nat]
           /\ \A q \in Process : q \in k.scheduled => Held(k, leaked)[q] > 0
<1>1. \A n \in Nat : n + 1 \in Nat /\ n + 0 = n /\ n + 1 > 0
    OBVIOUS
<1>2. ASSUME NEW q \in Process
      PROVE  Held(k, leaked)[q] \in Nat /\ (q \in k.scheduled => Held(k, leaked)[q] > 0)
    <2>1. Held(k, leaked)[q] = leaked[q] + (IF q \in k.scheduled THEN 1 ELSE 0)
        BY DEF Held
    <2>2. leaked[q] \in Nat
        OBVIOUS
    <2> QED BY <1>1, <2>1, <2>2
<1> QED BY <1>2 DEF Held

\* The scheduler's reference goes with the process.
LEMMA HeldAfterDeath ==
    ASSUME NEW k, NEW leaked \in [Process -> Nat], NEW p \in Process, p \in k.scheduled,
           NEW j, j.scheduled = k.scheduled \ {p}
    PROVE  Held(j, leaked) = [Held(k, leaked) EXCEPT ![p] = @ - 1]
<1>1. \A n \in Nat : n + 0 = n /\ (n + 1) - 1 = n
    OBVIOUS
<1>2. Held(k, leaked)[p] = leaked[p] + 1 /\ Held(j, leaked)[p] = leaked[p] + 0
    BY DEF Held
<1>3. \A q \in Process : q # p => Held(j, leaked)[q] = Held(k, leaked)[q]
    BY DEF Held
<1>4. Held(k, leaked) \in [Process -> Nat]
    BY HeldFacts
<1>5. \A q \in Process : Held(j, leaked)[q] = [Held(k, leaked) EXCEPT ![p] = @ - 1][q]
    BY <1>1, <1>2, <1>3, <1>4
<1>6. Held(j, leaked) = [q \in Process |-> Held(j, leaked)[q]]
    BY DEF Held
<1> QED BY <1>4, <1>5, <1>6

\* PsKillMe.
LEMMA KillMeStep ==
    ASSUME Works(ke, ob, ps), PsKillMe
    PROVE  Steps(ke', ob', ps') /\ EndsByDeath /\ ~ke'.bugcheck
<1> DEFINE p == ke.current
           H == Held(ke, ps.leaked)
           r == PsKillProcess(ob, p)
           u == [ps EXCEPT !.exited = @ \cup {p}]
<1>1. /\ Settled(ke, ob, ps) /\ Healthy(ke) /\ ke.scheduled \subseteq ps.used
      /\ ke.scheduled \subseteq Process
      /\ ObP!Steady(ob, Life(ke, ps.used), H)
    BY WorksFacts
<1>2. p \in ke.scheduled /\ ~Contains(ke.blocked, p) /\ p # Idle
    BY <1>1, AliveFacts DEF Healthy, PsKillMe, CallsLater
<1>3. ps.leaked \in [Process -> Nat]
    BY <1>1 DEF Settled, PsState
<1>4. H[p] > 0 /\ p \in Process
    BY <1>1, <1>2, <1>3, HeldFacts
<1> HIDE DEF H
<1>5. /\ Healthy(r.ke) /\ ~r.ke.bugcheck
      /\ r.ke.scheduled = ke.scheduled \ {p}
      /\ ObP!Steady(r.ob, Life(r.ke, ps.used), [H EXCEPT ![p] = @ - 1])
      /\ r.killed = {p}
      /\ r.ob.signal = [ob.signal EXCEPT ![p] = TRUE]
      /\ r.ob.waiters = [ob.waiters EXCEPT ![p] = <<>>]
      /\ \A q \in Process : r.ob.pointers[q] # 0 => ob.pointers[q] # 0
    BY <1>1, <1>2, <1>4, KillProcessFacts
<1>6. ke' = r.ke /\ ob' = r.ob /\ ps' = u
    BY <1>5 DEF PsKillMe
<1>7. u.leaked = ps.leaked /\ u.used = ps.used
    BY <1>1 DEF Settled, PsState
<1>8. EndsByDeath
    <2>1. p \in u.exited /\ ob.waiters \in [Process -> Seq(Process)]
        BY <1>1 DEF Settled, PsState, Ob!ObState
    <2> HIDE DEF r, u
    <2>2. \A q \in Process \ {p} : ob'.waiters[q] = ob.waiters[q]
        BY <1>4, <1>5, <1>6, <2>1
    <2> QED BY <1>6, <2>1, <2>2 DEF EndsByDeath
<1> HIDE DEF r, p
<1>9. r.ke \in KeState
    BY <1>5, AliveFacts DEF Healthy
<1>10. Settled(r.ke, r.ob, u)
    BY <1>2, <1>5, <1>9, DeathSettled
<1>11. Held(r.ke, ps.leaked) = [H EXCEPT ![p] = @ - 1]
    <2>1. Held(r.ke, ps.leaked) = [Held(ke, ps.leaked) EXCEPT ![p] = @ - 1]
        BY <1>2, <1>3, <1>4, <1>5, HeldAfterDeath
    <2> QED BY <2>1 DEF H
<1> HIDE DEF u
<1>12. Works(r.ke, r.ob, u)
    BY <1>5, <1>7, <1>10, <1>11 DEF Works
<1> QED BY <1>5, <1>6, <1>10, <1>12, <1>8 DEF Steps

\* Who can be killed without being missed.
LEMMA VictimFacts ==
    ASSUME Healthy(ke), NEW p \in Process, Kind(p) \notin Needed, p \in ke.scheduled
    PROVE  p # Idle /\ ~Contains(ke.blocked, p)
<1>1. Kind(p) # "idle" /\ Kind(p) # "waiting"
    BY DEF Needed
<1>2. p # Idle
    BY <1>1 DEF Kind
<1>3. p = ke.current \/ ke.state[p] = "ready" \/ Contains(ke.timer, p)
    BY <1>1, <1>2 DEF Kind, Scheduled
<1>4. /\ ~Contains(ke.blocked, ke.current)
      /\ Contains(ke.blocked, p) => ke.state[p] = "blocked" /\ ~Contains(ke.timer, p)
    BY AliveFacts DEF Healthy
<1> QED BY <1>2, <1>3, <1>4

\* PsKillByPID: it halts for a process that is dead and ends only the waits for
\* the one it kills.
LEMMA KillByPIDStep ==
    ASSUME Works(ke, ob, ps), NEW p \in Process, PsKillByPID(p), ps'.missed = {}
    PROVE  /\ Steps(ke', ob', ps') /\ EndsByDeath
           /\ Scheduled(p) => ~ke'.bugcheck
<1> DEFINE H  == Held(ke, ps.leaked)
           H1 == [H EXCEPT ![p] = @ + 1]
           o  == Ob!ObReferenceObject(ob, p, processType)
           r  == PsKillProcess(o, p)
           u  == [ps EXCEPT !.exited = @ \cup {p}]
           f  == Ob!ObDereferenceObject(r.ob, p)
           M  == ps.missed \cup {q \in {p} : Kind(q) \in Needed}
<1>1. /\ Settled(ke, ob, ps) /\ Healthy(ke) /\ ke.scheduled \subseteq ps.used
      /\ ke.scheduled \subseteq Process
      /\ ObP!Steady(ob, Life(ke, ps.used), H)
      /\ \A q \in Process : Ob!Exists(ob, q) <=> ob.pointers[q] # 0
    BY WorksFacts
<1>2. Exists(p) /\ ke.current # Idle
    BY DEF PsKillByPID, WithPID, CallsLater
<1>a. ps' = [ps EXCEPT !.exited = @ \cup r.killed, !.missed = M]
    BY DEF PsKillByPID
<1>b. ps.missed = {} /\ M = {} /\ Kind(p) \notin Needed
    <2>1. ps \in PsState
        BY <1>1 DEF Settled
    <2> HIDE DEF M, r
    <2>2. M = {}
        BY <1>a, <2>1 DEF PsState
    <2> QED BY <2>2 DEF M
<1>c. ps' = [ps EXCEPT !.exited = @ \cup r.killed]
    <2> DEFINE X == ps.exited \cup r.killed
    <2>1. ps \in PsState /\ ps' = [ps EXCEPT !.exited = X, !.missed = M]
        BY <1>1, <1>a DEF Settled
    <2> HIDE DEF M, X
    <2>2. ps' = [ps EXCEPT !.exited = X]
        BY <1>b, <2>1 DEF PsState
    <2> QED BY <2>2 DEF X
<1> HIDE DEF M
<1>3. ob.pointers[p] # 0 /\ H \in [Process -> Nat] /\ ke \in KeState /\ ps \in PsState
    BY <1>1, <1>2, SteadyFacts DEF Exists, Settled
<1>4. ObP!Steady(o, Life(ke, ps.used), H1) /\ Frame(ob, o)
    BY <1>1, <1>3, ReferenceWorks
<1>5. H1[p] > 0 /\ [H1 EXCEPT ![p] = @ - 1] = H /\ H1 \in [Process -> Nat]
    BY <1>3, ReferenceAndBack
<1> HIDE DEF H, H1
<1>6. CASE p \in ke.scheduled
    <2>1. p # Idle /\ ~Contains(ke.blocked, p)
        BY <1>1, <1>b, <1>6, VictimFacts
    <2> HIDE DEF o
    <2>2. /\ Healthy(r.ke) /\ ~r.ke.bugcheck
          /\ r.ke.scheduled = ke.scheduled \ {p}
          /\ ObP!Steady(r.ob, Life(r.ke, ps.used), [H1 EXCEPT ![p] = @ - 1])
          /\ r.killed = {p}
          /\ r.ob.signal = [o.signal EXCEPT ![p] = TRUE]
          /\ r.ob.waiters = [o.waiters EXCEPT ![p] = <<>>]
          /\ \A q \in Process : r.ob.pointers[q] # 0 => o.pointers[q] # 0
        <3>1. /\ ke.scheduled \subseteq ps.used /\ Healthy(ke) /\ ke.current # Idle
              /\ p \in ke.scheduled /\ p # Idle /\ ~Contains(ke.blocked, p)
              /\ ObP!Steady(o, Life(ke, ps.used), H1) /\ H1[p] > 0
            BY <1>1, <1>2, <1>4, <1>5, <1>6, <2>1
        <3> QED BY <3>1, KillProcessFacts
    <2>3. ke' = r.ke /\ ob' = f /\ ps' = u
        BY <1>c, <2>2 DEF PsKillByPID, o
    <2>4. u.leaked = ps.leaked /\ u.used = ps.used
        BY <1>3 DEF PsState
    <2>5. ps.leaked \in [Process -> Nat]
        BY <1>3 DEF PsState
    <2> HIDE DEF r
    <2>6. r.ke \in KeState
        BY <2>2, AliveFacts DEF Healthy
    <2>7. H[p] > 0 /\ Held(r.ke, ps.leaked) = [H EXCEPT ![p] = @ - 1]
        <3>1. Held(r.ke, ps.leaked) = [Held(ke, ps.leaked) EXCEPT ![p] = @ - 1]
            BY <1>6, <2>2, <2>5, HeldAfterDeath
        <3>2. Held(ke, ps.leaked)[p] > 0
            BY <1>6, <2>5, HeldFacts
        <3> QED BY <3>1, <3>2 DEF H
    <2>8. ObP!Steady(r.ob, Life(r.ke, ps.used), H)
        BY <1>5, <2>2
    <2>9. ObP!Steady(f, Life(r.ke, ps.used), [H EXCEPT ![p] = @ - 1]) /\ Frame(r.ob, f)
        BY <2>7, <2>8, DereferenceWorks
    <2> HIDE DEF f
    <2>10. /\ f.signal = [ob.signal EXCEPT ![p] = TRUE]
           /\ f.waiters = [ob.waiters EXCEPT ![p] = <<>>]
           /\ \A q \in Process : f.pointers[q] # 0 => ob.pointers[q] # 0
        BY <1>4, <2>2, <2>9 DEF Frame
    <2>11. Settled(r.ke, f, u)
        BY <1>6, <2>1, <2>2, <2>6, <2>9, <2>10, DeathSettled
    <2>12. EndsByDeath
        <3>1. p \in u.exited /\ ob.waiters \in [Process -> Seq(Process)]
            BY <1>1, <1>3 DEF Settled, PsState, Ob!ObState
        <3> HIDE DEF u
        <3>2. \A q \in Process \ {p} : ob'.waiters[q] = ob.waiters[q]
            BY <2>3, <2>10, <3>1
        <3> QED BY <2>3, <3>1, <3>2 DEF EndsByDeath
    <2> HIDE DEF u
    <2>13. Works(r.ke, f, u)
        BY <2>2, <2>4, <2>7, <2>9, <2>11 DEF Works
    <2> QED BY <2>2, <2>3, <2>11, <2>13, <2>12 DEF Steps
<1>7. CASE p \notin ke.scheduled
    <2> DEFINE x == Ob!ObReferenceObject(o, p, processType)
               b == KeBugCheck(ke)
    <2>1. KeStopSchedulingProcess(ke, p) = b
        BY <1>1, <1>7, StopHalts
    <2>2. /\ b \in KeState /\ b.bugcheck /\ b.scheduled = ke.scheduled /\ b.blocked = ke.blocked
        BY <1>3 DEF KeBugCheck, KeState
    <2> HIDE DEF b
    <2>3. r = [ke |-> b, ob |-> x, killed |-> {}]
        BY <2>1, <2>2 DEF PsKillProcess
    <2>4. ke' = b /\ ob' = x /\ ps' = [ps EXCEPT !.exited = @ \cup {}]
        <3>1. ke' = b /\ ob' = x
            BY <2>2, <2>3 DEF PsKillByPID
        <3>2. r.killed = {}
            BY <2>3
        <3> HIDE DEF r
        <3>3. ps' = [ps EXCEPT !.exited = @ \cup {}]
            BY <1>c, <3>2
        <3> QED BY <3>1, <3>3
    <2>5. [ps EXCEPT !.exited = @ \cup {}] = ps
        <3>1. ps.exited \cup {} = ps.exited
            OBVIOUS
        <3>2. [ps EXCEPT !.exited = ps.exited] = ps
            BY <1>3 DEF PsState
        <3> QED BY <3>1, <3>2
    <2> HIDE DEF o
    <2>6. o.pointers[p] # 0
        BY <1>4, <1>5, SteadyFacts
    <2>7. ObP!Steady(x, Life(ke, ps.used), [H1 EXCEPT ![p] = @ + 1]) /\ Frame(o, x)
        BY <1>4, <2>6, ReferenceWorks
    <2> HIDE DEF x
    <2>8. Life(b, ps.used) = Life(ke, ps.used)
        BY <2>2 DEF Life
    <2>9. Frame(ob, x)
        BY <1>4, <2>7 DEF Frame
    <2>10. Settled(b, x, ps)
        <3>1. /\ x.signal = ob.signal
              /\ \A q \in Process : x.pointers[q] # 0 => ob.pointers[q] # 0
              /\ \A q \in Process : x.waiters[q] # <<>> =>
                    ob.waiters[q] # <<>> \/ (ob.pointers[q] # 0 /\ ~ob.signal[q])
            BY <2>9, FrameWeakens
        <3>2. ObP!Steady(x, Life(b, ps.used), [H1 EXCEPT ![p] = @ + 1])
            BY <2>7, <2>8
        <3> QED BY <1>3, <2>2, <3>1, <3>2, FramedSettled
    <2>11. EndsByDeath
        BY <2>4, <2>9 DEF EndsByDeath, Frame
    <2> QED BY <1>7, <2>2, <2>4, <2>5, <2>10, <2>11 DEF Steps, Scheduled
<1> QED BY <1>6, <1>7

\* The steps of a call that starts and stops no process.
LEMMA FramedStep ==
    ASSUME Works(ke, ob, ps),
           NEW j \in KeState, j.scheduled = ke.scheduled, ~j.bugcheck => Healthy(j),
           NEW u \in PsState, u.pid = ps.pid, u.exited = ps.exited, u.used = ps.used,
           NEW r, ObP!Steady(r, Life(j, ps.used), Held(j, u.leaked)),
           r.signal = ob.signal,
           \A q \in Process : r.pointers[q] # 0 => ob.pointers[q] # 0,
           \A q \in Process : r.waiters[q] # <<>> =>
              ob.waiters[q] # <<>> \/ (ob.pointers[q] # 0 /\ ~ob.signal[q])
    PROVE  Steps(j, r, u)
<1> DEFINE H == Held(j, u.leaked)
<1>1. ObP!Steady(r, Life(j, ps.used), H)
    OBVIOUS
<1> HIDE DEF H
<1>2. Settled(j, r, u)
    BY <1>1, FramedSettled
<1> QED BY <1>1, <1>2 DEF Steps, Works, H

\* Two states of the scheduler with the same processes, blocked alike.
LEMMA SameLife ==
    ASSUME NEW k, NEW j, j.scheduled = k.scheduled, NEW used, NEW leaked,
           \A x : Contains(j.blocked, x) <=> Contains(k.blocked, x)
    PROVE  Life(j, used) = Life(k, used) /\ Held(j, leaked) = Held(k, leaked)
BY DEF Life, Held

\* The frame of a call that leaves the objects alone.
LEMMA NothingMoves ==
    /\ ob.signal = ob.signal
    /\ \A q \in Process : ob.pointers[q] # 0 => ob.pointers[q] # 0
    /\ \A q \in Process : ob.waiters[q] # <<>> =>
          ob.waiters[q] # <<>> \/ (ob.pointers[q] # 0 /\ ~ob.signal[q])
OBVIOUS

\* Sleep and the timer interrupt.
LEMMA SchedulerStep ==
    ASSUME Works(ke, ob, ps), NEW j, Healthy(j), j.scheduled = ke.scheduled,
           \A x : Contains(j.blocked, x) <=> Contains(ke.blocked, x)
    PROVE  Steps(j, ob, ps)
<1>1. j \in KeState /\ ps \in PsState
    BY AliveFacts, WorksFacts DEF Healthy, Settled
<1>2. ObP!Steady(ob, Life(ke, ps.used), Held(ke, ps.leaked))
    BY WorksFacts
<1>3. Life(j, ps.used) = Life(ke, ps.used) /\ Held(j, ps.leaked) = Held(ke, ps.leaked)
    BY SameLife
<1>4. ObP!Steady(ob, Life(j, ps.used), Held(j, ps.leaked))
    BY <1>2, <1>3
<1> QED BY <1>1, <1>4, NothingMoves, FramedStep

\* The calls on objects that leave the scheduler alone.
LEMMA ObjectStep ==
    ASSUME Works(ke, ob, ps), NEW r, Frame(ob, r),
           ObP!Steady(r, Life(ke, ps.used), Held(ke, ps.leaked))
    PROVE  Steps(ke, r, ps)
<1>1. /\ r.signal = ob.signal
      /\ \A q \in Process : r.pointers[q] # 0 => ob.pointers[q] # 0
      /\ \A q \in Process : r.waiters[q] # <<>> =>
            ob.waiters[q] # <<>> \/ (ob.pointers[q] # 0 /\ ~ob.signal[q])
    BY FrameWeakens
<1>2. Healthy(ke) /\ ke \in KeState /\ ps \in PsState
    BY WorksFacts DEF Settled
<1> QED BY <1>1, <1>2, FramedStep

\* The sleep of the current process.
LEMMA SleepStep ==
    ASSUME Works(ke, ob, ps), NEW ms \in Sleeps, Sleep(ms)
    PROVE  Steps(ke', ob', ps') /\ EndsByDeath /\ ~ke'.bugcheck
<1>1. Healthy(ke) /\ ke.current # Idle /\ ms \in Ulong
    BY WorksFacts, SchedulerAssumption DEF Sleep, CallsLater
<1>2. ke' = KeSuspendProcess(ke, ms, FALSE) /\ ob' = ob /\ ps' = ps
    BY DEF Sleep
<1> DEFINE j == KeSuspendProcess(ke, ms, FALSE)
<1>3. Healthy(j) /\ ~j.bugcheck /\ j.scheduled = ke.scheduled /\ j.blocked = ke.blocked
    BY <1>1, SuspendHealthy
<1> HIDE DEF j
<1>4. Steps(j, ob, ps)
    BY <1>3, SchedulerStep
<1>5. EndsByDeath
    BY <1>2 DEF EndsByDeath
<1> QED BY <1>2, <1>3, <1>4, <1>5 DEF j

\* The timer interrupt.
LEMMA TickStep ==
    ASSUME Works(ke, ob, ps), Tick
    PROVE  Steps(ke', ob', ps') /\ EndsByDeath /\ ~ke'.bugcheck
<1>1. Healthy(ke)
    BY WorksFacts
<1>2. ke' = KeHandleTimer(ke) /\ ob' = ob /\ ps' = ps
    BY DEF Tick
<1> DEFINE j == KeHandleTimer(ke)
<1>3. /\ Healthy(j) /\ ~j.bugcheck /\ j.scheduled = ke.scheduled
      /\ \A x : Contains(j.blocked, x) <=> Contains(ke.blocked, x)
    BY <1>1, TimerHealthy
<1> HIDE DEF j
<1>4. Steps(j, ob, ps)
    BY <1>3, SchedulerStep
<1>5. EndsByDeath
    BY <1>2 DEF EndsByDeath
<1> QED BY <1>2, <1>3, <1>4, <1>5 DEF j

\* The end of a handle, by its owner.
LEMMA CloseStep ==
    ASSUME Works(ke, ob, ps), NEW h, CloseHandle(h)
    PROVE  Steps(ke', ob', ps') /\ EndsByDeath /\ ~ke'.bugcheck
<1> DEFINE c == ke.current
           r == Ob!ObCloseHandle(ob, c, h)
<1>1. /\ c \in Process /\ Life(ke, ps.used)[c] = "awake"
      /\ ObP!Steady(ob, Life(ke, ps.used), Held(ke, ps.leaked))
    BY WorksFacts
<1>2. ke' = ke /\ ob' = r /\ ps' = ps
    BY DEF CloseHandle
<1> HIDE DEF c
<1>3. ObP!Steady(r, Life(ke, ps.used), Held(ke, ps.leaked)) /\ Frame(ob, r)
    BY <1>1, CloseWorks
<1> HIDE DEF r
<1>4. Steps(ke, r, ps)
    BY <1>3, ObjectStep
<1>5. EndsByDeath
    BY <1>2, <1>3 DEF EndsByDeath, Frame
<1>6. ~ke.bugcheck
    BY WorksFacts
<1> QED BY <1>2, <1>4, <1>5, <1>6

\* PsOpenProcess.
LEMMA OpenStep ==
    ASSUME Works(ke, ob, ps), NEW p \in Process, PsOpenProcess(p)
    PROVE  Steps(ke', ob', ps') /\ EndsByDeath /\ ~ke'.bugcheck
<1> DEFINE c == ke.current
           r == Ob!ObOpenObjectByPointer(ob, c, p, FALSE, processType)
<1>1. /\ c \in Process /\ Life(ke, ps.used)[c] = "awake"
      /\ ObP!Steady(ob, Life(ke, ps.used), Held(ke, ps.leaked))
      /\ \A q \in Process : Ob!Exists(ob, q) <=> ob.pointers[q] # 0
    BY WorksFacts
<1>2. ke' = ke /\ ob' = r /\ ps' = ps /\ ob.pointers[p] # 0
    BY <1>1 DEF PsOpenProcess, WithPID, Exists
<1> HIDE DEF c
<1>3. ObP!Steady(r, Life(ke, ps.used), Held(ke, ps.leaked)) /\ Frame(ob, r)
    BY <1>1, <1>2, OpenWorks
<1> HIDE DEF r
<1>4. Steps(ke, r, ps)
    BY <1>3, ObjectStep
<1>5. EndsByDeath
    BY <1>2, <1>3 DEF EndsByDeath, Frame
<1>6. ~ke.bugcheck
    BY WorksFacts
<1> QED BY <1>2, <1>4, <1>5, <1>6

\* A wait, whether it blocks or not.
LEMMA WaitStep ==
    ASSUME Works(ke, ob, ps), NEW h, WaitForSingleObject(h)
    PROVE  Steps(ke', ob', ps') /\ EndsByDeath /\ ~ke'.bugcheck
<1> DEFINE c == ke.current
           L == Life(ke, ps.used)
           b == Ob!Blocks(ob, c, h)
           r == Ob!ObWaitForSingleObject(ob, c, h)
           j == IF b THEN KeBlockProcess(ke) ELSE ke
<1>1. /\ c \in Process /\ L[c] = "awake" /\ Healthy(ke) /\ ke \in KeState /\ ps \in PsState
      /\ ObP!Steady(ob, L, Held(ke, ps.leaked))
    BY WorksFacts DEF Settled
<1>2. ke' = j /\ ob' = r /\ ps' = ps /\ c # Idle
    BY DEF WaitForSingleObject, CallsLater
<1>3. c \in ke.scheduled
    BY <1>1, AliveFacts DEF Healthy
<1> HIDE DEF L
<1>4. /\ ObP!Steady(r, IF b THEN [L EXCEPT ![c] = "asleep"] ELSE L, Held(ke, ps.leaked))
      /\ r.signal = ob.signal
      /\ \A q \in Process : r.pointers[q] # 0 => ob.pointers[q] # 0
      /\ \A q \in Process : r.waiters[q] # <<>> =>
            ob.waiters[q] # <<>> \/ (ob.pointers[q] # 0 /\ ~ob.signal[q])
      /\ \A q, x \in Process : Contains(ob.waiters[q], x) => Contains(r.waiters[q], x)
    BY <1>1, WaitWorks
<1> HIDE DEF r, b
<1>5. EndsByDeath
    BY <1>2, <1>4 DEF EndsByDeath
<1>6. ~ke.bugcheck
    BY WorksFacts
<1>7. CASE ~b
    <2>1. j = ke
        BY <1>7
    <2>2. ObP!Steady(r, Life(ke, ps.used), Held(ke, ps.leaked))
        BY <1>4, <1>7 DEF L
    <2>3. Steps(ke, r, ps)
        BY <1>1, <1>4, <2>2, FramedStep
    <2> QED BY <1>2, <1>5, <1>6, <2>1, <2>3
<1>8. CASE b
    <2> DEFINE k == KeBlockProcess(ke)
    <2>1. /\ Healthy(k) /\ ~k.bugcheck /\ k.scheduled = ke.scheduled
          /\ \A x : Contains(k.blocked, x) <=> Contains(ke.blocked, x) \/ x = c
        BY <1>1, <1>2, BlockHealthy
    <2>2. j = k
        BY <1>8
    <2> HIDE DEF k, c
    <2>3. k \in KeState
        BY <2>1, AliveFacts DEF Healthy
    <2>4. Life(k, ps.used) = [L EXCEPT ![c] = "asleep"]
        <3>1. L \in [Process -> Ob!Lives] /\ L = [q \in Process |-> L[q]]
            BY <1>1, SteadyFacts
        <3>2. \A q \in Process : L[q] = IF q \notin ps.used THEN "unborn"
                                        ELSE IF q \notin ke.scheduled THEN "dead"
                                        ELSE IF Contains(ke.blocked, q) THEN "asleep" ELSE "awake"
            BY DEF L, Life
        <3>3. c \in ps.used
            BY <1>1, <3>2
        <3>4. ASSUME NEW q \in Process PROVE Life(k, ps.used)[q] = [L EXCEPT ![c] = "asleep"][q]
            <4>1. Life(k, ps.used)[q] =
                      IF q \notin ps.used THEN "unborn"
                      ELSE IF q \notin ke.scheduled THEN "dead"
                      ELSE IF Contains(ke.blocked, q) \/ q = c THEN "asleep" ELSE "awake"
                BY <2>1 DEF Life
            <4>2. CASE q = c
                BY <1>3, <3>1, <3>3, <4>1, <4>2 DEF c
            <4>3. CASE q # c
                BY <3>1, <3>2, <4>1, <4>3
            <4> QED BY <4>2, <4>3
        <3>5. Life(k, ps.used) = [q \in Process |-> Life(k, ps.used)[q]]
            BY DEF Life
        <3> QED BY <3>1, <3>4, <3>5
    <2>5. Held(k, ps.leaked) = Held(ke, ps.leaked)
        BY <2>1 DEF Held
    <2>6. ObP!Steady(r, Life(k, ps.used), Held(k, ps.leaked))
        BY <1>4, <1>8, <2>4, <2>5
    <2>7. Steps(k, r, ps)
        BY <1>1, <1>4, <2>1, <2>3, <2>6, FramedStep
    <2> QED BY <1>2, <1>5, <2>1, <2>2, <2>7
<1> QED BY <1>7, <1>8

\* PsChangePriority: it halts at most for a process that is dead, and the
\* reference it takes is one of those leaked.
LEMMA ChangePriorityStep ==
    ASSUME Works(ke, ob, ps), NEW p \in Process, NEW prio \in NewPriorities,
           PsChangePriority(p, prio)
    PROVE  /\ Steps(ke', ob', ps') /\ EndsByDeath
           /\ Scheduled(p) => ~ke'.bugcheck
<1> DEFINE H == Held(ke, ps.leaked)
           j == KeChangeProcessPriority(ke, p, prio)
           r == Ob!ObReferenceObject(ob, p, processType)
           K == [ps.leaked EXCEPT ![p] = @ + 1]
           u == [ps EXCEPT !.leaked[p] = @ + 1]
<1>1. /\ Healthy(ke) /\ ke \in KeState /\ ps \in PsState /\ ps.pid[Idle] = 0
      /\ ObP!Steady(ob, Life(ke, ps.used), H)
      /\ \A q \in Process : Ob!Exists(ob, q) <=> ob.pointers[q] # 0
    BY WorksFacts DEF Settled
<1>2. ke' = j /\ ob' = r /\ ps' = u /\ Exists(p) /\ p # Idle
    BY <1>1 DEF PsChangePriority, WithPID
<1>3. prio \in Priorities
    BY SchedulerAssumption
<1>4. /\ j \in KeState /\ j.scheduled = ke.scheduled /\ j.blocked = ke.blocked
      /\ ~j.bugcheck => Healthy(j)
      /\ p \in ke.scheduled => ~j.bugcheck
    <2>1. CASE p \in ke.scheduled
        <3>1. Healthy(j) /\ ~j.bugcheck /\ j.scheduled = ke.scheduled /\ j.blocked = ke.blocked
            BY <1>1, <1>2, <1>3, <2>1, ChangePriorityHealthy
        <3> HIDE DEF j
        <3>2. j \in KeState
            BY <3>1, AliveFacts DEF Healthy
        <3> QED BY <3>1, <3>2 DEF j
    <2>2. CASE p \notin ke.scheduled
        BY <1>1, <1>3, <2>2, ChangePriorityOfDead
    <2> QED BY <2>1, <2>2
<1>5. ob.pointers[p] # 0
    BY <1>1, <1>2 DEF Exists
<1>6. ObP!Steady(r, Life(ke, ps.used), [H EXCEPT ![p] = @ + 1]) /\ Frame(ob, r)
    BY <1>1, <1>5, ReferenceWorks
<1>7. ps.leaked \in [Process -> Nat] /\ K \in [Process -> Nat]
    BY <1>1 DEF PsState
<1>8. u = [ps EXCEPT !.leaked = K]
    OBVIOUS
<1> HIDE DEF j, r, u
<1>9. Held(ke, K) = [H EXCEPT ![p] = @ + 1]
    <2>1. \A n \in Nat : (n + 1) + 1 = (n + 1) + 1 /\ (n + 1) + 0 = (n + 0) + 1
        OBVIOUS
    <2>2. H \in [Process -> Nat]
        BY <1>7, HeldFacts
    <2>3. K[p] = ps.leaked[p] + 1 /\ \A q \in Process : q # p => K[q] = ps.leaked[q]
        BY <1>7
    <2> HIDE DEF K
    <2>4. Held(ke, K)[p] = H[p] + 1
        <3>1. Held(ke, K)[p] = K[p] + (IF p \in ke.scheduled THEN 1 ELSE 0)
            BY DEF Held
        <3>2. H[p] = ps.leaked[p] + (IF p \in ke.scheduled THEN 1 ELSE 0)
            BY DEF Held
        <3>3. ps.leaked[p] \in Nat
            BY <1>7
        <3> QED BY <2>1, <2>3, <3>1, <3>2, <3>3
    <2>5. \A q \in Process : q # p => Held(ke, K)[q] = H[q]
        BY <2>3 DEF Held
    <2> HIDE DEF H
    <2>6. \A q \in Process : Held(ke, K)[q] = [H EXCEPT ![p] = @ + 1][q]
        BY <2>2, <2>4, <2>5
    <2>7. Held(ke, K) = [q \in Process |-> Held(ke, K)[q]]
        BY DEF Held
    <2> QED BY <2>2, <2>6, <2>7
<1> HIDE DEF H, K
<1>10. /\ u \in PsState /\ u.leaked = K
       /\ u.pid = ps.pid /\ u.exited = ps.exited /\ u.used = ps.used
    BY <1>1, <1>7, <1>8 DEF PsState
<1>11. Life(j, ps.used) = Life(ke, ps.used) /\ Held(j, K) = Held(ke, K)
    BY <1>4, SameLife
<1>12. ObP!Steady(r, Life(j, ps.used), Held(j, u.leaked))
    BY <1>6, <1>9, <1>10, <1>11
<1>13. /\ r.signal = ob.signal
       /\ \A q \in Process : r.pointers[q] # 0 => ob.pointers[q] # 0
       /\ \A q \in Process : r.waiters[q] # <<>> =>
             ob.waiters[q] # <<>> \/ (ob.pointers[q] # 0 /\ ~ob.signal[q])
    BY <1>6, FrameWeakens
<1>14. Steps(j, r, u)
    BY <1>4, <1>10, <1>12, <1>13, FramedStep
<1>15. EndsByDeath
    BY <1>2, <1>6 DEF EndsByDeath, Frame
<1> QED BY <1>2, <1>4, <1>14, <1>15 DEF Scheduled
-----------------------------------------------------------------------------
\* Nothing takes a process from those missed.
LEMMA MissedForEver ==
    ASSUME "missed" \in DOMAIN ps, [PsNext]_vars
    PROVE  "missed" \in DOMAIN ps' /\ (ps'.missed = {} => ps.missed = {})
<1>1. CASE UNCHANGED vars \/ UNCHANGED ps
    BY <1>1 DEF vars
<1>2. ASSUME NEW p \in Process, NEW prio \in CreatePriorities, PsCreateProcess(p, prio)
      PROVE  ps' = [ps EXCEPT !.used = @ \cup {p}, !.pid[p] = GetNewPID]
    BY <1>2 DEF PsCreateProcess, CreateFails, CreateSucceeds
<1>3. ASSUME PsKillMe
      PROVE  ps' = [ps EXCEPT !.exited = @ \cup PsKillProcess(ob, ke.current).killed]
    BY <1>3 DEF PsKillMe
<1>4. ASSUME NEW p \in Process, PsKillByPID(p)
      PROVE  \E e, m : ps' = [ps EXCEPT !.exited = e, !.missed = ps.missed \cup m]
    BY <1>4 DEF PsKillByPID
<1>5. ASSUME NEW p \in Process, NEW prio \in NewPriorities, PsChangePriority(p, prio)
      PROVE  ps' = [ps EXCEPT !.leaked[p] = @ + 1]
    BY <1>5 DEF PsChangePriority
<1>6. CASE ~UNCHANGED vars /\ ~UNCHANGED ps
    <2>1. \/ \E p \in Process, prio \in CreatePriorities : PsCreateProcess(p, prio)
          \/ PsKillMe
          \/ \E p \in Process : PsKillByPID(p)
          \/ \E p \in Process, prio \in NewPriorities : PsChangePriority(p, prio)
        BY <1>6 DEF PsNext, Stopped, vars, PsOpenProcess, CloseHandle, WaitForSingleObject,
            Sleep, Tick
    <2>2. CASE \E p \in Process, prio \in CreatePriorities : PsCreateProcess(p, prio)
        BY <1>2, <2>2
    <2>3. CASE PsKillMe
        BY <1>3, <2>3
    <2>4. CASE \E p \in Process : PsKillByPID(p)
        BY <1>4, <2>4
    <2>5. CASE \E p \in Process, prio \in NewPriorities : PsChangePriority(p, prio)
        BY <1>5, <2>5
    <2> QED BY <2>1, <2>2, <2>3, <2>4, <2>5
<1> QED BY <1>1, <1>6

\* The steps before anybody is missed, and what they may do.
LEMMA UnharmedNext ==
    ASSUME Unharmed, [PsNext]_vars, ps'.missed = {}
    PROVE  Unharmed' /\ (UNCHANGED vars \/ (EndsByDeath /\ (~Halted /\ Halted' => Misuse)))
<1>1. CASE UNCHANGED vars
    BY <1>1 DEF vars, Unharmed, Settled, Works, Halted
<1>2. CASE ~Halted /\ PsNext
    <2>1. Works(ke, ob, ps)
        BY <1>2 DEF Unharmed
    <2>2. ASSUME Steps(ke', ob', ps') PROVE Unharmed' /\ (Halted' => ke'.bugcheck)
        BY <2>2 DEF Steps, Unharmed, Halted, Settled
    <2>3. ASSUME NEW p \in Process, NEW prio \in CreatePriorities, PsCreateProcess(p, prio)
          PROVE  Steps(ke', ob', ps') /\ EndsByDeath /\ (ke'.bugcheck => Misuse)
        <3>1. /\ Steps(ke', ob', ps') /\ EndsByDeath
              /\ prio \in Priorities => ~ke'.bugcheck
            BY <2>1, <2>3, CreateStep DEF PsCreateProcess
        <3>2. prio \notin Priorities => Misuse
            BY <2>3 DEF Misuse
        <3> QED BY <3>1, <3>2
    <2>4. ASSUME PsKillMe PROVE Steps(ke', ob', ps') /\ EndsByDeath /\ ~ke'.bugcheck
        BY <2>1, <2>4, KillMeStep
    <2>5. ASSUME NEW p \in Process, PsKillByPID(p)
          PROVE  Steps(ke', ob', ps') /\ EndsByDeath /\ (ke'.bugcheck => Misuse)
        <3>1. /\ Steps(ke', ob', ps') /\ EndsByDeath
              /\ Scheduled(p) => ~ke'.bugcheck
            BY <2>1, <2>5, KillByPIDStep
        <3>2. ~Scheduled(p) => Misuse
            BY <2>5 DEF Misuse
        <3> QED BY <3>1, <3>2
    <2>6. ASSUME NEW p \in Process, PsOpenProcess(p)
          PROVE  Steps(ke', ob', ps') /\ EndsByDeath /\ ~ke'.bugcheck
        BY <2>1, <2>6, OpenStep
    <2>7. ASSUME NEW p \in Process, NEW prio \in NewPriorities, PsChangePriority(p, prio)
          PROVE  Steps(ke', ob', ps') /\ EndsByDeath /\ (ke'.bugcheck => Misuse)
        <3>1. /\ Steps(ke', ob', ps') /\ EndsByDeath
              /\ Scheduled(p) => ~ke'.bugcheck
            BY <2>1, <2>7, ChangePriorityStep
        <3>2. ~Scheduled(p) => Misuse
            BY <2>7 DEF Misuse
        <3> QED BY <3>1, <3>2
    <2>8. ASSUME NEW h, CloseHandle(h) PROVE Steps(ke', ob', ps') /\ EndsByDeath /\ ~ke'.bugcheck
        BY <2>1, <2>8, CloseStep
    <2>9. ASSUME NEW h, WaitForSingleObject(h)
          PROVE  Steps(ke', ob', ps') /\ EndsByDeath /\ ~ke'.bugcheck
        BY <2>1, <2>9, WaitStep
    <2>10. ASSUME NEW ms \in Sleeps, Sleep(ms)
           PROVE  Steps(ke', ob', ps') /\ EndsByDeath /\ ~ke'.bugcheck
        BY <2>1, <2>10, SleepStep
    <2>11. ASSUME Tick PROVE Steps(ke', ob', ps') /\ EndsByDeath /\ ~ke'.bugcheck
        BY <2>1, <2>11, TickStep
    <2>12. ~Stopped
        BY <1>2 DEF Stopped
    <2>13. Steps(ke', ob', ps') /\ EndsByDeath /\ (ke'.bugcheck => Misuse)
        BY <1>2, <2>3, <2>4, <2>5, <2>6, <2>7, <2>8, <2>9, <2>10, <2>11, <2>12, Zenon DEF PsNext
    <2> QED BY <2>2, <2>13
<1>3. CASE Halted /\ PsNext
    <2>1. Stopped
        BY <1>3 DEF PsNext, PsCreateProcess, PsKillMe, PsKillByPID, PsOpenProcess,
            PsChangePriority, CloseHandle, WaitForSingleObject, Sleep, Tick, Calls, CallsLater
    <2> QED BY <1>1, <2>1 DEF Stopped
<1> QED BY <1>1, <1>2, <1>3

\* The inductive step.
LEMMA PsNextInv ==
    ASSUME PsInv, [PsNext]_vars
    PROVE  /\ PsInv'
           /\ ps'.missed = {} =>
                 UNCHANGED vars \/ (EndsByDeath /\ (~Halted /\ Halted' => Misuse))
<1>1. "missed" \in DOMAIN ps' /\ (ps'.missed = {} => ps.missed = {})
    BY MissedForEver DEF PsInv
<1>2. CASE ps'.missed = {}
    <2>1. Unharmed
        BY <1>1, <1>2 DEF PsInv
    <2>2. Unharmed' /\ (UNCHANGED vars \/ (EndsByDeath /\ (~Halted /\ Halted' => Misuse)))
        BY <1>2, <2>1, UnharmedNext
    <2> QED BY <1>1, <2>2 DEF PsInv
<1>3. CASE ps'.missed # {}
    BY <1>1, <1>3 DEF PsInv
<1> QED BY <1>2, <1>3

\* The invariant holds in every state, whatever ps.c is asked to do in whatever
\* order: until a waiting process or process 0 is killed, the three managers agree.
THEOREM ProcessesInvariant == PsSpec => []PsInv
<1>1. PsInv /\ [PsNext]_vars => PsInv'
    BY PsNextInv
<1> QED BY <1>1, PsInitInv, PTL DEF PsSpec

\* What the invariant says about the process manager.
LEMMA PsProperties ==
    PsInv => (ps.missed = {} =>
                 /\ PsTypeOK /\ ProcessReferencesAccounted /\ PIDsAreUnique
                 /\ WaitersWaitForTheLiving /\ EveryProcessOnItsList)
<1> SUFFICES ASSUME PsInv, ps.missed = {}
             PROVE  /\ PsTypeOK /\ ProcessReferencesAccounted /\ PIDsAreUnique
                    /\ WaitersWaitForTheLiving /\ EveryProcessOnItsList
    OBVIOUS
<1>1. Settled(ke, ob, ps) /\ (~Halted => Works(ke, ob, ps))
    BY DEF PsInv, Unharmed
<1>2. PsTypeOK
    BY <1>1 DEF Settled, PsTypeOK
<1>3. PIDsAreUnique
    BY <1>1 DEF Settled, PIDsAreUnique, Exists
<1>4. EveryProcessOnItsList
    <2>1. SUFFICES ASSUME ~ke.bugcheck PROVE EveryProcessOnItsList
        BY DEF EveryProcessOnItsList
    <2>2. Healthy(ke)
        BY <1>1, <2>1 DEF Halted, Settled, Works
    <2> QED BY <2>2 DEF Healthy, Alive, Running, Consistent, EveryProcessOnItsList
<1>5. Life(ke, ps.used) = [p \in Process |->
                              IF p \notin ps.used THEN "unborn"
                              ELSE IF ~Scheduled(p) THEN "dead"
                              ELSE IF Waits(p) THEN "asleep" ELSE "awake"]
    BY DEF Life, Scheduled, Waits
<1>6. Held(ke, ps.leaked) =
        [p \in Process |-> ps.leaked[p] + (IF Scheduled(p) THEN 1 ELSE 0)]
    BY DEF Held, Scheduled
<1>7. WaitersWaitForTheLiving
    <2>1. ObP!Queued(ob, Life(ke, ps.used))
        BY <1>1 DEF Settled
    <2>2. Ob!SleepersAreQueued
        <3> DEFINE L == [p \in Process |->
                           IF p \notin ps.used THEN "unborn"
                           ELSE IF ~Scheduled(p) THEN "dead"
                           ELSE IF Waits(p) THEN "asleep" ELSE "awake"]
        <3>1. ObP!Queued(ob, L)
            BY <1>5, <2>1
        <3> HIDE DEF L
        <3>2. /\ \A o \in Process : Ob!IsInjective(ob.waiters[o])
              /\ \A p \in Process, o \in Process :
                    Ob!Contains(ob.waiters[o], p) =>
                       /\ L[p] = "asleep" /\ ~ob.signal[o]
                       /\ \E h \in Ob!Slots : ob.table[p][h].object = o
              /\ \A p \in Process : L[p] = "asleep" =>
                    \E o \in Process : /\ Ob!Contains(ob.waiters[o], p)
                                       /\ \A x \in Process \ {o} : ~Ob!Contains(ob.waiters[x], p)
            BY <3>1, Zenon DEF ObP!Queued, ObP!IsInjective, Ob!IsInjective,
                ObP!Contains, Ob!Contains, ObP!Slots, Ob!Slots
        <3> QED BY <3>2, Zenon DEF L, Ob!SleepersAreQueued
    <2>3. \A p \in Process : ob.waiters[p] # <<>> => Scheduled(p)
        BY <1>1 DEF Settled, Scheduled
    <2>4. \A p \in Process : Exists(p) /\ ob.signal[p] <=> Exists(p) /\ p \in ps.exited
        BY <1>1 DEF Settled
    <2> QED BY <2>2, <2>3, <2>4 DEF WaitersWaitForTheLiving
<1>8. ProcessReferencesAccounted
    <2>1. SUFFICES ASSUME ~Halted PROVE Ob!CountsAreReferences /\ Ob!ExistsWhileReferenced
        BY DEF ProcessReferencesAccounted
    <2>2. ObP!IInv
        BY <1>1, <1>5, <1>6, <2>1 DEF Works, ObP!IInv
    <2>3. ObP!CountsAreReferences /\ ObP!ExistsWhileReferenced
        BY <2>2, Constants, ObP!SteadyProperties
    <2>4. \A o : ObP!HandlesTo(ob, o) = Ob!HandlesTo(ob, o)
        BY Zenon DEF ObP!HandlesTo, Ob!HandlesTo, ObP!Slots, Ob!Slots
    <2>5. Ob!CountsAreReferences
        <3> DEFINE H == [p \in Process |-> ps.leaked[p] + (IF Scheduled(p) THEN 1 ELSE 0)]
        <3>1. \A o \in Process : /\ ob.handles[o]  = ObP!Cardinality(ObP!HandlesTo(ob, o))
                                 /\ ob.pointers[o] = ob.handles[o] + H[o]
            BY <2>3, Zenon DEF ObP!CountsAreReferences
        <3> HIDE DEF H
        <3>2. \A S : ObP!Cardinality(S) = Ob!Cardinality(S)
            BY Zenon DEF ObP!Cardinality, Ob!Cardinality
        <3>3. \A o \in Process : /\ ob.handles[o]  = Ob!Cardinality(Ob!HandlesTo(ob, o))
                                 /\ ob.pointers[o] = ob.handles[o] + H[o]
            BY <2>4, <3>1, <3>2, Zenon
        <3> QED BY <3>3, Zenon DEF H, Ob!CountsAreReferences
    <2>6. Ob!ExistsWhileReferenced
        BY <2>3, <2>4, SameState, Zenon DEF ObP!ExistsWhileReferenced, Ob!ExistsWhileReferenced,
            ObP!IsInjective, Ob!IsInjective, ObP!Contains, Ob!Contains
    <2> QED BY <2>5, <2>6
<1> QED BY <1>2, <1>3, <1>4, <1>7, <1>8

\* Until a waiting process or process 0 is killed: type correctness of the process
\* manager, with the scheduler and the objects it works on.
THEOREM ProcessesTyped == PsSpec => [](ps.missed = {} => PsTypeOK)
<1>1. PsSpec => []PsInv
    BY ProcessesInvariant
<1> QED BY <1>1, PsProperties, PTL

\* Until a waiting process or process 0 is killed: the reference count of a process
\* is what its handles, the scheduler and PsChangePriority make it, across creation,
\* failed creation and death in ps.c.
THEOREM ReferencesAccounted == PsSpec => [](ps.missed = {} => ProcessReferencesAccounted)
<1>1. PsSpec => []PsInv
    BY ProcessesInvariant
<1> QED BY <1>1, PsProperties, PTL

\* Until a waiting process or process 0 is killed: PIDInUse keeps GetNewPID from
\* handing out the PID of a process that exists, dead or alive.
THEOREM PIDsUnique == PsSpec => [](ps.missed = {} => PIDsAreUnique)
<1>1. PsSpec => []PsInv
    BY ProcessesInvariant
<1> QED BY <1>1, PsProperties, PTL

\* PsKillProcess leaves nobody in the WaitQueue of the process it ends, and who
\* waits keeps the process in existence by a handle: the property is about the
\* states before a waiting process or process 0 is killed.
THEOREM NobodyWaitsForTheDead == PsSpec => []WaitersWaitForTheLiving
<1>1. PsSpec => []PsInv
    BY ProcessesInvariant
<1>2. PsInv => WaitersWaitForTheLiving
    BY PsProperties DEF WaitersWaitForTheLiving
<1> QED BY <1>1, <1>2, PTL

\* Until a waiting process or process 0 is killed: no call of ps.c loses a process
\* from the lists of the scheduler, or links one twice, as long as the machine runs.
THEOREM ProcessesOnTheirLists == PsSpec => [](ps.missed = {} => EveryProcessOnItsList)
<1>1. PsSpec => []PsInv
    BY ProcessesInvariant
<1> QED BY <1>1, PsProperties, PTL

\* Neither the scheduler nor the object manager crashes but in a call for a dead
\* process, in one with a priority there is no queue for, or after ps.c has let a
\* process be killed the kernel counts on: process 0, or one in a WaitQueue.
THEOREM OnlyMisuseHalts == PsSpec => HaltsOnlyByMisuse
<1>1. PsSpec => []PsInv
    BY ProcessesInvariant
<1>2. PsInv /\ [PsNext]_vars => [~Halted /\ Halted' => Misuse \/ ps'.missed # {}]_vars
    BY PsNextInv
<1> QED BY <1>1, <1>2, PTL DEF PsSpec, HaltsOnlyByMisuse

\* Until a waiting process or process 0 is killed: a process leaves a WaitQueue only
\* when the process it waits for ends.
THEOREM OnlyDeathEndsWaits == PsSpec => WaitsEndByDeath
<1>1. PsSpec => []PsInv
    BY ProcessesInvariant
<1>2. PsInv /\ [PsNext]_vars =>
        [ps'.missed = {} =>
            \A p, q \in Process :
                Contains(ob.waiters[q], p) /\ ~Contains(ob'.waiters[q], p) => q \in ps'.exited]_vars
    BY PsNextInv DEF EndsByDeath
<1> QED BY <1>1, <1>2, PTL DEF PsSpec, WaitsEndByDeath

\* The blocked list and the State fields agree, in a machine that has halted too.
BlockedAsListed(k) == \A x \in Process : Contains(k.blocked, x) => k.state[x] = "blocked"

\* The calls that halt the machine leave the processes on the blocked list, and
\* their State, as they are.
LEMMA StaysBlocked ==
    ASSUME Unharmed, BlockedAsListed(ke), [PsNext]_vars, ps'.missed = {}
    PROVE  BlockedAsListed(ke')
<1>1. Unharmed' /\ (UNCHANGED vars \/ (~Halted /\ Halted' => Misuse))
    BY UnharmedNext
<1>2. CASE UNCHANGED vars
    BY <1>2 DEF vars
<1>3. CASE ~Halted'
    <2>1. Healthy(ke')
        BY <1>1, <1>3 DEF Unharmed, Works
    <2> QED BY <2>1, AliveFacts DEF Healthy, BlockedAsListed
<1>4. CASE Halted /\ PsNext
    <2>1. Stopped
        BY <1>4 DEF PsNext, PsCreateProcess, PsKillMe, PsKillByPID, PsOpenProcess,
            PsChangePriority, CloseHandle, WaitForSingleObject, Sleep, Tick, Calls, CallsLater
    <2> QED BY <1>2, <2>1 DEF Stopped
<1>5. CASE ~Halted /\ Misuse
    <2>1. Works(ke, ob, ps)
        BY <1>5 DEF Unharmed
    <2>2. Healthy(ke) /\ ke \in KeState /\ ke.scheduled \subseteq ps.used
        BY <2>1, WorksFacts DEF Settled
    <2>3. ASSUME NEW p \in Process, ~Scheduled(p), PsKillByPID(p) PROVE BlockedAsListed(ke')
        <3> DEFINE b == KeBugCheck(ke)
                   o == Ob!ObReferenceObject(ob, p, processType)
        <3>1. KeStopSchedulingProcess(ke, p) = b
            BY <2>2, <2>3, StopHalts DEF Scheduled
        <3>2. b.bugcheck /\ b.blocked = ke.blocked /\ b.state = ke.state
            BY <2>2 DEF KeBugCheck, KeState
        <3> HIDE DEF b, o
        <3>3. PsKillProcess(o, p).ke = b
            BY <3>1, <3>2 DEF PsKillProcess
        <3>4. ke' = b
            BY <2>3, <3>3 DEF PsKillByPID, o
        <3> QED BY <3>2, <3>4 DEF BlockedAsListed
    <2>4. ASSUME NEW p \in Process, NEW prio \in NewPriorities, ~Scheduled(p),
                 PsChangePriority(p, prio)
          PROVE  BlockedAsListed(ke')
        <3> DEFINE r == KeChangeProcessPriority(ke, p, prio)
        <3>1. r.blocked = ke.blocked /\ r.state = ke.state
            BY <2>2, <2>4, SchedulerAssumption, ChangePriorityOfDead DEF Scheduled
        <3> HIDE DEF r
        <3>2. ke' = r
            BY <2>4 DEF PsChangePriority, r
        <3> QED BY <3>1, <3>2 DEF BlockedAsListed
    <2>5. ASSUME NEW p \in Process, NEW prio \in CreatePriorities \ Priorities,
                 PsCreateProcess(p, prio)
          PROVE  BlockedAsListed(ke')
        <3> DEFINE r == KeStartSchedulingProcess(NewProcess(ke, p, prio), p)
        <3>1. prio \in Nat
            BY ProcessesAssumption
        <3>2. r.blocked = ke.blocked /\ \A x \in Process \ {p} : r.state[x] = ke.state[x]
            BY <2>2, <3>1, StartHalts
        <3>3. ~Contains(ke.blocked, p)
            <4>1. p \notin ke.scheduled
                BY <2>2, <2>5 DEF PsCreateProcess
            <4> QED BY <2>2, <4>1, AliveFacts DEF Healthy
        <3> HIDE DEF r
        <3>4. ke' = ke \/ ke' = r
            BY <2>5 DEF PsCreateProcess, CreateFails, CreateSucceeds, r
        <3> QED BY <3>2, <3>3, <3>4 DEF BlockedAsListed
    <2> QED BY <1>5, <2>3, <2>4, <2>5 DEF Misuse
<1> QED BY <1>1, <1>2, <1>3, <1>4, <1>5

\* What KeResumeProcess asserts of the processes ObSignalObject gives it holds of
\* every process in a WaitQueue until a waiting process or process 0 is killed: that
\* is all that can violate it.
THEOREM WaitersAreBlocked == PsSpec => [](ps.missed = {} => SignalledProcessesAreBlocked)
<1> DEFINE B == ps.missed = {} => BlockedAsListed(ke)
<1>1. PsSpec => []PsInv
    BY ProcessesInvariant
<1>2. PsInit => B
    <2>1. ASSUME PsInit PROVE BlockedAsListed(ke)
        <3>1. ke.blocked = <<>>
            BY <2>1 DEF PsInit, KeInit
        <3> QED BY <3>1 DEF BlockedAsListed, Contains
    <2> QED BY <2>1
<1>3. PsInv /\ B /\ [PsNext]_vars => B'
    <2> SUFFICES ASSUME PsInv, B, [PsNext]_vars, ps'.missed = {}
                 PROVE  BlockedAsListed(ke)'
        OBVIOUS
    <2>1. BlockedAsListed(ke)' <=> BlockedAsListed(ke')
        BY DEF BlockedAsListed
    <2>2. ps.missed = {} /\ Unharmed
        BY MissedForEver DEF PsInv
    <2> QED BY <2>1, <2>2, StaysBlocked
<1>4. PsInv /\ B => (ps.missed = {} => SignalledProcessesAreBlocked)
    <2> SUFFICES ASSUME PsInv, B, ps.missed = {}, NEW o \in Process, NEW p \in Process,
                        Contains(ob.waiters[o], p)
                 PROVE  ke.state[p] = "blocked" /\ Contains(ke.blocked, p)
        BY DEF SignalledProcessesAreBlocked
    <2> DEFINE L == Life(ke, ps.used)
    <2>1. ObP!Queued(ob, L)
        BY DEF PsInv, Unharmed, Settled
    <2> HIDE DEF L
    <2>2. L[p] = "asleep"
        BY <2>1, Zenon DEF ObP!Queued, ObP!Contains, Contains
    <2>3. Contains(ke.blocked, p)
        BY <2>2 DEF L, Life
    <2> QED BY <2>3 DEF BlockedAsListed
<1> HIDE DEF B
<1> QED BY <1>1, <1>2, <1>3, <1>4, PTL DEF PsSpec
=============================================================================
