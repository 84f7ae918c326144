---------------------------- MODULE ObjectManager ----------------------------
(***************************************************************************)
(* The ARCOS object manager, src/base/ob/ob.c: reference-counted objects,  *)
(* the handle table of each process, and waiting for an object.            *)
(*                                                                         *)
(* A C function that changes object headers or handle tables is an         *)
(* operator from the state before the call to the state after it; c stands *)
(* for KeCurrentProcess.  The actions at the end are the calls the rest of *)
(* the kernel makes.  Memory is never exhausted (MmAlloc does not return   *)
(* NULL).                                                                  *)
(***************************************************************************)
EXTENDS Integers, Sequences, FiniteSets, SequencesExt

CONSTANTS
    Process,            \* owners of a handle table
    Object,             \* objects of the types the kernel makes at boot
    NoObject,           \* the NULL in a free slot of a handle table
    Types,              \* type objects: process and file in this kernel
    AnyType,            \* the NULL ObjectType: do not check the type
    TypeOf,             \* the type of each object
    MAX_HANDLE_COUNT,   \* slots of a handle table (256)
    Inherited,          \* objects whose handles are opened with OBJ_INHERIT
    HeldLimit           \* bound on the pointers the kernel holds to an object

Slots == 0 .. MAX_HANDLE_COUNT - 1

ASSUME ObjectManagerAssumption ==
    /\ IsFiniteSet(Process)
    /\ NoObject \notin Object
    /\ AnyType \notin Types
    /\ TypeOf \in [Object -> Types]
    /\ MAX_HANDLE_COUNT \in Nat
    /\ Inherited \subseteq Object

VARIABLES
    ob,     \* the object headers, the type lists and the handle tables
    life,   \* where each process is in its life
    held    \* per object, the pointers callers hold and have not given up

vars == <<ob, life, held>>

(***************************************************************************)
(* pointers, handles, signal and waiters are the fields PointerCount,      *)
(* HandleCount, SignalState and WaitQueue of an object header; ofType is   *)
(* the list that begins at FirstObjectOfType; table is the HandleTable of  *)
(* each PCB.  An object is in existence while it is on the list of its     *)
(* type.  A type object is permanent and its pointer is never given up, so *)
(* it is a constant here.                                                  *)
(***************************************************************************)
Entry    == [object : Object \cup {NoObject}, inherit : BOOLEAN]
NoHandle == [object |-> NoObject, inherit |-> FALSE]

ObState ==
    [pointers : [Object -> Nat],
     handles  : [Object -> Nat],
     signal   : [Object -> BOOLEAN],
     waiters  : [Object -> Seq(Process)],
     ofType   : [Types -> Seq(Object)],
     table    : [Process -> [Slots -> Entry]],
     bugcheck : BOOLEAN]

ObInit ==
    [pointers |-> [o \in Object |-> 0],
     handles  |-> [o \in Object |-> 0],
     signal   |-> [o \in Object |-> FALSE],
     waiters  |-> [o \in Object |-> <<>>],
     ofType   |-> [t \in Types |-> <<>>],
     table    |-> [p \in Process |-> [h \in Slots |-> NoHandle]],
     bugcheck |-> FALSE]

Exists(s, o) == Contains(s.ofType[TypeOf[o]], o)
IsOpen(s, p, h) == h \in Slots /\ s.table[p][h].object # NoObject
OfType(o, t) == t = AnyType \/ TypeOf[o] = t
-----------------------------------------------------------------------------
ObBugCheck(s) == [s EXCEPT !.bugcheck = TRUE]

ObCreateObject(s, o) ==
    [s EXCEPT !.pointers[o] = 1,
              !.handles[o]  = 0,
              !.signal[o]   = FALSE,
              !.waiters[o]  = <<>>,
              !.ofType[TypeOf[o]] = <<o>> \o @]

\* ObpUnlinkObjectFromTypeList: the list has the object once.
Unlink(s, o) ==
    LET list == s.ofType[TypeOf[o]]
        at   == CHOOSE i \in DOMAIN list : list[i] = o
    IN  IF Exists(s, o)
        THEN [s EXCEPT !.ofType[TypeOf[o]] = RemoveAt(list, at)]
        ELSE ObBugCheck(s)

\* Faulty variant: the object is deleted one reference too early.
DereferenceOffByOne(s, o) ==
    LET d == [s EXCEPT !.pointers[o] = @ - 1]
    IN  IF s.pointers[o] = 0 \/ s.handles[o] >= s.pointers[o]
        THEN ObBugCheck(s)
        ELSE IF d.pointers[o] <= 1 THEN Unlink(d, o) ELSE d

\* No type of this kernel has a delete method.
ObDereferenceObject(s, o) ==
    LET d == [s EXCEPT !.pointers[o] = @ - 1]
    IN  IF s.pointers[o] = 0 \/ s.handles[o] >= s.pointers[o]
        THEN ObBugCheck(s)
        ELSE IF d.pointers[o] = 0 THEN Unlink(d, o) ELSE d

ObReferenceObject(s, o, t) ==
    IF OfType(o, t) THEN [s EXCEPT !.pointers[o] = @ + 1] ELSE s

\* The object a call gets when it gives a handle to a call that expects an
\* object of type t.
Named(s, c, h, t) ==
    IF IsOpen(s, c, h) /\ OfType(s.table[c][h].object, t)
    THEN s.table[c][h].object
    ELSE NoObject

ObReferenceObjectByHandle(s, c, h, t) ==
    LET o == Named(s, c, h, t)
    IN  IF o = NoObject THEN s ELSE ObReferenceObject(s, o, t)

FreeSlots(s, c) == {h \in Slots : ~IsOpen(s, c, h)}
Lowest(S) == CHOOSE h \in S : \A i \in S : h <= i

ObOpenObjectByPointer(s, c, o, inherit, t) ==
    IF ~OfType(o, t) \/ FreeSlots(s, c) = {}
    THEN s
    ELSE [s EXCEPT !.table[c][Lowest(FreeSlots(s, c))] =
                        [object |-> o, inherit |-> inherit],
                   !.handles[o]  = @ + 1,
                   !.pointers[o] = @ + 1]

\* Faulty variants: the slot is not cleared; the two counts go down in the
\* other order.
CloseLeavingSlot(s, c, h) ==
    LET o == s.table[c][h].object
    IN  IF ~IsOpen(s, c, h)
        THEN s
        ELSE ObDereferenceObject([s EXCEPT !.handles[o] = @ - 1], o)
CloseInOtherOrder(s, c, h) ==
    LET o == s.table[c][h].object
        d == ObDereferenceObject(s, o)
    IN  IF ~IsOpen(s, c, h)
        THEN s
        ELSE IF d.bugcheck
        THEN d
        ELSE [d EXCEPT !.table[c][h] = NoHandle, !.handles[o] = @ - 1]

\* The Attributes of a closed slot stay behind, but are not read before the
\* slot is written again.
ObCloseHandle(s, c, h) ==
    LET o == s.table[c][h].object
        d == ObDereferenceObject([s EXCEPT !.handles[o] = @ - 1], o)
    IN  IF ~IsOpen(s, c, h)
        THEN s
        ELSE IF d.bugcheck
        THEN d
        ELSE [d EXCEPT !.table[c][h] = NoHandle]

InheritedSlots(s, parent) ==
    {h \in Slots : IsOpen(s, parent, h) /\ s.table[parent][h].inherit}

\* Faulty variant: an object inherited twice is counted once.
InheritedOnce(s, parent, o) ==
    IF \E h \in InheritedSlots(s, parent) : s.table[parent][h].object = o THEN 1 ELSE 0

InheritedHandles(s, parent, o) ==
    Cardinality({h \in InheritedSlots(s, parent) : s.table[parent][h].object = o})

ObInitProcess(s, parent, new) ==
    [s EXCEPT
        !.table[new] = [h \in Slots |-> IF h \in InheritedSlots(s, parent)
                                        THEN s.table[parent][h] ELSE NoHandle],
        !.handles  = [o \in Object |-> @[o] + InheritedHandles(s, parent, o)],
        !.pointers = [o \in Object |-> @[o] + InheritedHandles(s, parent, o)]]

\* For every open slot of p the handle with that number is closed, as the
\* code does it: in the table of KeCurrentProcess.
ObKillProcess(s, c, p) ==
    LET after[n \in Nat] ==
            IF n = 0
            THEN s
            ELSE IF ~after[n - 1].bugcheck /\ IsOpen(after[n - 1], p, n - 1)
            THEN ObCloseHandle(after[n - 1], c, n - 1)
            ELSE after[n - 1]
    IN  after[MAX_HANDLE_COUNT]

\* The reference is given up at once: KeBlockProcess returns to its caller,
\* the process stops running only when the system call ends.
ObWaitForSingleObject(s, c, h) ==
    LET o == Named(s, c, h, AnyType)
        r == ObReferenceObjectByHandle(s, c, h, AnyType)
    IN  IF o = NoObject
        THEN s
        ELSE IF s.signal[o]
        THEN ObDereferenceObject(r, o)
        ELSE ObDereferenceObject([r EXCEPT !.waiters[o] = <<c>> \o @], o)

\* Whether a call of ObWaitForSingleObject blocks its caller.
Blocks(s, c, h) ==
    LET o == Named(s, c, h, AnyType) IN o # NoObject /\ ~s.signal[o]

\* Faulty variant: the WaitQueue is not emptied.
SignalKeepingQueue(s, o) == [s EXCEPT !.signal[o] = TRUE]

\* The waiters are resumed by the scheduler.
ObSignalObject(s, o) ==
    [s EXCEPT !.signal[o] = TRUE, !.waiters[o] = <<>>]
-----------------------------------------------------------------------------
(***************************************************************************)
(* The calls the kernel makes, under their contract: a pointer a caller    *)
(* holds is given up once, and only an object that exists is referenced    *)
(* (PsReferenceProcess and PsOpenProcess find it on the list of its type). *)
(* One process runs at boot.  A PCB has a new, zeroed handle table; no PCB *)
(* is used again.  A model object that was deleted stands for another one  *)
(* when it is created again.  KeBlockProcess and KeResumeProcess, which    *)
(* belong to the scheduler, appear as "asleep" and "awake".                *)
(***************************************************************************)
Lives == {"unborn", "awake", "asleep", "dead"}

Awake  == {p \in Process : life[p] = "awake"}
Handle == 0 .. MAX_HANDLE_COUNT   \* what processes pass as handles

Init ==
    /\ ob = ObInit
    /\ \E boot \in Process :
          life = [p \in Process |-> IF p = boot THEN "awake" ELSE "unborn"]
    /\ held = [o \in Object |-> 0]

CreateObject(o) ==
    /\ ~Exists(ob, o)
    /\ ob'   = ObCreateObject(ob, o)
    /\ held' = [held EXCEPT ![o] = 1]
    /\ UNCHANGED life

OpenObjectByPointer(c, o, t) ==
    /\ c \in Awake /\ Exists(ob, o)
    /\ ob' = ObOpenObjectByPointer(ob, c, o, o \in Inherited, t)
    /\ UNCHANGED <<life, held>>

ReferenceObject(o, t) ==
    /\ Exists(ob, o) /\ held[o] < HeldLimit
    /\ ob'   = ObReferenceObject(ob, o, t)
    /\ held' = IF OfType(o, t) THEN [held EXCEPT ![o] = @ + 1] ELSE held
    /\ UNCHANGED life

ReferenceObjectByHandle(c, h, t) ==
    LET o == Named(ob, c, h, t)
    IN  /\ c \in Awake
        /\ o # NoObject => held[o] < HeldLimit
        /\ ob'   = ObReferenceObjectByHandle(ob, c, h, t)
        /\ held' = IF o = NoObject THEN held ELSE [held EXCEPT ![o] = @ + 1]
        /\ UNCHANGED life

DereferenceObject(o) ==
    /\ held[o] > 0
    /\ ob'   = ObDereferenceObject(ob, o)
    /\ held' = [held EXCEPT ![o] = @ - 1]
    /\ UNCHANGED life

CloseHandle(c, h) ==
    /\ c \in Awake
    /\ ob' = ObCloseHandle(ob, c, h)
    /\ UNCHANGED <<life, held>>

InitProcess(parent, new) ==
    /\ parent \in Awake /\ life[new] = "unborn"
    /\ ob'   = ObInitProcess(ob, parent, new)
    /\ life' = [life EXCEPT ![new] = "awake"]
    /\ UNCHANGED held

\* A process asleep on an object is killed in module Processes: its place in the
\* WaitQueue concerns the scheduler too.
KillProcess(c, p) ==
    /\ c \in Awake /\ p \in Awake
    /\ ob'   = ObKillProcess(ob, c, p)
    /\ life' = [life EXCEPT ![p] = "dead"]
    /\ UNCHANGED held

WaitForSingleObject(c, h) ==
    /\ c \in Awake
    /\ ob'   = ObWaitForSingleObject(ob, c, h)
    /\ life' = IF Blocks(ob, c, h) THEN [life EXCEPT ![c] = "asleep"] ELSE life
    /\ UNCHANGED held

SignalObject(o) ==
    /\ Exists(ob, o)
    /\ ob'   = ObSignalObject(ob, o)
    /\ life' = [p \in Process |->
                    IF Contains(ob.waiters[o], p) THEN "awake" ELSE life[p]]
    /\ UNCHANGED held

Next ==
    /\ ~ob.bugcheck
    /\ \/ \E o \in Object : CreateObject(o) \/ DereferenceObject(o) \/ SignalObject(o)
       \/ \E o \in Object, t \in Types \cup {AnyType} : ReferenceObject(o, t)
       \/ \E c \in Process, o \in Object, t \in Types : OpenObjectByPointer(c, o, t)
       \/ \E c \in Process, h \in Handle, t \in Types \cup {AnyType} :
             ReferenceObjectByHandle(c, h, t)
       \/ \E c \in Process, h \in Handle : CloseHandle(c, h) \/ WaitForSingleObject(c, h)
       \/ \E c, p \in Process : InitProcess(c, p) \/ KillProcess(c, p)

Spec == Init /\ [][Next]_vars
-----------------------------------------------------------------------------
TypeOK ==
    /\ ob \in ObState
    /\ life \in [Process -> Lives]
    /\ held \in [Object -> Nat]

\* The slots, of all the tables, that hold a handle to o.
HandlesTo(s, o) ==
    {ph \in Process \X Slots : s.table[ph[1]][ph[2]].object = o}

\* HandleCount is the number of table slots that name the object, whoever owns
\* them, and PointerCount counts those and the pointers the kernel holds.  An
\* object counted too low is deleted in use, one counted too high leaks.
CountsAreReferences ==
    \A o \in Object :
        /\ ob.handles[o]  = Cardinality(HandlesTo(ob, o))
        /\ ob.pointers[o] = ob.handles[o] + held[o]

\* An object exists, on the list of its type and there once, exactly as long
\* as somebody refers to it; so no handle ever names a deleted object.
ExistsWhileReferenced ==
    /\ \A o \in Object : Exists(ob, o) <=> HandlesTo(ob, o) # {} \/ held[o] > 0
    /\ \A t \in Types : /\ IsInjective(ob.ofType[t])
                        /\ \A o \in Object : Contains(ob.ofType[t], o) => TypeOf[o] = t

\* A sleeping process has a place in the WaitQueue of one object, which is not
\* signalled yet and which a handle of its own keeps in existence; nobody else
\* is in a WaitQueue.  Otherwise the process never wakes, or is woken twice.
SleepersAreQueued ==
    /\ \A o \in Object : IsInjective(ob.waiters[o])
    /\ \A p \in Process, o \in Object :
          Contains(ob.waiters[o], p) =>
             /\ life[p] = "asleep" /\ ~ob.signal[o]
             /\ \E h \in Slots : ob.table[p][h].object = o
    /\ \A p \in Process : life[p] = "asleep" =>
          \E o \in Object : /\ Contains(ob.waiters[o], p)
                            /\ \A x \in Object \ {o} : ~Contains(ob.waiters[x], p)

\* The ASSERTs on the two counts, and the crash of
\* ObpUnlinkObjectFromTypeList, are out of reach while callers keep the
\* contract.
CountsNeverCrash == ~ob.bugcheck
=============================================================================
