------------------------- MODULE ObjectManagerProofs -------------------------
(***************************************************************************)
(* Proofs about ObjectManager, for every set of processes and objects and  *)
(* every size of the handle tables: the counts are the references, an      *)
(* object lives as long as it has one, and who sleeps is queued.           *)
(***************************************************************************)
EXTENDS ObjectManager, ListFacts

\* The counts of state s are its handles, and those and the pointers H held.
Counted(s, H) ==
    \A o \in Object :
        /\ s.handles[o]  = Cardinality(HandlesTo(s, o))
        /\ s.pointers[o] = s.handles[o] + H[o]

\* The list of a type has the objects of the type with a reference, each once.
Listed(s) ==
    \A t \in Types :
        /\ IsInjective(s.ofType[t])
        /\ \A o \in Object :
              Contains(s.ofType[t], o) <=> TypeOf[o] = t /\ s.pointers[o] # 0

\* SleepersAreQueued, of any state s of the objects and L of the processes.
Queued(s, L) ==
    /\ \A o \in Object : IsInjective(s.waiters[o])
    /\ \A p \in Process, o \in Object :
          Contains(s.waiters[o], p) =>
             /\ L[p] = "asleep" /\ ~s.signal[o]
             /\ \E h \in Slots : s.table[p][h].object = o
    /\ \A p \in Process : L[p] = "asleep" =>
          \E o \in Object : /\ Contains(s.waiters[o], p)
                            /\ \A x \in Object \ {o} : ~Contains(s.waiters[x], p)

\* The table of a process that is not yet created is empty, so the handles it
\* inherits are new ones.
UnbornAreEmpty(s, L) ==
    \A p \in Process : L[p] = "unborn" => \A h \in Slots : s.table[p][h] = NoHandle

\* The objects between two calls, while callers hold H.
Sound(s, H) ==
    /\ s \in ObState /\ ~s.bugcheck
    /\ Counted(s, H)
    /\ Listed(s)

\* The inductive invariant.
Steady(s, L, H) ==
    /\ Sound(s, H)
    /\ Queued(s, L)
    /\ UnbornAreEmpty(s, L)
    /\ L \in [Process -> Lives]
    /\ H \in [Object -> Nat]

IInv == Steady(ob, life, held)
-----------------------------------------------------------------------------
\* What the provers need to know of the constants.
LEMMA SlotFacts == IsFiniteSet(Slots) /\ Slots \subseteq Nat
<1>1. MAX_HANDLE_COUNT \in Nat /\ MAX_HANDLE_COUNT - 1 \in Int
    BY ObjectManagerAssumption
<1> QED BY <1>1, FS_Interval DEF Slots

LEMMA HandlesFinite ==
    ASSUME NEW s, NEW o
    PROVE  /\ IsFiniteSet(HandlesTo(s, o))
           /\ Cardinality(HandlesTo(s, o)) \in Nat
           /\ Cardinality(HandlesTo(s, o)) = 0 <=> HandlesTo(s, o) = {}
<1>1. IsFiniteSet(Process \X Slots)
    BY ObjectManagerAssumption, SlotFacts, FS_Product
<1>2. HandlesTo(s, o) \in SUBSET (Process \X Slots)
    BY DEF HandlesTo
<1>3. IsFiniteSet(HandlesTo(s, o))
    BY <1>1, <1>2, FS_Subset
<1> QED BY <1>3, FS_CardinalityType, FS_EmptySet

\* A handle to an object is a reference: it is counted.
LEMMA HandleIsCounted ==
    ASSUME NEW s, NEW H \in [Object -> Nat], Sound(s, H),
           NEW p \in Process, NEW h \in Slots, NEW o \in Object, s.table[p][h].object = o
    PROVE  s.handles[o] # 0 /\ s.pointers[o] # 0
<1>1. <<p, h>> \in HandlesTo(s, o)
    BY DEF HandlesTo
<1>2. Cardinality(HandlesTo(s, o)) \in Nat \ {0}
    BY <1>1, HandlesFinite
<1>3. s.handles[o] \in Nat \ {0} /\ s.pointers[o] = s.handles[o] + H[o] /\ H[o] \in Nat
    BY <1>2 DEF Sound, Counted
<1> QED BY <1>3

\* What IsOpen tells of a slot.
LEMMA OpenSlot ==
    ASSUME NEW s \in ObState, NEW p \in Process, NEW h, IsOpen(s, p, h)
    PROVE  h \in Slots /\ s.table[p][h] \in Entry /\ s.table[p][h].object \in Object
BY DEF IsOpen, ObState, Entry

\* Who is not in a table's slot is not counted for it: the handles to the objects
\* after one free slot was filled, and after one open slot was cleared.
LEMMA FilledSlot ==
    ASSUME NEW s \in ObState, NEW r \in ObState, NEW c \in Process, NEW h \in Slots,
           NEW e \in Entry, NEW o \in Object, e.object = o,
           s.table[c][h].object \notin Object,
           r.table = [s.table EXCEPT ![c][h] = e]
    PROVE  \A x \in Object : Cardinality(HandlesTo(r, x)) =
               IF x = o THEN Cardinality(HandlesTo(s, x)) + 1 ELSE Cardinality(HandlesTo(s, x))
<1> SUFFICES ASSUME NEW x \in Object
             PROVE  Cardinality(HandlesTo(r, x)) =
                        IF x = o THEN Cardinality(HandlesTo(s, x)) + 1
                                 ELSE Cardinality(HandlesTo(s, x))
    OBVIOUS
<1>1. s.table \in [Process -> [Slots -> Entry]]
    BY DEF ObState
<1>2. \A p \in Process, i \in Slots :
         r.table[p][i] = IF p = c /\ i = h THEN e ELSE s.table[p][i]
    BY <1>1
<1>3. <<c, h>> \notin HandlesTo(s, x)
    BY DEF HandlesTo
<1>4. CASE x = o
    <2>1. HandlesTo(r, x) = HandlesTo(s, x) \cup {<<c, h>>}
        <3>1. ASSUME NEW p \in Process, NEW i \in Slots
              PROVE  r.table[p][i].object = x <=> s.table[p][i].object = x \/ (p = c /\ i = h)
            BY <1>2, <1>4
        <3>2. ASSUME NEW pi \in Process \X Slots
              PROVE  r.table[pi[1]][pi[2]].object = x <=>
                        s.table[pi[1]][pi[2]].object = x \/ pi = <<c, h>>
            <4>1. PICK p \in Process, i \in Slots : pi = <<p, i>>
                OBVIOUS
            <4> QED BY <3>1, <4>1
        <3> QED BY <3>2 DEF HandlesTo
    <2>2. Cardinality(HandlesTo(s, x) \cup {<<c, h>>}) = Cardinality(HandlesTo(s, x)) + 1
        <3> DEFINE S == HandlesTo(s, x)
        <3>1. IsFiniteSet(S) /\ <<c, h>> \notin S
            BY <1>3, HandlesFinite
        <3> HIDE DEF S
        <3>2. Cardinality(S \cup {<<c, h>>}) = Cardinality(S) + 1
            BY <3>1, FS_AddElement
        <3> QED BY <3>2 DEF S
    <2> QED BY <1>4, <2>1, <2>2
<1>5. CASE x # o
    <2>1. HandlesTo(r, x) = HandlesTo(s, x)
        BY <1>2, <1>3, <1>5 DEF HandlesTo
    <2> QED BY <1>5, <2>1
<1> QED BY <1>4, <1>5

LEMMA ClearedSlot ==
    ASSUME NEW s \in ObState, NEW r \in ObState, NEW c \in Process, NEW h \in Slots,
           NEW o \in Object, s.table[c][h].object = o,
           r.table = [s.table EXCEPT ![c][h] = NoHandle]
    PROVE  \A x \in Object : Cardinality(HandlesTo(r, x)) =
               IF x = o THEN Cardinality(HandlesTo(s, x)) - 1 ELSE Cardinality(HandlesTo(s, x))
<1> SUFFICES ASSUME NEW x \in Object
             PROVE  Cardinality(HandlesTo(r, x)) =
                        IF x = o THEN Cardinality(HandlesTo(s, x)) - 1
                                 ELSE Cardinality(HandlesTo(s, x))
    OBVIOUS
<1>1. s.table \in [Process -> [Slots -> Entry]]
    BY DEF ObState
<1>2. \A p \in Process, i \in Slots :
         r.table[p][i] = IF p = c /\ i = h THEN NoHandle ELSE s.table[p][i]
    BY <1>1
<1>3. NoHandle.object # x
    BY ObjectManagerAssumption DEF NoHandle
<1>4. CASE x = o
    <2>1. HandlesTo(r, x) = HandlesTo(s, x) \ {<<c, h>>}
        <3>1. ASSUME NEW p \in Process, NEW i \in Slots
              PROVE  r.table[p][i].object = x <=> s.table[p][i].object = x /\ ~(p = c /\ i = h)
            BY <1>2, <1>3, <1>4
        <3>2. ASSUME NEW pi \in Process \X Slots
              PROVE  r.table[pi[1]][pi[2]].object = x <=>
                        s.table[pi[1]][pi[2]].object = x /\ pi # <<c, h>>
            <4>1. PICK p \in Process, i \in Slots : pi = <<p, i>>
                OBVIOUS
            <4> QED BY <3>1, <4>1
        <3> QED BY <3>2 DEF HandlesTo
    <2>2. <<c, h>> \in HandlesTo(s, x)
        BY <1>4 DEF HandlesTo
    <2>3. Cardinality(HandlesTo(s, x) \ {<<c, h>>}) = Cardinality(HandlesTo(s, x)) - 1
        <3> DEFINE S == HandlesTo(s, x)
        <3>1. IsFiniteSet(S) /\ <<c, h>> \in S
            BY <2>2, HandlesFinite
        <3> HIDE DEF S
        <3>2. Cardinality(S \ {<<c, h>>}) = Cardinality(S) - 1
            BY <3>1, FS_RemoveElement
        <3> QED BY <3>2 DEF S
    <2> QED BY <1>4, <2>1, <2>3
<1>5. CASE x # o
    <2>1. HandlesTo(r, x) = HandlesTo(s, x)
        BY <1>2, <1>3, <1>5 DEF HandlesTo
    <2> QED BY <1>5, <2>1
<1> QED BY <1>4, <1>5
-----------------------------------------------------------------------------
\* What a call that changes counts leaves alone.
SameTables(s, d) ==
    d.signal = s.signal /\ d.waiters = s.waiters /\ d.table = s.table

\* ObDereferenceObject: the last reference takes the object off its list.
LEMMA DereferenceFacts ==
    ASSUME NEW s \in ObState, ~s.bugcheck, Listed(s), NEW o \in Object,
           s.handles[o] < s.pointers[o]
    PROVE  LET d == ObDereferenceObject(s, o)
           IN  /\ d \in ObState /\ ~d.bugcheck /\ Listed(d) /\ SameTables(s, d)
               /\ d.pointers = [s.pointers EXCEPT ![o] = @ - 1]
               /\ d.handles = s.handles
<1> DEFINE d == ObDereferenceObject(s, o)
           m == [s EXCEPT !.pointers[o] = @ - 1]
           t == TypeOf[o]
           L == s.ofType[t]
<1>1. /\ s.pointers \in [Object -> Nat] /\ s.handles \in [Object -> Nat]
      /\ s.ofType \in [Types -> Seq(Object)] /\ s.bugcheck = FALSE
    BY DEF ObState
<1>2. s.pointers[o] \in Nat \ {0} /\ ~(s.handles[o] >= s.pointers[o])
      /\ s.pointers[o] - 1 \in Nat
    BY <1>1
<1>3. t \in Types
    BY ObjectManagerAssumption
<1>4. /\ m \in ObState /\ ~m.bugcheck /\ SameTables(s, m)
      /\ m.pointers = [s.pointers EXCEPT ![o] = @ - 1]
      /\ m.handles = s.handles /\ m.ofType = s.ofType
    BY <1>1, <1>2 DEF ObState, SameTables
<1>5. d = IF m.pointers[o] = 0 THEN Unlink(m, o) ELSE m
    BY <1>1, <1>2, <1>4 DEF ObDereferenceObject
<1> HIDE DEF m, d
<1>6. \A x \in Object : m.pointers[x] = IF x = o THEN s.pointers[o] - 1 ELSE s.pointers[x]
    BY <1>1, <1>4
<1>7. CASE m.pointers[o] # 0
    <2>1. \A x \in Object : m.pointers[x] # 0 <=> s.pointers[x] # 0
        BY <1>2, <1>6, <1>7
    <2>2. Listed(m)
        BY <1>4, <2>1 DEF Listed
    <2> QED BY <1>4, <1>5, <1>7, <2>2 DEF d
<1>8. CASE m.pointers[o] = 0
    <2> DEFINE at == CHOOSE i \in DOMAIN L : L[i] = o
               R  == RemoveAt(L, at)
    <2>1. L \in Seq(Object) /\ IsInjective(L) /\ Contains(L, o)
        BY <1>1, <1>2, <1>3 DEF Listed
    <2>2. DOMAIN L = 1 .. Len(L)
        BY <2>1
    <2>3. at \in DOMAIN L /\ L[at] = o
        BY <2>1, <2>2 DEF Contains
    <2>4. d = [m EXCEPT !.ofType[t] = R]
        BY <1>4, <1>5, <1>8, <2>1 DEF Unlink, Exists
    <2> HIDE DEF at
    <2>5. /\ R \in Seq(Object) /\ IsInjective(R)
          /\ \A x : Contains(R, x) <=> Contains(L, x) /\ x # o
        BY <2>1, <2>3, RemoveAtFacts
    <2> HIDE DEF R
    <2>6. d.ofType = [s.ofType EXCEPT ![t] = R]
        BY <1>4, <2>4 DEF ObState
    <2>7. d \in ObState /\ ~d.bugcheck /\ d.pointers = m.pointers
          /\ d.handles = m.handles /\ SameTables(m, d)
        BY <1>3, <1>4, <2>4, <2>5 DEF ObState, SameTables
    <2>8. Listed(d)
        <3> SUFFICES ASSUME NEW u \in Types
                     PROVE  /\ IsInjective(d.ofType[u])
                            /\ \A x \in Object : Contains(d.ofType[u], x) <=>
                                                    TypeOf[x] = u /\ d.pointers[x] # 0
            BY DEF Listed
        <3>1. d.ofType[u] = IF u = t THEN R ELSE s.ofType[u]
            BY <1>1, <2>6
        <3>2. \A x \in Object : d.pointers[x] # 0 <=> s.pointers[x] # 0 /\ x # o
            BY <1>6, <1>8, <2>7
        <3> HIDE DEF t
        <3>3. CASE u = t
            BY <2>1, <2>5, <3>1, <3>2, <3>3 DEF Listed
        <3>4. CASE u # t
            <4>1. \A x \in Object : TypeOf[x] = u => x # o
                BY <3>4 DEF t
            <4> QED BY <3>1, <3>2, <3>4, <4>1 DEF Listed
        <3> QED BY <3>3, <3>4
    <2> QED BY <1>4, <2>7, <2>8 DEF SameTables, d
<1> QED BY <1>7, <1>8

\* What the calls leave of the queues and the tables of the unborn: a table may
\* change in a slot of a process that is awake.
LEMMA OneSlotChanged ==
    ASSUME NEW s \in ObState, NEW L, Queued(s, L), UnbornAreEmpty(s, L),
           NEW c \in Process, L[c] = "awake", NEW h \in Slots, NEW e,
           NEW r, r.signal = s.signal, r.waiters = s.waiters,
           r.table = [s.table EXCEPT ![c][h] = e]
    PROVE  Queued(r, L) /\ UnbornAreEmpty(r, L)
<1>1. \A p \in Process : p # c => r.table[p] = s.table[p]
    BY DEF ObState
<1>2. \A p \in Process : L[p] \in {"asleep", "unborn"} => r.table[p] = s.table[p]
    BY <1>1
<1>3. Queued(r, L)
    BY <1>2 DEF Queued
<1>4. UnbornAreEmpty(r, L)
    BY <1>2 DEF UnbornAreEmpty
<1> QED BY <1>3, <1>4

\* ObCloseHandle, by a process that is awake.
LEMMA CloseSteady ==
    ASSUME NEW s, NEW L, NEW H, Steady(s, L, H),
           NEW c \in Process, L[c] = "awake", NEW h
    PROVE  Steady(ObCloseHandle(s, c, h), L, H)
<1>1. CASE ~IsOpen(s, c, h)
    BY <1>1 DEF ObCloseHandle
<1>2. CASE IsOpen(s, c, h)
    <2> DEFINE o == s.table[c][h].object
               m == [s EXCEPT !.handles[o] = @ - 1]
               d == ObDereferenceObject(m, o)
               r == [d EXCEPT !.table[c][h] = NoHandle]
    <2>1. s \in ObState /\ ~s.bugcheck /\ Counted(s, H) /\ Listed(s) /\ H \in [Object -> Nat]
        BY DEF Steady, Sound
    <2>2. h \in Slots /\ o \in Object
        BY <1>2, <2>1, OpenSlot
    <2>3. s.handles[o] # 0
        BY <2>1, <2>2, HandleIsCounted DEF Sound
    <2>4. s.handles \in [Object -> Nat] /\ s.pointers \in [Object -> Nat]
        BY <2>1 DEF ObState
    <2>5. s.pointers[o] = s.handles[o] + H[o] /\ H[o] \in Nat
        BY <2>1, <2>2 DEF Counted
    <2> DEFINE x == s.handles[o]
    <2>6. x - 1 \in Nat
        BY <2>2, <2>3, <2>4
    <2>7. /\ m \in ObState /\ ~m.bugcheck /\ SameTables(s, m)
          /\ m.pointers = s.pointers /\ m.ofType = s.ofType
          /\ m.handles = [s.handles EXCEPT ![o] = @ - 1]
        BY <2>1, <2>2, <2>6 DEF ObState, SameTables
    <2>8. m.handles[o] < m.pointers[o] /\ Listed(m)
        <3>1. m.handles[o] = s.handles[o] - 1
            BY <2>2, <2>4, <2>7
        <3>2. s.handles[o] \in Nat
            BY <2>2, <2>4
        <3>3. s.handles[o] - 1 < s.handles[o] + H[o]
            BY <2>5, <3>2
        <3> QED BY <2>1, <2>5, <2>7, <3>1, <3>3 DEF Listed
    <2>9. ObCloseHandle(s, c, h) = IF d.bugcheck THEN d ELSE r
        BY <1>2 DEF ObCloseHandle
    <2> HIDE DEF m, o
    <2>10. /\ d \in ObState /\ ~d.bugcheck /\ Listed(d) /\ SameTables(m, d)
           /\ d.pointers = [m.pointers EXCEPT ![o] = @ - 1]
           /\ d.handles = m.handles
        BY <2>2, <2>7, <2>8, DereferenceFacts
    <2> HIDE DEF d
    <2>11. NoHandle \in Entry
        BY DEF NoHandle, Entry
    <2>12. /\ r \in ObState /\ ~r.bugcheck
           /\ r.pointers = d.pointers /\ r.handles = d.handles /\ r.ofType = d.ofType
           /\ r.signal = s.signal /\ r.waiters = s.waiters
           /\ r.table = [s.table EXCEPT ![c][h] = NoHandle]
        BY <2>2, <2>7, <2>10, <2>11 DEF ObState, SameTables
    <2> HIDE DEF r
    <2>13. \A y \in Object : Cardinality(HandlesTo(r, y)) =
              IF y = o THEN Cardinality(HandlesTo(s, y)) - 1 ELSE Cardinality(HandlesTo(s, y))
        BY <2>1, <2>2, <2>12, ClearedSlot DEF o
    <2>14. Counted(r, H)
        <3> SUFFICES ASSUME NEW y \in Object
                     PROVE  /\ r.handles[y] = Cardinality(HandlesTo(r, y))
                            /\ r.pointers[y] = r.handles[y] + H[y]
            BY DEF Counted
        <3>1. s.handles[y] = Cardinality(HandlesTo(s, y)) /\ s.pointers[y] = s.handles[y] + H[y]
            BY <2>1 DEF Counted
        <3>2. /\ r.handles[y] = IF y = o THEN s.handles[y] - 1 ELSE s.handles[y]
              /\ r.pointers[y] = IF y = o THEN s.pointers[y] - 1 ELSE s.pointers[y]
            BY <2>2, <2>4, <2>7, <2>10, <2>12
        <3>3. s.handles[y] \in Nat /\ H[y] \in Nat
            BY <2>1, <2>4
        <3>4. r.handles[y] = Cardinality(HandlesTo(r, y))
            BY <2>13, <3>1, <3>2
        <3>5. \A a, b \in Nat : (a + b) - 1 = (a - 1) + b
            OBVIOUS
        <3> QED BY <3>1, <3>2, <3>3, <3>4, <3>5
    <2>15. Listed(r)
        BY <2>10, <2>12 DEF Listed
    <2>16. Queued(r, L) /\ UnbornAreEmpty(r, L)
        BY <2>1, <2>2, <2>12, OneSlotChanged DEF Steady
    <2> QED BY <2>9, <2>10, <2>12, <2>14, <2>15, <2>16 DEF Steady, Sound
<1> QED BY <1>1, <1>2
-----------------------------------------------------------------------------
\* One iteration of the loop of ObKillProcess.
CloseNext(s, c, p, n) ==
    IF ~s.bugcheck /\ IsOpen(s, p, n) THEN ObCloseHandle(s, c, n) ELSE s

\* ObKillProcess is the repetition of CloseNext, and stays in every set its
\* iterations stay in: they are iterated together with the number of the slot.
LEMMA KillStays ==
    ASSUME NEW S, NEW s \in S, NEW c, NEW p,
           \A x \in S, n \in Nat : CloseNext(x, c, p, n) \in S
    PROVE  ObKillProcess(s, c, p) \in S
<1> DEFINE Def(f) == [n \in Nat |->
                        IF n = 0
                        THEN s
                        ELSE IF ~f[n - 1].bugcheck /\ IsOpen(f[n - 1], p, n - 1)
                        THEN ObCloseHandle(f[n - 1], c, n - 1)
                        ELSE f[n - 1]]
           g == CHOOSE f : f = Def(f)
           D == {n \in Nat : g[n] \in S}
<1>1. \E f : f = Def(f)
    <2>1. PICK G \in [Nat -> [S -> S]] :
             \A n \in Nat : \A x \in S : G[n][x] = CloseNext(x, c, p, n)
        <3>1. [n \in Nat |-> [x \in S |-> CloseNext(x, c, p, n)]] \in [Nat -> [S -> S]]
            OBVIOUS
        <3> QED BY <3>1
    <2>2. PICK f : IsIteration(f, S, s, G)
        BY IterateExists
    <2>3. f[0] = s /\ f \in [Nat -> S]
        BY <2>2 DEF IsIteration
    <2>4. ASSUME NEW n \in Nat PROVE f[n + 1] = CloseNext(f[n], c, p, n)
        <3>1. f[n] \in S /\ f[n + 1] = G[n][f[n]]
            BY <2>2 DEF IsIteration
        <3> QED BY <2>1, <3>1
    <2>5. ASSUME NEW n \in Nat PROVE f[n] = Def(f)[n]
        <3>1. CASE n = 0
            BY <2>3, <3>1
        <3>2. CASE n # 0
            <4>1. n - 1 \in Nat /\ (n - 1) + 1 = n
                BY <3>2
            <4>2. f[n] = CloseNext(f[n - 1], c, p, n - 1)
                BY <2>4, <4>1
            <4> QED BY <3>2, <4>2 DEF CloseNext
        <3> QED BY <3>1, <3>2
    <2>6. f = Def(f)
        BY <2>3, <2>5
    <2> QED BY <2>6
<1>2. g = Def(g)
    <2> HIDE DEF Def
    <2> QED BY <1>1
<1> HIDE DEF g
<1>3. g[0] = s
    <2>1. g[0] = Def(g)[0]
        BY <1>2, Zenon
    <2>2. Def(g)[0] = s
        OBVIOUS
    <2> QED BY <2>1, <2>2
<1>4. ASSUME NEW n \in Nat PROVE g[n + 1] = CloseNext(g[n], c, p, n)
    <2>1. g[n + 1] = Def(g)[n + 1]
        BY <1>2, Zenon
    <2>2. Def(g)[n + 1] = CloseNext(g[n], c, p, n)
        <3>1. n + 1 \in Nat /\ n + 1 # 0 /\ (n + 1) - 1 = n
            OBVIOUS
        <3> QED BY <3>1 DEF CloseNext
    <2> QED BY <2>1, <2>2
<1>5. Nat \subseteq D
    <2>1. 0 \in D
        BY <1>3
    <2>2. ASSUME NEW n \in Nat, n \in D PROVE n + 1 \in D
        <3>1. g[n] \in S
            BY <2>2
        <3>2. CloseNext(g[n], c, p, n) \in S
            BY <3>1
        <3> QED BY <1>4, <3>2
    <2> HIDE DEF D
    <2> QED BY <2>1, <2>2, NatSetInduction
<1>6. ObKillProcess(s, c, p) = g[MAX_HANDLE_COUNT]
    BY DEF ObKillProcess, g
<1> QED BY <1>5, <1>6, ObjectManagerAssumption

\* ObKillProcess, whoever's handles it closes.
LEMMA KillSteady ==
    ASSUME NEW s, NEW L, NEW H, Steady(s, L, H),
           NEW c \in Process, L[c] = "awake", NEW p
    PROVE  Steady(ObKillProcess(s, c, p), L, H)
<1> DEFINE S == {x \in ObState : Steady(x, L, H)}
<1>1. s \in S
    BY DEF Steady, Sound
<1>2. ASSUME NEW x \in S, NEW n \in Nat PROVE CloseNext(x, c, p, n) \in S
    <2>1. Steady(ObCloseHandle(x, c, n), L, H)
        BY <1>2, CloseSteady
    <2>2. ObCloseHandle(x, c, n) \in S
        BY <2>1 DEF Steady, Sound
    <2> QED BY <2>2 DEF CloseNext
<1>3. ObKillProcess(s, c, p) \in S
    <2> HIDE DEF S
    <2> QED BY <1>1, <1>2, KillStays
<1> QED BY <1>3
-----------------------------------------------------------------------------
\* ObOpenObjectByPointer, of an object that exists.
LEMMA OpenSteady ==
    ASSUME NEW s, NEW L, NEW H, Steady(s, L, H),
           NEW c \in Process, L[c] = "awake", NEW o \in Object, Exists(s, o),
           NEW inherit \in BOOLEAN, NEW t
    PROVE  Steady(ObOpenObjectByPointer(s, c, o, inherit, t), L, H)
<1> DEFINE r == ObOpenObjectByPointer(s, c, o, inherit, t)
           h == Lowest(FreeSlots(s, c))
           e == [object |-> o, inherit |-> inherit]
<1>1. s \in ObState /\ ~s.bugcheck /\ Counted(s, H) /\ Listed(s) /\ H \in [Object -> Nat]
    BY DEF Steady, Sound
<1>2. CASE ~OfType(o, t) \/ FreeSlots(s, c) = {}
    BY <1>2 DEF ObOpenObjectByPointer
<1>3. CASE ~(~OfType(o, t) \/ FreeSlots(s, c) = {})
    <2>1. h \in FreeSlots(s, c)
        <3>1. FreeSlots(s, c) \subseteq Nat
            BY SlotFacts DEF FreeSlots
        <3>2. \E m \in FreeSlots(s, c) : \A n \in FreeSlots(s, c) : m <= n
            BY <1>3, <3>1, LeastOfNat
        <3> QED BY <3>2 DEF Lowest
    <2>2. h \in Slots /\ s.table[c][h].object \notin Object
        <3>1. h \in Slots /\ ~IsOpen(s, c, h)
            BY <2>1 DEF FreeSlots
        <3> QED BY <3>1, ObjectManagerAssumption DEF IsOpen
    <2>3. e \in Entry /\ e.object = o
        BY DEF Entry
    <2>4. /\ s.handles \in [Object -> Nat] /\ s.pointers \in [Object -> Nat]
          /\ s.table \in [Process -> [Slots -> Entry]]
        BY <1>1 DEF ObState
    <2>5. r = [s EXCEPT !.table[c][h] = e, !.handles[o] = @ + 1, !.pointers[o] = @ + 1]
        BY <1>3 DEF ObOpenObjectByPointer
    <2> HIDE DEF r, h, e
    <2>6. /\ r \in ObState /\ r.bugcheck = s.bugcheck
          /\ r.ofType = s.ofType /\ r.signal = s.signal /\ r.waiters = s.waiters
          /\ r.handles = [s.handles EXCEPT ![o] = @ + 1]
          /\ r.pointers = [s.pointers EXCEPT ![o] = @ + 1]
          /\ r.table = [s.table EXCEPT ![c][h] = e]
        <3> DEFINE Hs == [s.handles EXCEPT ![o] = @ + 1]
                   Ps == [s.pointers EXCEPT ![o] = @ + 1]
                   Ts == [s.table EXCEPT ![c][h] = e]
        <3>1. r = [s EXCEPT !.table = Ts, !.handles = Hs, !.pointers = Ps]
            BY <1>1, <2>5 DEF ObState
        <3>2. Hs \in [Object -> Nat] /\ Ps \in [Object -> Nat]
            BY <2>4
        <3>3. Ts \in [Process -> [Slots -> Entry]]
            BY <2>2, <2>3, <2>4
        <3> HIDE DEF Hs, Ps, Ts
        <3>4. /\ r \in ObState /\ r.bugcheck = s.bugcheck
              /\ r.ofType = s.ofType /\ r.signal = s.signal /\ r.waiters = s.waiters
              /\ r.handles = Hs /\ r.pointers = Ps /\ r.table = Ts
            BY <1>1, <3>1, <3>2, <3>3 DEF ObState
        <3> QED BY <3>4 DEF Hs, Ps, Ts
    <2>7. \A x \in Object : Cardinality(HandlesTo(r, x)) =
             IF x = o THEN Cardinality(HandlesTo(s, x)) + 1 ELSE Cardinality(HandlesTo(s, x))
        BY <1>1, <2>2, <2>3, <2>6, FilledSlot
    <2>8. \A x \in Object :
             /\ r.handles[x] = IF x = o THEN s.handles[x] + 1 ELSE s.handles[x]
             /\ r.pointers[x] = IF x = o THEN s.pointers[x] + 1 ELSE s.pointers[x]
             /\ s.handles[x] \in Nat /\ s.pointers[x] \in Nat /\ H[x] \in Nat
        BY <1>1, <2>4, <2>6
    <2>9. Counted(r, H)
        <3> SUFFICES ASSUME NEW x \in Object
                     PROVE  /\ r.handles[x] = Cardinality(HandlesTo(r, x))
                            /\ r.pointers[x] = r.handles[x] + H[x]
            BY DEF Counted
        <3>1. s.handles[x] = Cardinality(HandlesTo(s, x)) /\ s.pointers[x] = s.handles[x] + H[x]
            BY <1>1 DEF Counted
        <3>2. \A a, b \in Nat : (a + b) + 1 = (a + 1) + b
            OBVIOUS
        <3> QED BY <2>7, <2>8, <3>1, <3>2
    <2>10. Listed(r)
        <3>1. Contains(s.ofType[TypeOf[o]], o) /\ TypeOf[o] \in Types
            BY ObjectManagerAssumption DEF Exists
        <3>2. s.pointers[o] # 0
            BY <1>1, <3>1 DEF Listed
        <3>3. \A x \in Object : r.pointers[x] # 0 <=> s.pointers[x] # 0
            BY <2>8, <3>2
        <3> QED BY <1>1, <2>6, <3>3 DEF Listed
    <2>11. Queued(r, L) /\ UnbornAreEmpty(r, L)
        BY <1>1, <2>2, <2>6, OneSlotChanged DEF Steady
    <2> QED BY <1>1, <2>6, <2>9, <2>10, <2>11 DEF Steady, Sound, r
<1> QED BY <1>2, <1>3
-----------------------------------------------------------------------------
\* Counts, lists and queues of a state in which only the pointers to an object
\* have changed, one being taken or given up together with the one in H.
LEMMA ReferenceSteady ==
    ASSUME NEW s, NEW L, NEW H, Steady(s, L, H), NEW o \in Object, s.pointers[o] # 0, NEW t,
           OfType(o, t)
    PROVE  Steady(ObReferenceObject(s, o, t), L, [H EXCEPT ![o] = @ + 1])
<1> DEFINE r == ObReferenceObject(s, o, t)
           K == [H EXCEPT ![o] = @ + 1]
<1>1. s \in ObState /\ ~s.bugcheck /\ Counted(s, H) /\ Listed(s) /\ H \in [Object -> Nat]
    BY DEF Steady, Sound
<1>2. /\ r \in ObState /\ r.bugcheck = s.bugcheck /\ r.handles = s.handles
      /\ r.ofType = s.ofType /\ SameTables(s, r)
      /\ r.pointers = [s.pointers EXCEPT ![o] = @ + 1]
    <2> DEFINE Ps == [s.pointers EXCEPT ![o] = @ + 1]
    <2>1. Ps \in [Object -> Nat]
        BY <1>1 DEF ObState
    <2>2. r = [s EXCEPT !.pointers = Ps]
        BY <1>1 DEF ObReferenceObject, ObState
    <2> HIDE DEF Ps, r
    <2>3. /\ r \in ObState /\ r.bugcheck = s.bugcheck /\ r.handles = s.handles
          /\ r.ofType = s.ofType /\ SameTables(s, r) /\ r.pointers = Ps
        BY <1>1, <2>1, <2>2 DEF ObState, SameTables
    <2> QED BY <2>3 DEF Ps
<1>3. s.pointers \in [Object -> Nat]
    BY <1>1 DEF ObState
<1> HIDE DEF r
<1>4. \A x \in Object :
         /\ r.pointers[x] = IF x = o THEN s.pointers[x] + 1 ELSE s.pointers[x]
         /\ K[x] = IF x = o THEN H[x] + 1 ELSE H[x]
         /\ s.pointers[x] \in Nat /\ H[x] \in Nat
    BY <1>1, <1>2, <1>3
<1>5. K \in [Object -> Nat]
    BY <1>1
<1> HIDE DEF K
<1>6. Counted(r, K)
    <2> SUFFICES ASSUME NEW x \in Object
                 PROVE  /\ r.handles[x] = Cardinality(HandlesTo(r, x))
                        /\ r.pointers[x] = r.handles[x] + K[x]
        BY DEF Counted
    <2>1. HandlesTo(r, x) = HandlesTo(s, x)
        BY <1>2 DEF HandlesTo, SameTables
    <2>2. s.handles[x] = Cardinality(HandlesTo(s, x)) /\ s.pointers[x] = s.handles[x] + H[x]
        BY <1>1 DEF Counted
    <2>3. s.handles[x] \in Nat
        BY <1>1 DEF ObState
    <2>4. \A a, b \in Nat : (a + b) + 1 = a + (b + 1)
        OBVIOUS
    <2> QED BY <1>2, <1>4, <2>1, <2>2, <2>3, <2>4
<1>7. Listed(r)
    <2>1. \A x \in Object : r.pointers[x] # 0 <=> s.pointers[x] # 0
        BY <1>4
    <2> QED BY <1>1, <1>2, <2>1 DEF Listed
<1>8. Queued(r, L) /\ UnbornAreEmpty(r, L)
    BY <1>2 DEF Steady, Queued, UnbornAreEmpty, SameTables
<1> QED BY <1>1, <1>2, <1>5, <1>6, <1>7, <1>8 DEF Steady, Sound, r, K

LEMMA DereferenceSteady ==
    ASSUME NEW s, NEW L, NEW H, Steady(s, L, H), NEW o \in Object, H[o] > 0
    PROVE  Steady(ObDereferenceObject(s, o), L, [H EXCEPT ![o] = @ - 1])
<1> DEFINE r == ObDereferenceObject(s, o)
           K == [H EXCEPT ![o] = @ - 1]
<1>1. s \in ObState /\ ~s.bugcheck /\ Counted(s, H) /\ Listed(s) /\ H \in [Object -> Nat]
    BY DEF Steady, Sound
<1>2. s.pointers \in [Object -> Nat] /\ s.handles \in [Object -> Nat]
    BY <1>1 DEF ObState
<1>3. s.handles[o] < s.pointers[o]
    <2>1. s.pointers[o] = s.handles[o] + H[o] /\ s.handles[o] \in Nat /\ H[o] \in Nat
        BY <1>1, <1>2 DEF Counted
    <2> QED BY <2>1
<1>4. /\ r \in ObState /\ ~r.bugcheck /\ Listed(r) /\ SameTables(s, r)
      /\ r.pointers = [s.pointers EXCEPT ![o] = @ - 1]
      /\ r.handles = s.handles
    BY <1>1, <1>3, DereferenceFacts
<1> HIDE DEF r
<1>5. H[o] \in Nat /\ H[o] - 1 \in Nat
    BY <1>1
<1>6. K \in [Object -> Nat]
    BY <1>1, <1>5
<1>7. \A x \in Object :
         /\ r.pointers[x] = IF x = o THEN s.pointers[x] - 1 ELSE s.pointers[x]
         /\ K[x] = IF x = o THEN H[x] - 1 ELSE H[x]
         /\ s.handles[x] \in Nat /\ H[x] \in Nat
    BY <1>1, <1>2, <1>4
<1> HIDE DEF K
<1>8. Counted(r, K)
    <2> SUFFICES ASSUME NEW x \in Object
                 PROVE  /\ r.handles[x] = Cardinality(HandlesTo(r, x))
                        /\ r.pointers[x] = r.handles[x] + K[x]
        BY DEF Counted
    <2>1. HandlesTo(r, x) = HandlesTo(s, x)
        BY <1>4 DEF HandlesTo, SameTables
    <2>2. s.handles[x] = Cardinality(HandlesTo(s, x)) /\ s.pointers[x] = s.handles[x] + H[x]
        BY <1>1 DEF Counted
    <2>3. \A a, b \in Nat : (a + b) - 1 = a + (b - 1)
        OBVIOUS
    <2> QED BY <1>4, <1>7, <2>1, <2>2, <2>3
<1>9. Queued(r, L) /\ UnbornAreEmpty(r, L)
    BY <1>4 DEF Steady, Queued, UnbornAreEmpty, SameTables
<1> QED BY <1>4, <1>6, <1>8, <1>9 DEF Steady, Sound, r, K

\* What a handle names exists.
LEMMA NamedExists ==
    ASSUME NEW s, NEW L, NEW H, Steady(s, L, H), NEW c \in Process, NEW h, NEW t,
           Named(s, c, h, t) # NoObject
    PROVE  LET o == Named(s, c, h, t)
           IN  /\ o \in Object /\ OfType(o, t)
               /\ h \in Slots /\ s.table[c][h].object = o
               /\ s.handles[o] # 0 /\ s.pointers[o] # 0
<1>1. s \in ObState /\ Sound(s, H) /\ H \in [Object -> Nat]
    BY DEF Steady, Sound
<1>2. IsOpen(s, c, h) /\ OfType(s.table[c][h].object, t)
      /\ Named(s, c, h, t) = s.table[c][h].object
    BY DEF Named
<1> QED BY <1>1, <1>2, OpenSlot, HandleIsCounted

\* ObWaitForSingleObject: its reference comes and goes.
LEMMA WaitSteady ==
    ASSUME NEW s, NEW L, NEW H, Steady(s, L, H), NEW c \in Process, L[c] = "awake", NEW h
    PROVE  Steady(ObWaitForSingleObject(s, c, h),
                  IF Blocks(s, c, h) THEN [L EXCEPT ![c] = "asleep"] ELSE L, H)
<1> DEFINE o == Named(s, c, h, AnyType)
           r == ObReferenceObjectByHandle(s, c, h, AnyType)
           q == [r EXCEPT !.waiters[o] = <<c>> \o @]
           K == [H EXCEPT ![o] = @ + 1]
           M == [L EXCEPT ![c] = "asleep"]
<1>1. CASE o = NoObject
    BY <1>1 DEF ObWaitForSingleObject, Blocks
<1>2. CASE o # NoObject
    <2>1. /\ o \in Object /\ OfType(o, AnyType) /\ s.pointers[o] # 0
          /\ h \in Slots /\ s.table[c][h].object = o
        BY <1>2, NamedExists
    <2>2. r = ObReferenceObject(s, o, AnyType)
        BY <1>2 DEF ObReferenceObjectByHandle
    <2>3. s \in ObState /\ H \in [Object -> Nat] /\ L \in [Process -> Lives]
        BY DEF Steady, Sound
    <2>4. ObWaitForSingleObject(s, c, h) =
             IF s.signal[o] THEN ObDereferenceObject(r, o) ELSE ObDereferenceObject(q, o)
        BY <1>2 DEF ObWaitForSingleObject
    <2>5. Blocks(s, c, h) <=> ~s.signal[o]
        BY <1>2 DEF Blocks
    <2> HIDE DEF o
    <2>6. Steady(r, L, K)
        BY <2>1, <2>2, ReferenceSteady
    <2>7. SameTables(s, r)
        BY <2>1, <2>2, <2>3 DEF ObReferenceObject, SameTables, ObState
    <2> HIDE DEF r
    <2>8. K[o] > 0 /\ [K EXCEPT ![o] = @ - 1] = H
        <3>1. K \in [Object -> Nat] /\ K[o] = H[o] + 1 /\ H[o] \in Nat
            BY <2>1, <2>3
        <3>2. [K EXCEPT ![o] = @ - 1] = [H EXCEPT ![o] = (H[o] + 1) - 1]
            BY <2>1, <2>3
        <3>3. (H[o] + 1) - 1 = H[o]
            BY <3>1
        <3> QED BY <2>1, <2>3, <3>1, <3>2, <3>3
    <2> HIDE DEF K
    <2>9. CASE s.signal[o]
        <3>1. Steady(ObDereferenceObject(r, o), L, [K EXCEPT ![o] = @ - 1])
            BY <2>1, <2>6, <2>8, DereferenceSteady
        <3> QED BY <2>4, <2>5, <2>8, <2>9, <3>1
    <2>10. CASE ~s.signal[o]
        <3> DEFINE W == <<c>> \o r.waiters[o]
        <3>1. /\ r \in ObState /\ r.waiters \in [Object -> Seq(Process)]
              /\ r.waiters[o] \in Seq(Process) /\ Queued(r, L)
            BY <2>1, <2>6 DEF Steady, Sound, ObState
        <3>2. \A x \in Object : ~Contains(r.waiters[x], c)
            BY <3>1 DEF Queued
        <3>3. IsInjective(r.waiters[o])
            BY <2>1, <3>1 DEF Queued
        <3>4. /\ W \in Seq(Process) /\ IsInjective(W)
              /\ \A x : Contains(W, x) <=> Contains(r.waiters[o], x) \/ x = c
            BY <2>1, <3>1, <3>2, <3>3, PrependFacts
        <3>5. q = [r EXCEPT !.waiters[o] = W]
            BY <2>1
        <3> HIDE DEF W
        <3>6. /\ q \in ObState /\ q.bugcheck = r.bugcheck
              /\ q.handles = r.handles /\ q.pointers = r.pointers
              /\ q.ofType = r.ofType /\ q.table = r.table /\ q.signal = r.signal
              /\ q.waiters = [r.waiters EXCEPT ![o] = W]
            <4> DEFINE Ws == [r.waiters EXCEPT ![o] = W]
            <4>1. Ws \in [Object -> Seq(Process)]
                BY <2>1, <3>1, <3>4
            <4>2. q = [r EXCEPT !.waiters = Ws]
                BY <3>1, <3>5 DEF ObState
            <4> HIDE DEF Ws, q
            <4>3. /\ q \in ObState /\ q.bugcheck = r.bugcheck
                  /\ q.handles = r.handles /\ q.pointers = r.pointers
                  /\ q.ofType = r.ofType /\ q.table = r.table /\ q.signal = r.signal
                  /\ q.waiters = Ws
                BY <3>1, <4>1, <4>2 DEF ObState
            <4> QED BY <4>3 DEF Ws
        <3> HIDE DEF q
        <3>7. \A x \in Object : q.waiters[x] = IF x = o THEN W ELSE r.waiters[x]
            BY <2>1, <3>1, <3>6
        <3>8. /\ M \in [Process -> Lives] /\ M[c] = "asleep"
              /\ \A p \in Process : p # c => M[p] = L[p]
            BY <2>3 DEF Lives
        <3> HIDE DEF M
        <3>9. Queued(q, M)
            <4>1. \A x \in Object : IsInjective(q.waiters[x])
                BY <3>1, <3>4, <3>7 DEF Queued
            <4>2. ASSUME NEW p \in Process, NEW x \in Object, Contains(q.waiters[x], p)
                  PROVE  /\ M[p] = "asleep" /\ ~q.signal[x]
                         /\ \E i \in Slots : q.table[p][i].object = x
                <5>1. CASE p = c /\ x = o
                    BY <2>1, <2>7, <2>10, <3>6, <3>8, <5>1 DEF SameTables
                <5>2. CASE ~(p = c /\ x = o)
                    <6>1. Contains(r.waiters[x], p)
                        BY <3>4, <3>7, <4>2, <5>2
                    <6>2. p # c
                        BY <3>2, <6>1
                    <6> QED BY <3>1, <3>6, <3>8, <6>1, <6>2 DEF Queued
                <5> QED BY <5>1, <5>2
            <4>3. ASSUME NEW p \in Process, M[p] = "asleep"
                  PROVE  \E x \in Object : /\ Contains(q.waiters[x], p)
                                           /\ \A y \in Object \ {x} : ~Contains(q.waiters[y], p)
                <5>1. CASE p = c
                    BY <2>1, <3>2, <3>4, <3>7, <5>1
                <5>2. CASE p # c
                    <6>1. \A x \in Object : Contains(q.waiters[x], p) <=> Contains(r.waiters[x], p)
                        BY <3>4, <3>7, <5>2
                    <6> QED BY <3>1, <3>8, <4>3, <5>2, <6>1 DEF Queued
                <5> QED BY <5>1, <5>2
            <4> QED BY <4>1, <4>2, <4>3 DEF Queued
        <3>10. Counted(q, K) /\ Listed(q) /\ ~q.bugcheck /\ K \in [Object -> Nat]
            <4>1. \A x : HandlesTo(q, x) = HandlesTo(r, x)
                BY <3>6 DEF HandlesTo
            <4> QED BY <2>6, <3>6, <4>1 DEF Steady, Sound, Counted, Listed
        <3>11. UnbornAreEmpty(q, M)
            BY <2>6, <3>6, <3>8 DEF Steady, UnbornAreEmpty
        <3>12. Steady(q, M, K)
            BY <3>6, <3>8, <3>9, <3>10, <3>11 DEF Steady, Sound
        <3>13. Steady(ObDereferenceObject(q, o), M, [K EXCEPT ![o] = @ - 1])
            BY <2>1, <2>8, <3>12, DereferenceSteady
        <3> QED BY <2>4, <2>5, <2>8, <2>10, <3>13 DEF M, q
    <2> QED BY <2>9, <2>10
<1> QED BY <1>1, <1>2
-----------------------------------------------------------------------------
\* ObCreateObject, of an object that is not in existence: nobody sleeps on it.
LEMMA CreateSteady ==
    ASSUME NEW s, NEW L, NEW H, Steady(s, L, H), NEW o \in Object, ~Exists(s, o)
    PROVE  Steady(ObCreateObject(s, o), L, [H EXCEPT ![o] = 1])
<1> DEFINE r == ObCreateObject(s, o)
           K == [H EXCEPT ![o] = 1]
           t == TypeOf[o]
           R == <<o>> \o s.ofType[t]
<1>1. s \in ObState /\ ~s.bugcheck /\ Counted(s, H) /\ Listed(s) /\ H \in [Object -> Nat]
      /\ Queued(s, L)
    BY DEF Steady, Sound
<1>2. /\ s.pointers \in [Object -> Nat] /\ s.handles \in [Object -> Nat]
      /\ s.signal \in [Object -> BOOLEAN] /\ s.waiters \in [Object -> Seq(Process)]
      /\ s.ofType \in [Types -> Seq(Object)]
    BY <1>1 DEF ObState
<1>3. t \in Types
    BY ObjectManagerAssumption
<1>4. s.handles[o] = 0 /\ H[o] = 0
    <2>1. s.pointers[o] = 0
        BY <1>1, <1>3 DEF Listed, Exists
    <2>2. s.pointers[o] = s.handles[o] + H[o] /\ s.handles[o] \in Nat /\ H[o] \in Nat
        BY <1>1, <1>2 DEF Counted
    <2>3. \A a, b \in Nat : 0 = a + b => a = 0 /\ b = 0
        OBVIOUS
    <2> QED BY <2>1, <2>2, <2>3
<1>5. HandlesTo(s, o) = {}
    <2>1. Cardinality(HandlesTo(s, o)) = 0
        BY <1>1, <1>4 DEF Counted
    <2> QED BY <2>1, HandlesFinite, Zenon
<1>6. ASSUME NEW p \in Process, NEW h \in Slots PROVE s.table[p][h].object # o
    <2>1. s.table[p][h].object = o => <<p, h>> \in HandlesTo(s, o)
        BY DEF HandlesTo
    <2> QED BY <1>5, <2>1
<1>7. /\ R \in Seq(Object) /\ IsInjective(R)
      /\ \A x : Contains(R, x) <=> Contains(s.ofType[t], x) \/ x = o
    <2> DEFINE Q == s.ofType[t]
    <2>1. Q \in Seq(Object) /\ IsInjective(Q) /\ ~Contains(Q, o)
        BY <1>1, <1>2, <1>3 DEF Listed, Exists
    <2> HIDE DEF Q
    <2>2. /\ <<o>> \o Q \in Seq(Object) /\ IsInjective(<<o>> \o Q)
          /\ \A x : Contains(<<o>> \o Q, x) <=> Contains(Q, x) \/ x = o
        BY <2>1, PrependFacts
    <2> QED BY <2>2 DEF Q
<1>8. /\ r \in ObState /\ ~r.bugcheck /\ r.table = s.table
      /\ r.pointers = [s.pointers EXCEPT ![o] = 1]
      /\ r.handles = [s.handles EXCEPT ![o] = 0]
      /\ r.signal = [s.signal EXCEPT ![o] = FALSE]
      /\ r.waiters = [s.waiters EXCEPT ![o] = <<>>]
      /\ r.ofType = [s.ofType EXCEPT ![t] = R]
    <2> DEFINE Ps == [s.pointers EXCEPT ![o] = 1]
               Hs == [s.handles EXCEPT ![o] = 0]
               Ss == [s.signal EXCEPT ![o] = FALSE]
               Ws == [s.waiters EXCEPT ![o] = <<>>]
               Ts == [s.ofType EXCEPT ![t] = R]
    <2>1. Ps \in [Object -> Nat] /\ Hs \in [Object -> Nat] /\ Ss \in [Object -> BOOLEAN]
        BY <1>2
    <2>2. Ws \in [Object -> Seq(Process)]
        BY <1>2
    <2>3. Ts \in [Types -> Seq(Object)]
        BY <1>2, <1>7
    <2>4. r = [s EXCEPT !.pointers = Ps, !.handles = Hs, !.signal = Ss, !.waiters = Ws,
                        !.ofType = Ts]
        BY <1>1 DEF ObCreateObject, ObState
    <2> HIDE DEF Ps, Hs, Ss, Ws, Ts, r
    <2>5. /\ r \in ObState /\ ~r.bugcheck /\ r.table = s.table
          /\ r.pointers = Ps /\ r.handles = Hs /\ r.signal = Ss /\ r.waiters = Ws /\ r.ofType = Ts
        BY <1>1, <2>1, <2>2, <2>3, <2>4 DEF ObState
    <2> QED BY <2>5 DEF Ps, Hs, Ss, Ws, Ts
<1> HIDE DEF r, R
<1>9. \A x \in Object :
         /\ r.pointers[x] = IF x = o THEN 1 ELSE s.pointers[x]
         /\ r.handles[x]  = IF x = o THEN 0 ELSE s.handles[x]
         /\ r.signal[x]   = IF x = o THEN FALSE ELSE s.signal[x]
         /\ r.waiters[x]  = IF x = o THEN <<>> ELSE s.waiters[x]
         /\ K[x] = IF x = o THEN 1 ELSE H[x]
    BY <1>1, <1>2, <1>8
<1>10. K \in [Object -> Nat]
    BY <1>1
<1> HIDE DEF K
<1>11. Counted(r, K)
    <2> SUFFICES ASSUME NEW x \in Object
                 PROVE  /\ r.handles[x] = Cardinality(HandlesTo(r, x))
                        /\ r.pointers[x] = r.handles[x] + K[x]
        BY DEF Counted
    <2>1. HandlesTo(r, x) = HandlesTo(s, x)
        BY <1>8 DEF HandlesTo
    <2>2. s.handles[x] = Cardinality(HandlesTo(s, x)) /\ s.pointers[x] = s.handles[x] + H[x]
        BY <1>1 DEF Counted
    <2>3. CASE x = o
        <3>1. r.handles[x] = 0 /\ r.pointers[x] = 1 /\ K[x] = 1
            BY <1>9, <2>3
        <3>2. Cardinality(HandlesTo(r, x)) = 0
            BY <1>4, <2>1, <2>2, <2>3
        <3> QED BY <3>1, <3>2
    <2>4. CASE x # o
        <3>1. r.handles[x] = s.handles[x] /\ r.pointers[x] = s.pointers[x] /\ K[x] = H[x]
            BY <1>9, <2>4
        <3> QED BY <2>1, <2>2, <3>1
    <2> QED BY <2>3, <2>4
<1>12. Listed(r)
    <2> SUFFICES ASSUME NEW u \in Types
                 PROVE  /\ IsInjective(r.ofType[u])
                        /\ \A x \in Object : Contains(r.ofType[u], x) <=>
                                                TypeOf[x] = u /\ r.pointers[x] # 0
        BY DEF Listed
    <2>1. r.ofType[u] = IF u = t THEN R ELSE s.ofType[u]
        BY <1>2, <1>8
    <2>2. ASSUME NEW x \in Object
          PROVE  r.pointers[x] # 0 <=> (s.pointers[x] # 0 \/ x = o)
        <3>1. CASE x = o
            <4>1. r.pointers[x] = 1
                BY <1>9, <3>1
            <4> QED BY <3>1, <4>1
        <3>2. CASE x # o
            <4>1. r.pointers[x] = s.pointers[x]
                BY <1>9, <3>2
            <4> QED BY <3>2, <4>1
        <3> QED BY <3>1, <3>2
    <2> HIDE DEF t
    <2>3. CASE u = t
        <3>1. \A x \in Object : Contains(s.ofType[t], x) <=> TypeOf[x] = t /\ s.pointers[x] # 0
            BY <1>1, <1>3 DEF Listed
        <3>2. TypeOf[o] = t
            BY DEF t
        <3> QED BY <1>7, <2>1, <2>2, <2>3, <3>1, <3>2
    <2>4. CASE u # t
        <3>1. \A x \in Object : TypeOf[x] = u => x # o
            BY <2>4 DEF t
        <3> QED BY <1>1, <2>1, <2>2, <2>4, <3>1 DEF Listed
    <2> QED BY <2>3, <2>4
<1>13. \A x : ~Contains(<<>>, x)
    BY DEF Contains
<1>14. Queued(r, L)
    <2>1. \A x \in Object : IsInjective(r.waiters[x])
        <3>1. IsInjective(<<>>)
            BY DEF IsInjective
        <3> QED BY <1>1, <1>9, <3>1 DEF Queued
    <2>2. ASSUME NEW p \in Process, NEW x \in Object
          PROVE  Contains(r.waiters[x], p) <=> Contains(s.waiters[x], p)
        <3>1. CASE x = o
            <4>1. Contains(s.waiters[x], p) => \E h \in Slots : s.table[p][h].object = x
                BY <1>1 DEF Queued
            <4>2. ~Contains(s.waiters[x], p)
                BY <1>6, <3>1, <4>1
            <4>3. r.waiters[x] = <<>>
                BY <1>9, <3>1
            <4>4. ~Contains(r.waiters[x], p)
                BY <1>13, <4>3
            <4> QED BY <4>2, <4>4
        <3>2. CASE x # o
            <4>1. r.waiters[x] = s.waiters[x]
                BY <1>9, <3>2
            <4> QED BY <4>1
        <3> QED BY <3>1, <3>2
    <2>3. \A p \in Process, x \in Object : Contains(r.waiters[x], p) => x # o
        BY <1>9, <1>13
    <2>4. \A p \in Process, x \in Object :
             Contains(r.waiters[x], p) =>
                /\ L[p] = "asleep" /\ ~r.signal[x]
                /\ \E h \in Slots : r.table[p][h].object = x
        BY <1>1, <1>8, <1>9, <2>2, <2>3 DEF Queued
    <2>5. \A p \in Process : L[p] = "asleep" =>
             \E x \in Object : /\ Contains(r.waiters[x], p)
                               /\ \A y \in Object \ {x} : ~Contains(r.waiters[y], p)
        BY <1>1, <2>2 DEF Queued
    <2> QED BY <2>1, <2>4, <2>5 DEF Queued
<1>15. UnbornAreEmpty(r, L)
    BY <1>8 DEF Steady, UnbornAreEmpty
<1> QED BY <1>8, <1>10, <1>11, <1>12, <1>14, <1>15 DEF Steady, Sound, r, K

\* ObSignalObject wakes those who wait for the object, and nobody else.
LEMMA SignalSteady ==
    ASSUME NEW s, NEW L, NEW H, Steady(s, L, H), NEW o \in Object
    PROVE  Steady(ObSignalObject(s, o),
                  [p \in Process |-> IF Contains(s.waiters[o], p) THEN "awake" ELSE L[p]], H)
<1> DEFINE r == ObSignalObject(s, o)
           M == [p \in Process |-> IF Contains(s.waiters[o], p) THEN "awake" ELSE L[p]]
<1>1. /\ s \in ObState /\ ~s.bugcheck /\ Counted(s, H) /\ Listed(s) /\ H \in [Object -> Nat]
      /\ Queued(s, L) /\ L \in [Process -> Lives]
    BY DEF Steady, Sound
<1>2. s.signal \in [Object -> BOOLEAN] /\ s.waiters \in [Object -> Seq(Process)]
    BY <1>1 DEF ObState
<1>3. /\ r \in ObState /\ ~r.bugcheck /\ r.table = s.table /\ r.handles = s.handles
      /\ r.pointers = s.pointers /\ r.ofType = s.ofType
      /\ r.signal = [s.signal EXCEPT ![o] = TRUE]
      /\ r.waiters = [s.waiters EXCEPT ![o] = <<>>]
    <2> DEFINE Ss == [s.signal EXCEPT ![o] = TRUE]
               Ws == [s.waiters EXCEPT ![o] = <<>>]
    <2>1. Ss \in [Object -> BOOLEAN]
        BY <1>2
    <2>2. Ws \in [Object -> Seq(Process)]
        BY <1>2
    <2>3. r = [s EXCEPT !.signal = Ss, !.waiters = Ws]
        BY <1>1 DEF ObSignalObject, ObState
    <2> HIDE DEF Ss, Ws, r
    <2>4. /\ r \in ObState /\ ~r.bugcheck /\ r.table = s.table /\ r.handles = s.handles
          /\ r.pointers = s.pointers /\ r.ofType = s.ofType
          /\ r.signal = Ss /\ r.waiters = Ws
        BY <1>1, <2>1, <2>2, <2>3 DEF ObState
    <2> QED BY <2>4 DEF Ss, Ws
<1> HIDE DEF r
<1>4. \A x \in Object :
         /\ r.signal[x]  = IF x = o THEN TRUE ELSE s.signal[x]
         /\ r.waiters[x] = IF x = o THEN <<>> ELSE s.waiters[x]
    BY <1>2, <1>3
<1>5. /\ M \in [Process -> Lives]
      /\ \A p \in Process : M[p] = IF Contains(s.waiters[o], p) THEN "awake" ELSE L[p]
    BY <1>1 DEF Lives
<1> HIDE DEF M
<1>6. \A x : ~Contains(<<>>, x)
    BY DEF Contains
<1>7. ASSUME NEW p \in Process, NEW x \in Object
      PROVE  Contains(r.waiters[x], p) <=>
                Contains(s.waiters[x], p) /\ ~Contains(s.waiters[o], p)
    <2>1. Contains(s.waiters[x], p) /\ Contains(s.waiters[o], p) => x = o
        BY <1>1 DEF Queued
    <2> QED BY <1>4, <1>6, <2>1
<1>8. Queued(r, M)
    <2>1. \A x \in Object : IsInjective(r.waiters[x])
        <3>1. IsInjective(<<>>)
            BY DEF IsInjective
        <3> QED BY <1>1, <1>4, <3>1 DEF Queued
    <2>2. \A p \in Process, x \in Object : Contains(r.waiters[x], p) => x # o
        BY <1>4, <1>6
    <2>3. \A p \in Process, x \in Object :
             Contains(r.waiters[x], p) =>
                /\ M[p] = "asleep" /\ ~r.signal[x]
                /\ \E h \in Slots : r.table[p][h].object = x
        BY <1>1, <1>3, <1>4, <1>5, <1>7, <2>2 DEF Queued
    <2>4. ASSUME NEW p \in Process, M[p] = "asleep"
          PROVE  \E x \in Object : /\ Contains(r.waiters[x], p)
                                   /\ \A y \in Object \ {x} : ~Contains(r.waiters[y], p)
        <3>1. L[p] = "asleep" /\ ~Contains(s.waiters[o], p)
            BY <1>5, <2>4
        <3> QED BY <1>1, <1>7, <3>1 DEF Queued
    <2> QED BY <2>1, <2>3, <2>4 DEF Queued
<1>9. UnbornAreEmpty(r, M)
    <2>1. \A p \in Process : M[p] = "unborn" => L[p] = "unborn"
        BY <1>5
    <2> QED BY <1>3, <2>1 DEF Steady, UnbornAreEmpty
<1>10. Counted(r, H) /\ Listed(r)
    <2>1. \A x : HandlesTo(r, x) = HandlesTo(s, x)
        BY <1>3 DEF HandlesTo
    <2> QED BY <1>1, <1>3, <2>1 DEF Counted, Listed
<1> QED BY <1>1, <1>3, <1>5, <1>8, <1>9, <1>10 DEF Steady, Sound, r, M

\* What a new process inherits: its handles to an object are as many as the
\* parent's slots that are inherited and name the object.
LEMMA InheritedFacts ==
    ASSUME NEW s \in ObState, NEW parent \in Process, NEW new \in Process,
           \A h \in Slots : s.table[new][h] = NoHandle,
           NEW r, NEW x \in Object,
           r.table = [s.table EXCEPT ![new] =
                         [h \in Slots |-> IF h \in InheritedSlots(s, parent)
                                          THEN s.table[parent][h] ELSE NoHandle]]
    PROVE  /\ InheritedHandles(s, parent, x) \in Nat
           /\ InheritedHandles(s, parent, x) # 0 => HandlesTo(s, x) # {}
           /\ Cardinality(HandlesTo(r, x)) =
                 Cardinality(HandlesTo(s, x)) + InheritedHandles(s, parent, x)
<1> DEFINE I == {h \in InheritedSlots(s, parent) : s.table[parent][h].object = x}
           N == {ph \in Process \X Slots : ph[1] = new /\ ph[2] \in I}
           f == [h \in I |-> <<new, h>>]
<1>1. I \subseteq Slots /\ IsFiniteSet(I)
    <2>1. I \in SUBSET Slots
        BY DEF InheritedSlots
    <2> HIDE DEF I
    <2>2. IsFiniteSet(I)
        BY <2>1, SlotFacts, FS_Subset
    <2> QED BY <2>1, <2>2
<1>2. InheritedHandles(s, parent, x) = Cardinality(I)
    BY DEF InheritedHandles
<1>3. \A h \in I : s.table[parent][h].object = x
    OBVIOUS
<1>4. \A h \in Slots : r.table[new][h].object = x <=> h \in I
    <2>1. s.table \in [Process -> [Slots -> Entry]]
        BY DEF ObState
    <2>2. ASSUME NEW h \in Slots
          PROVE  r.table[new][h] = IF h \in InheritedSlots(s, parent)
                                   THEN s.table[parent][h] ELSE NoHandle
        BY <2>1
    <2>3. NoHandle.object # x
        BY ObjectManagerAssumption DEF NoHandle
    <2> QED BY <2>2, <2>3
<1> HIDE DEF I
<1>5. Cardinality(N) = Cardinality(I) /\ IsFiniteSet(N)
    <2>1. f \in Bijection(I, N)
        <3>1. \A h \in I : f[h] \in N
            BY <1>1
        <3>2. f \in [I -> N]
            BY <3>1
        <3>3. \A a, b \in I : f[a] = f[b] => a = b
            OBVIOUS
        <3>4. ASSUME NEW ph \in N PROVE \E h \in I : f[h] = ph
            <4>1. ph[2] \in I /\ f[ph[2]] = <<new, ph[2]>>
                BY <3>4
            <4>2. ph = <<new, ph[2]>>
                BY <3>4
            <4> QED BY <4>1, <4>2
        <3> HIDE DEF f, N
        <3>5. f \in Injection(I, N)
            BY <3>2, <3>3 DEF Injection, IsInjective
        <3>6. f \in Surjection(I, N)
            BY <3>2, <3>4 DEF Surjection
        <3> QED BY <3>5, <3>6 DEF Bijection
    <2>2. ExistsBijection(I, N)
        BY <2>1 DEF ExistsBijection
    <2> HIDE DEF N
    <2> QED BY <1>1, <2>2, FS_Bijection
<1>6. HandlesTo(r, x) = HandlesTo(s, x) \cup N
    <2>1. \A p \in Process : p # new => r.table[p] = s.table[p]
        BY DEF ObState
    <2>2. ASSUME NEW p \in Process, NEW h \in Slots
          PROVE  r.table[p][h].object = x <=>
                    (s.table[p][h].object = x \/ (p = new /\ h \in I))
        <3>1. CASE p = new
            <4>1. s.table[p][h].object # x
                BY <3>1, ObjectManagerAssumption DEF NoHandle
            <4> QED BY <1>4, <3>1, <4>1
        <3>2. CASE p # new
            BY <2>1, <3>2
        <3> QED BY <3>1, <3>2
    <2>3. ASSUME NEW ph \in Process \X Slots
          PROVE  r.table[ph[1]][ph[2]].object = x <=>
                    (s.table[ph[1]][ph[2]].object = x \/ ph \in N)
        <3>1. PICK p \in Process, h \in Slots : ph = <<p, h>>
            OBVIOUS
        <3> QED BY <2>2, <3>1
    <2> QED BY <2>3 DEF HandlesTo
<1>7. HandlesTo(s, x) \cap N = {}
    <2>1. NoHandle.object # x
        BY ObjectManagerAssumption DEF NoHandle
    <2>2. ASSUME NEW ph \in N PROVE s.table[ph[1]][ph[2]].object # x
        BY <2>1, <2>2
    <2> QED BY <2>2 DEF HandlesTo
<1>8. Cardinality(HandlesTo(r, x)) = Cardinality(HandlesTo(s, x)) + Cardinality(I)
    <2> DEFINE S == HandlesTo(s, x)
    <2>1. IsFiniteSet(S) /\ Cardinality(S) \in Nat
        BY HandlesFinite
    <2>2. S \cap N = {} /\ HandlesTo(r, x) = S \cup N
        BY <1>6, <1>7
    <2> HIDE DEF S, N
    <2>3. Cardinality(S \cup N) = Cardinality(S) + Cardinality(N) - Cardinality(S \cap N)
        BY <1>5, <2>1, FS_Union
    <2>4. Cardinality(S \cap N) = 0
        BY <2>2, FS_EmptySet
    <2>5. Cardinality(N) \in Nat
        BY <1>5, FS_CardinalityType
    <2>6. Cardinality(S \cup N) = Cardinality(S) + Cardinality(N)
        BY <2>1, <2>3, <2>4, <2>5
    <2> QED BY <1>5, <2>2, <2>6 DEF S
<1>9. Cardinality(I) \in Nat /\ (Cardinality(I) = 0 <=> I = {})
    BY <1>1, FS_CardinalityType, FS_EmptySet
<1>10. I # {} => HandlesTo(s, x) # {}
    <2> SUFFICES ASSUME NEW h \in I PROVE HandlesTo(s, x) # {}
        OBVIOUS
    <2>1. <<parent, h>> \in HandlesTo(s, x)
        BY <1>1, <1>3 DEF HandlesTo
    <2> QED BY <2>1
<1> QED BY <1>2, <1>8, <1>9, <1>10

\* ObInitProcess, by a process that is awake for one that is new.
LEMMA InitProcessSteady ==
    ASSUME NEW s, NEW L, NEW H, Steady(s, L, H),
           NEW parent \in Process, L[parent] = "awake",
           NEW new \in Process, L[new] = "unborn"
    PROVE  Steady(ObInitProcess(s, parent, new), [L EXCEPT ![new] = "awake"], H)
<1> DEFINE r == ObInitProcess(s, parent, new)
           M == [L EXCEPT ![new] = "awake"]
           I == [o \in Object |-> InheritedHandles(s, parent, o)]
           Tn == [h \in Slots |-> IF h \in InheritedSlots(s, parent)
                                  THEN s.table[parent][h] ELSE NoHandle]
           Tb == [s.table EXCEPT ![new] = Tn]
           Hs == [o \in Object |-> s.handles[o] + I[o]]
           Ps == [o \in Object |-> s.pointers[o] + I[o]]
<1>1. /\ s \in ObState /\ ~s.bugcheck /\ Counted(s, H) /\ Listed(s) /\ H \in [Object -> Nat]
      /\ Queued(s, L) /\ UnbornAreEmpty(s, L) /\ L \in [Process -> Lives]
    BY DEF Steady, Sound
<1>2. /\ s.pointers \in [Object -> Nat] /\ s.handles \in [Object -> Nat]
      /\ s.table \in [Process -> [Slots -> Entry]]
    BY <1>1 DEF ObState
<1>3. \A h \in Slots : s.table[new][h] = NoHandle
    BY <1>1 DEF UnbornAreEmpty
<1>4. r = [s EXCEPT !.table = Tb, !.handles = Hs, !.pointers = Ps]
    BY <1>1, <1>2 DEF ObInitProcess, ObState
<1>5. Tn \in [Slots -> Entry]
    <2>1. NoHandle \in Entry
        BY DEF NoHandle, Entry
    <2>2. \A h \in Slots : Tn[h] \in Entry
        BY <1>2, <2>1
    <2> QED BY <2>2
<1>6. Tb \in [Process -> [Slots -> Entry]]
    <2> HIDE DEF Tn
    <2> QED BY <1>2, <1>5
<1> HIDE DEF r
<1>7. ASSUME NEW x \in Object
      PROVE  /\ I[x] \in Nat /\ (I[x] # 0 => HandlesTo(s, x) # {})
             /\ Cardinality(HandlesTo(r, x)) = Cardinality(HandlesTo(s, x)) + I[x]
    <2>1. r.table = Tb
        <3> HIDE DEF Tb, Hs, Ps
        <3> QED BY <1>1, <1>4 DEF ObState
    <2>2. I[x] = InheritedHandles(s, parent, x)
        OBVIOUS
    <2> HIDE DEF I
    <2> QED BY <1>1, <1>3, <2>1, <2>2, InheritedFacts
<1> HIDE DEF I
<1>8. Hs \in [Object -> Nat] /\ Ps \in [Object -> Nat]
    <2>1. \A a, b \in Nat : a + b \in Nat
        OBVIOUS
    <2>2. \A x \in Object : s.handles[x] + I[x] \in Nat /\ s.pointers[x] + I[x] \in Nat
        BY <1>2, <1>7, <2>1
    <2> QED BY <2>2
<1>9. \A x \in Object : Hs[x] = s.handles[x] + I[x] /\ Ps[x] = s.pointers[x] + I[x]
    OBVIOUS
<1> HIDE DEF Hs, Ps, Tb
<1>10. /\ r \in ObState /\ ~r.bugcheck /\ r.signal = s.signal /\ r.waiters = s.waiters
       /\ r.ofType = s.ofType /\ r.table = Tb /\ r.handles = Hs /\ r.pointers = Ps
    BY <1>1, <1>4, <1>6, <1>8 DEF ObState
<1>11. Counted(r, H)
    <2> SUFFICES ASSUME NEW x \in Object
                 PROVE  /\ r.handles[x] = Cardinality(HandlesTo(r, x))
                        /\ r.pointers[x] = r.handles[x] + H[x]
        BY DEF Counted
    <2>1. s.handles[x] = Cardinality(HandlesTo(s, x)) /\ s.pointers[x] = s.handles[x] + H[x]
        BY <1>1 DEF Counted
    <2>2. r.handles[x] = s.handles[x] + I[x] /\ r.pointers[x] = s.pointers[x] + I[x]
        BY <1>9, <1>10
    <2>3. Cardinality(HandlesTo(r, x)) = Cardinality(HandlesTo(s, x)) + I[x]
        BY <1>7, <1>10
    <2>4. s.handles[x] \in Nat /\ H[x] \in Nat /\ I[x] \in Nat
        BY <1>1, <1>2, <1>7
    <2>5. \A a, b, i \in Nat : (a + b) + i = (a + i) + b
        OBVIOUS
    <2>6. r.pointers[x] = r.handles[x] + H[x]
        BY <2>1, <2>2, <2>4, <2>5
    <2> QED BY <2>1, <2>2, <2>3, <2>6
<1>12. Listed(r)
    <2>1. ASSUME NEW x \in Object PROVE r.pointers[x] # 0 <=> s.pointers[x] # 0
        <3>1. r.pointers[x] = s.pointers[x] + I[x] /\ s.pointers[x] \in Nat /\ I[x] \in Nat
            BY <1>2, <1>7, <1>9, <1>10
        <3>2. \A a, b \in Nat : (a + b = 0 => a = 0) /\ (b = 0 => a + b = a)
            OBVIOUS
        <3>3. I[x] # 0 => s.pointers[x] # 0
            <4> SUFFICES ASSUME HandlesTo(s, x) # {} PROVE s.pointers[x] # 0
                BY <1>7
            <4>1. PICK p \in Process, h \in Slots : s.table[p][h].object = x
                BY DEF HandlesTo
            <4> QED BY <1>1, <4>1, HandleIsCounted DEF Sound
        <3> QED BY <3>1, <3>2, <3>3
    <2> QED BY <1>1, <1>10, <2>1 DEF Listed
<1>13. /\ M \in [Process -> Lives]
       /\ \A p \in Process : M[p] = IF p = new THEN "awake" ELSE L[p]
    BY <1>1 DEF Lives
<1> HIDE DEF M
<1>14. \A p \in Process : p # new => r.table[p] = s.table[p]
    BY <1>2, <1>10 DEF Tb
<1>15. Queued(r, M)
    <2>1. \A p \in Process : M[p] = "asleep" <=> L[p] = "asleep"
        BY <1>13
    <2>2. \A p \in Process : L[p] = "asleep" => p # new
        OBVIOUS
    <2> QED BY <1>1, <1>10, <1>14, <2>1, <2>2 DEF Queued
<1>16. UnbornAreEmpty(r, M)
    BY <1>1, <1>13, <1>14 DEF UnbornAreEmpty
<1> QED BY <1>1, <1>10, <1>11, <1>12, <1>13, <1>15, <1>16 DEF Steady, Sound, r, M
-----------------------------------------------------------------------------
\* A process that is awake may die: it is in no queue.
LEMMA DeathSteady ==
    ASSUME NEW s, NEW L, NEW H, Steady(s, L, H), NEW p \in Process, L[p] = "awake"
    PROVE  Steady(s, [L EXCEPT ![p] = "dead"], H)
<1> DEFINE M == [L EXCEPT ![p] = "dead"]
<1>1. L \in [Process -> Lives] /\ Queued(s, L) /\ UnbornAreEmpty(s, L)
    BY DEF Steady
<1>2. /\ M \in [Process -> Lives]
      /\ \A q \in Process : M[q] = IF q = p THEN "dead" ELSE L[q]
    BY <1>1 DEF Lives
<1> HIDE DEF M
<1>3. \A q \in Process : (M[q] = "asleep" <=> L[q] = "asleep")
                          /\ (M[q] = "unborn" <=> L[q] = "unborn")
    BY <1>2
<1>4. Queued(s, M)
    BY <1>1, <1>3 DEF Queued
<1>5. UnbornAreEmpty(s, M)
    BY <1>1, <1>3 DEF UnbornAreEmpty
<1>6. Steady(s, M, H)
    BY <1>2, <1>4, <1>5 DEF Steady
<1> QED BY <1>6 DEF M

\* At boot there is no object, and nobody sleeps.
LEMMA InitSteady ==
    ASSUME NEW L \in [Process -> Lives], \A p \in Process : L[p] # "asleep"
    PROVE  Steady(ObInit, L, [o \in Object |-> 0])
<1> DEFINE s == ObInit
           H == [o \in Object |-> 0]
<1>1. /\ s.handles = [o \in Object |-> 0] /\ s.pointers = [o \in Object |-> 0]
      /\ s.signal = [o \in Object |-> FALSE] /\ s.bugcheck = FALSE
      /\ s.waiters = [o \in Object |-> <<>>] /\ s.ofType = [t \in Types |-> <<>>]
      /\ s.table = [p \in Process |-> [h \in Slots |-> NoHandle]]
    BY DEF ObInit
<1>2. NoHandle \in Entry /\ NoHandle.object \notin Object
    BY ObjectManagerAssumption DEF NoHandle, Entry
<1>3. s \in ObState
    <2>1. [p \in Process |-> [h \in Slots |-> NoHandle]] \in [Process -> [Slots -> Entry]]
        BY <1>2
    <2> QED BY <2>1 DEF ObInit, ObState
<1> HIDE DEF s
<1>4. ASSUME NEW o \in Object PROVE Cardinality(HandlesTo(s, o)) = 0
    <2>1. \A p \in Process, h \in Slots : s.table[p][h].object # o
        BY <1>1, <1>2
    <2>2. HandlesTo(s, o) = {}
        BY <2>1 DEF HandlesTo
    <2> QED BY <2>2, HandlesFinite, Zenon
<1>5. Counted(s, H)
    BY <1>1, <1>4 DEF Counted
<1>6. (\A x : ~Contains(<<>>, x)) /\ IsInjective(<<>>)
    BY DEF Contains, IsInjective
<1>7. Listed(s)
    BY <1>1, <1>6 DEF Listed
<1>8. Queued(s, L)
    <2>1. \A o \in Object : s.waiters[o] = <<>>
        BY <1>1
    <2> QED BY <1>6, <2>1 DEF Queued
<1>9. UnbornAreEmpty(s, L)
    BY <1>1 DEF UnbornAreEmpty
<1>10. H \in [Object -> Nat]
    OBVIOUS
<1> HIDE DEF H
<1>11. Steady(s, L, H)
    BY <1>1, <1>3, <1>5, <1>7, <1>8, <1>9, <1>10 DEF Steady, Sound
<1> QED BY <1>11 DEF s, H

LEMMA InitInv == Init => IInv
<1> SUFFICES ASSUME Init PROVE Steady(ob, life, held)
    BY DEF IInv
<1>1. /\ ob = ObInit /\ life \in [Process -> {"awake", "unborn"}]
      /\ held = [o \in Object |-> 0]
    BY DEF Init
<1>2. life \in [Process -> Lives] /\ \A p \in Process : life[p] # "asleep"
    BY <1>1 DEF Lives
<1> QED BY <1>1, <1>2, InitSteady

\* Every call keeps the invariant.
LEMMA NextInv == IInv /\ [Next]_vars => IInv'
<1> SUFFICES ASSUME Steady(ob, life, held), [Next]_vars PROVE Steady(ob', life', held')
    BY DEF IInv
<1>1. ASSUME NEW o \in Object, CreateObject(o) PROVE Steady(ob', life', held')
    BY <1>1, CreateSteady DEF CreateObject
<1>2. ASSUME NEW o \in Object, DereferenceObject(o) PROVE Steady(ob', life', held')
    BY <1>2, DereferenceSteady DEF DereferenceObject
<1>3. ASSUME NEW o \in Object, SignalObject(o) PROVE Steady(ob', life', held')
    BY <1>3, SignalSteady DEF SignalObject
<1>4. ASSUME NEW o \in Object, NEW t \in Types \cup {AnyType}, ReferenceObject(o, t)
      PROVE  Steady(ob', life', held')
    <2>1. CASE ~OfType(o, t)
        BY <1>4, <2>1 DEF ReferenceObject, ObReferenceObject
    <2>2. CASE OfType(o, t)
        <3>1. ob.pointers[o] # 0
            <4>1. TypeOf[o] \in Types /\ Listed(ob)
                BY ObjectManagerAssumption DEF Steady, Sound
            <4> QED BY <1>4, <4>1 DEF ReferenceObject, Listed, Exists
        <3> QED BY <1>4, <2>2, <3>1, ReferenceSteady DEF ReferenceObject
    <2> QED BY <2>1, <2>2
<1>5. ASSUME NEW c \in Process, NEW o \in Object, NEW t \in Types, OpenObjectByPointer(c, o, t)
      PROVE  Steady(ob', life', held')
    <2> DEFINE inherit == o \in Inherited
    <2>1. inherit \in BOOLEAN
        OBVIOUS
    <2>2. /\ life[c] = "awake" /\ Exists(ob, o) /\ life' = life /\ held' = held
          /\ ob' = ObOpenObjectByPointer(ob, c, o, inherit, t)
        BY <1>5 DEF OpenObjectByPointer, Awake
    <2> HIDE DEF inherit
    <2>3. Steady(ObOpenObjectByPointer(ob, c, o, inherit, t), life, held)
        BY <2>1, <2>2, OpenSteady
    <2> QED BY <2>2, <2>3
<1>6. ASSUME NEW c \in Process, NEW h \in Handle, NEW t \in Types \cup {AnyType},
             ReferenceObjectByHandle(c, h, t)
      PROVE  Steady(ob', life', held')
    <2> DEFINE o == Named(ob, c, h, t)
    <2>1. CASE o = NoObject
        BY <1>6, <2>1 DEF ReferenceObjectByHandle, ObReferenceObjectByHandle
    <2>2. CASE o # NoObject
        <3>1. o \in Object /\ OfType(o, t) /\ h \in Slots /\ ob.table[c][h].object = o
            BY <2>2, NamedExists
        <3>2. /\ ob' = ObReferenceObject(ob, o, t) /\ held' = [held EXCEPT ![o] = @ + 1]
              /\ life' = life
            BY <1>6, <2>2 DEF ReferenceObjectByHandle, ObReferenceObjectByHandle
        <3> HIDE DEF o
        <3>3. ob.pointers[o] # 0
            BY <3>1, HandleIsCounted DEF Steady
        <3> QED BY <3>1, <3>2, <3>3, ReferenceSteady
    <2> QED BY <2>1, <2>2
<1>7. ASSUME NEW c \in Process, NEW h \in Handle, CloseHandle(c, h)
      PROVE  Steady(ob', life', held')
    BY <1>7, CloseSteady DEF CloseHandle, Awake
<1>8. ASSUME NEW c \in Process, NEW h \in Handle, WaitForSingleObject(c, h)
      PROVE  Steady(ob', life', held')
    BY <1>8, WaitSteady DEF WaitForSingleObject, Awake
<1>9. ASSUME NEW c \in Process, NEW p \in Process, InitProcess(c, p)
      PROVE  Steady(ob', life', held')
    BY <1>9, InitProcessSteady DEF InitProcess, Awake
<1>10. ASSUME NEW c \in Process, NEW p \in Process, KillProcess(c, p)
       PROVE  Steady(ob', life', held')
    <2>1. life[c] = "awake" /\ life[p] = "awake"
        BY <1>10 DEF KillProcess, Awake
    <2>2. Steady(ObKillProcess(ob, c, p), life, held)
        BY <2>1, KillSteady
    <2>3. Steady(ObKillProcess(ob, c, p), [life EXCEPT ![p] = "dead"], held)
        BY <2>1, <2>2, DeathSteady
    <2> QED BY <1>10, <2>3 DEF KillProcess
<1>11. CASE UNCHANGED vars
    BY <1>11 DEF vars
<1> QED BY <1>1, <1>2, <1>3, <1>4, <1>5, <1>6, <1>7, <1>8, <1>9, <1>10, <1>11 DEF Next
-----------------------------------------------------------------------------
\* The counts, the lists, the queues and the tables of the unborn, together, are
\* kept by every call the kernel makes.
THEOREM AlwaysSteady == Spec => []IInv
BY InitInv, NextInv, PTL DEF Spec

\* The invariant has the properties the runs check.
LEMMA SteadyProperties ==
    IInv => TypeOK /\ CountsAreReferences /\ ExistsWhileReferenced
            /\ SleepersAreQueued /\ CountsNeverCrash
<1> SUFFICES ASSUME Steady(ob, life, held)
             PROVE  TypeOK /\ CountsAreReferences /\ ExistsWhileReferenced
                    /\ SleepersAreQueued /\ CountsNeverCrash
    BY DEF IInv
<1>1. /\ ob \in ObState /\ ~ob.bugcheck /\ Counted(ob, held) /\ Listed(ob)
      /\ Queued(ob, life) /\ life \in [Process -> Lives] /\ held \in [Object -> Nat]
    BY DEF Steady, Sound
<1>2. TypeOK /\ CountsNeverCrash
    BY <1>1 DEF TypeOK, CountsNeverCrash
<1>3. CountsAreReferences
    BY <1>1 DEF Counted, CountsAreReferences
<1>4. SleepersAreQueued
    BY <1>1 DEF Queued, SleepersAreQueued
<1>5. ASSUME NEW o \in Object PROVE Exists(ob, o) <=> (HandlesTo(ob, o) # {} \/ held[o] > 0)
    <2>1. TypeOf[o] \in Types
        BY ObjectManagerAssumption
    <2>2. Exists(ob, o) <=> ob.pointers[o] # 0
        BY <1>1, <2>1 DEF Listed, Exists
    <2>3. ob.pointers[o] = ob.handles[o] + held[o] /\ ob.handles[o] = Cardinality(HandlesTo(ob, o))
        BY <1>1 DEF Counted
    <2>4. ob.handles[o] \in Nat /\ held[o] \in Nat
        BY <1>1 DEF ObState
    <2>5. \A a, b \in Nat : a + b # 0 <=> (a # 0 \/ b > 0)
        OBVIOUS
    <2>6. ob.pointers[o] # 0 <=> (ob.handles[o] # 0 \/ held[o] > 0)
        BY <2>3, <2>4, <2>5
    <2>7. ob.handles[o] # 0 <=> HandlesTo(ob, o) # {}
        BY <2>3, HandlesFinite, Zenon
    <2> QED BY <2>2, <2>6, <2>7
<1>6. ExistsWhileReferenced
    BY <1>1, <1>5 DEF Listed, ExistsWhileReferenced
<1> QED BY <1>2, <1>3, <1>4, <1>6

\* The state keeps its types.
THEOREM ObjectManagerTypes == Spec => []TypeOK
BY AlwaysSteady, SteadyProperties, PTL

\* HandleCount is the number of slots that name the object, in all the tables,
\* and PointerCount counts those and the pointers the kernel holds.
THEOREM CountsAreExact == Spec => []CountsAreReferences
BY AlwaysSteady, SteadyProperties, PTL

\* An object is on the list of its type exactly as long as somebody refers to it.
THEOREM ReferencesKeepAlive == Spec => []ExistsWhileReferenced
BY AlwaysSteady, SteadyProperties, PTL

\* Who sleeps is in one WaitQueue, of an object a handle of its own keeps.
THEOREM SleepersCanBeWoken == Spec => []SleepersAreQueued
BY AlwaysSteady, SteadyProperties, PTL

\* No ASSERT on the counts fails and no list is searched in vain.
THEOREM NoBugCheck == Spec => []CountsNeverCrash
BY AlwaysSteady, SteadyProperties, PTL
=============================================================================
