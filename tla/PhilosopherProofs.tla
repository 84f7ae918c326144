-------------------------- MODULE PhilosopherProofs --------------------------
(***************************************************************************)
(* Proofs about Philosophers, for every number of philosophers and every   *)
(* bound on the requests under way, on their own or begun by a command;    *)
(* about the numbers that are printed into arguments and read there again; *)
(* and about which program a command begins, and what arrives at it.       *)
(***************************************************************************)
EXTENDS Commands, ListFacts

Everybody == Philosopher \cup {Waiter}
Letters   == Request \cup {Granted}

(***************************************************************************)
(* The forks, told by four things: h, the forks each philosopher has; o,   *)
(* the philosophers that have been sent a fork; P, what the waiter has yet *)
(* to deal with; and free, the forks it takes for free.                    *)
(***************************************************************************)
Wants(h, i) == IF h[i] = {} THEN Left(i) ELSE Right(i)

\* Message k returns fork f, or is i's request for it.
Back(P, k, f) == k \in DOMAIN P /\ P[k].what = "D" /\ P[k].fork = f
Asks(P, k, i, f) ==
    k \in DOMAIN P /\ P[k].what # "D" /\ P[k].from = i /\ P[k].fork = f

\* Fork f was sent to i.
Sent(h, o, i, f) == i \in o /\ Wants(h, i) = f

\* Each fork is in one place at most.
OnePlace(h, o, P) ==
    \A f \in Fork : \A i, j \in Philosopher : \A k, l \in Nat :
        /\ f \in h[i] /\ f \in h[j] => i = j
        /\ Sent(h, o, i, f) /\ Sent(h, o, j, f) => i = j
        /\ Back(P, k, f) /\ Back(P, l, f) => k = l
        /\ f \in h[i] => ~Sent(h, o, j, f)
        /\ f \in h[i] => ~Back(P, k, f)
        /\ Sent(h, o, i, f) => ~Back(P, k, f)

\* The waiter takes for free what is nowhere.
FreeIfNowhere(h, o, P, free) ==
    \A f \in Fork :
        free[f] <=> /\ \A i \in Philosopher : f \notin h[i] /\ ~Sent(h, o, i, f)
                    /\ \A k \in Nat : ~Back(P, k, f)

\* A request that was not forgotten is for the fork its sender still wants,
\* or for one that it has, or that is on its way back behind the request: so
\* the waiter, when it finds the fork free, grants what is wanted.
RequestsAreOfUse(h, P) ==
    \A k \in Nat, i \in Philosopher, f \in Fork :
        Asks(P, k, i, f) => \/ Wants(h, i) = f
                            \/ f \in h[i]
                            \/ \E l \in Nat : k < l /\ Back(P, l, f)

Custody(h, o, P) == OnePlace(h, o, P) /\ RequestsAreOfUse(h, P)
-----------------------------------------------------------------------------
\* Two different forks lie beside a philosopher.
LEMMA TwoForks ==
    ASSUME NEW i \in Philosopher
    PROVE  Left(i) \in Fork /\ Right(i) \in Fork /\ Left(i) # Right(i)
<1>1. N \in Nat /\ N > 1 /\ i \in Nat /\ i < N
    BY PhilosophersAssumption DEF Philosopher
<1>2. (i + 1) % N = IF i + 1 = N THEN 0 ELSE i + 1
    BY <1>1
<1>3. (i + 1) % N \in 0 .. N - 1 /\ (i + 1) % N # i
    BY <1>1, <1>2
<1>4. QED
    BY <1>1, <1>3 DEF Left, Right, Fork, Philosopher

\* What a message to the waiter consists of.
LEMMA RequestFields ==
    /\ \A m \in Request : /\ m.type = MESSAGE_TYPE_FIRST
                          /\ m.from \in Philosopher
                          /\ m.what \in {"L", "R", "D"}
                          /\ m.fork \in Fork
    /\ \A i \in Philosopher, what \in {"L", "R", "D"}, f \in Fork :
          /\ ToWaiter(i, what, f) \in Request
          /\ ToWaiter(i, what, f).type = MESSAGE_TYPE_FIRST
          /\ ToWaiter(i, what, f).from = i
          /\ ToWaiter(i, what, f).what = what
          /\ ToWaiter(i, what, f).fork = f
<1>1. ASSUME NEW m \in Request
      PROVE  /\ m.type = MESSAGE_TYPE_FIRST
             /\ m.from \in Philosopher
             /\ m.what \in {"L", "R", "D"}
             /\ m.fork \in Fork
    <2>1. PICK i \in Philosopher, what \in {"L", "R", "D"}, f \in Fork :
             m = ToWaiter(i, what, f)
        BY DEF Request
    <2>2. QED
        BY <2>1 DEF ToWaiter
<1>2. ASSUME NEW i \in Philosopher, NEW what \in {"L", "R", "D"}, NEW f \in Fork
      PROVE  /\ ToWaiter(i, what, f) \in Request
             /\ ToWaiter(i, what, f).type = MESSAGE_TYPE_FIRST
             /\ ToWaiter(i, what, f).from = i
             /\ ToWaiter(i, what, f).what = what
             /\ ToWaiter(i, what, f).fork = f
    BY DEF Request, ToWaiter
<1>3. QED
    BY <1>1, <1>2

\* The last message appended is what it is, the others are what they were.
LEMMA AppendMessages ==
    ASSUME NEW P \in Seq(Request), NEW m \in Request,
           NEW k \in Nat, NEW f \in Fork
    PROVE  /\ Append(P, m) \in Seq(Request)
           /\ Len(P) + 1 \in Nat
           /\ Back(Append(P, m), k, f) <=>
                 Back(P, k, f) \/ (k = Len(P) + 1 /\ m.what = "D" /\ m.fork = f)
           /\ \A i \in Philosopher : Asks(Append(P, m), k, i, f) <=>
                 \/ Asks(P, k, i, f)
                 \/ k = Len(P) + 1 /\ m.what # "D" /\ m.from = i /\ m.fork = f
           /\ Back(P, k, f) => k < Len(P) + 1
           /\ \A i \in Philosopher : Asks(P, k, i, f) => k < Len(P) + 1
<1> DEFINE A == Append(P, m)
<1>1. /\ A \in Seq(Request)
      /\ Len(P) \in Nat
      /\ DOMAIN P = 1 .. Len(P)
      /\ DOMAIN A = 1 .. Len(P) + 1
      /\ \A n \in 1 .. Len(P) : A[n] = P[n]
      /\ A[Len(P) + 1] = m
    OBVIOUS
<1> HIDE DEF A
<1>2. k \in DOMAIN A <=> k \in DOMAIN P \/ k = Len(P) + 1
    BY <1>1
<1>3. k \in DOMAIN P => A[k] = P[k] /\ k < Len(P) + 1
    BY <1>1
<1>4. QED
    BY <1>1, <1>2, <1>3 DEF Back, Asks, A

\* When the first message is dealt with, the others move up.
LEMMA TailMessages ==
    ASSUME NEW P \in Seq(Request), P # <<>>
    PROVE  /\ Tail(P) \in Seq(Request)
           /\ 1 \in DOMAIN P
           /\ \A k \in Nat, f \in Fork : Back(Tail(P), k, f) <=> k > 0 /\ Back(P, k + 1, f)
           /\ \A k \in Nat, f \in Fork, i \in Philosopher :
                 Asks(Tail(P), k, i, f) <=> k > 0 /\ Asks(P, k + 1, i, f)
<1> DEFINE T == Tail(P)
<1>1. /\ T \in Seq(Request)
      /\ Len(P) \in Nat /\ Len(P) > 0
      /\ DOMAIN P = 1 .. Len(P)
      /\ DOMAIN T = 1 .. Len(P) - 1
      /\ \A n \in 1 .. Len(P) - 1 : T[n] = P[n + 1]
    OBVIOUS
<1> HIDE DEF T
<1>2. ASSUME NEW k \in Nat
      PROVE  /\ k \in DOMAIN T <=> k > 0 /\ k + 1 \in DOMAIN P
             /\ k \in DOMAIN T => T[k] = P[k + 1]
    BY <1>1
<1>3. QED
    BY <1>1, <1>2 DEF Back, Asks, T
-----------------------------------------------------------------------------
\* Asking keeps the custody: what is asked for is wanted.
LEMMA AskCustody ==
    ASSUME NEW h, NEW o, NEW P \in Seq(Request), NEW free,
           Custody(h, o, P),
           NEW i \in Philosopher, NEW m \in Request,
           m.what # "D", m.from = i, m.fork = Wants(h, i)
    PROVE  /\ Custody(h, o, Append(P, m))
           /\ FreeIfNowhere(h, o, P, free) => FreeIfNowhere(h, o, Append(P, m), free)
<1> DEFINE A == Append(P, m)
           n == Len(P) + 1
<1>1. /\ n \in Nat
      /\ \A k \in Nat, f \in Fork : Back(A, k, f) <=> Back(P, k, f)
      /\ \A k \in Nat, f \in Fork, j \in Philosopher :
            Asks(A, k, j, f) <=> Asks(P, k, j, f) \/ (k = n /\ i = j /\ f = Wants(h, i))
    BY AppendMessages
<1> HIDE DEF A, n
<1>2. OnePlace(h, o, A)
    BY <1>1 DEF OnePlace, Custody
<1>3. RequestsAreOfUse(h, A)
    BY <1>1 DEF RequestsAreOfUse, Custody
<1>4. FreeIfNowhere(h, o, P, free) => FreeIfNowhere(h, o, A, free)
    BY <1>1 DEF FreeIfNowhere
<1>5. QED
    BY <1>2, <1>3, <1>4 DEF Custody, A

\* A fork that was sent is now with its philosopher.
LEMMA GetCustody ==
    ASSUME NEW h \in [Philosopher -> SUBSET Fork], NEW o, NEW P, NEW free,
           Custody(h, o, P),
           NEW i \in Philosopher, i \in o, Wants(h, i) \in Fork
    PROVE  LET h2 == [h EXCEPT ![i] = @ \cup {Wants(h, i)}]
           IN  /\ Custody(h2, o \ {i}, P)
               /\ FreeIfNowhere(h, o, P, free) => FreeIfNowhere(h2, o \ {i}, P, free)
<1> DEFINE h2 == [h EXCEPT ![i] = @ \cup {Wants(h, i)}]
           o2 == o \ {i}
<1>1. /\ \A j \in Philosopher, f \in Fork :
            /\ f \in h2[j] <=> f \in h[j] \/ (j = i /\ Sent(h, o, i, f))
            /\ Sent(h2, o2, j, f) <=> j # i /\ Sent(h, o, j, f)
      /\ \A j \in Philosopher : j # i => Wants(h2, j) = Wants(h, j)
      /\ \A f \in Fork : Wants(h, i) = f <=> Sent(h, o, i, f)
    BY DEF Sent, Wants
<1> HIDE DEF h2, o2
<1>2. OnePlace(h2, o2, P)
    BY <1>1 DEF OnePlace, Custody
<1>3. RequestsAreOfUse(h2, P)
    BY <1>1 DEF RequestsAreOfUse, Custody
<1>4. FreeIfNowhere(h, o, P, free) => FreeIfNowhere(h2, o2, P, free)
    BY <1>1 DEF FreeIfNowhere
<1>5. QED
    BY <1>2, <1>3, <1>4 DEF Custody, h2, o2

\* A fork is on its way back.
LEMMA DropCustody ==
    ASSUME NEW h \in [Philosopher -> SUBSET Fork], NEW o, NEW P \in Seq(Request), NEW free,
           Custody(h, o, P),
           NEW i \in Philosopher, Wants(h, i) \in h[i],
           NEW m \in Request, m.what = "D", m.fork \in h[i]
    PROVE  LET h2 == [h EXCEPT ![i] = @ \ {m.fork}]
           IN  /\ Custody(h2, o, Append(P, m))
               /\ FreeIfNowhere(h, o, P, free) => FreeIfNowhere(h2, o, Append(P, m), free)
<1> DEFINE h2 == [h EXCEPT ![i] = @ \ {m.fork}]
           A  == Append(P, m)
           n  == Len(P) + 1
<1>1. /\ n \in Nat
      /\ \A k \in Nat, f \in Fork :
            /\ Back(A, k, f) <=> Back(P, k, f) \/ (k = n /\ f = m.fork)
            /\ Back(P, k, f) => k < n
      /\ \A k \in Nat, f \in Fork, j \in Philosopher :
            /\ Asks(A, k, j, f) <=> Asks(P, k, j, f)
            /\ Asks(P, k, j, f) => k < n
    BY AppendMessages
<1>2. i \notin o
    BY DEF Custody, OnePlace, Sent
<1>3. /\ \A j \in Philosopher, f \in Fork :
            /\ f \in h2[j] <=> f \in h[j] /\ ~(j = i /\ f = m.fork)
            /\ Sent(h2, o, j, f) <=> Sent(h, o, j, f)
      /\ \A j \in Philosopher : j # i => Wants(h2, j) = Wants(h, j)
    BY <1>2 DEF Sent, Wants
<1> HIDE DEF h2, A, n
<1>4. m.fork \in Fork
    BY RequestFields
<1>5. OnePlace(h2, o, A)
    BY <1>1, <1>3, <1>4 DEF OnePlace, Custody
<1>6. RequestsAreOfUse(h2, A)
    BY <1>1, <1>3, <1>4 DEF RequestsAreOfUse, Custody
<1>7. FreeIfNowhere(h, o, P, free) => FreeIfNowhere(h2, o, A, free)
    <2> SUFFICES ASSUME FreeIfNowhere(h, o, P, free), NEW f \in Fork
                 PROVE  free[f] <=>
                            /\ \A j \in Philosopher : f \notin h2[j] /\ ~Sent(h2, o, j, f)
                            /\ \A k \in Nat : ~Back(A, k, f)
        BY DEF FreeIfNowhere
    <2>1. CASE f = m.fork
        BY <1>1, <2>1 DEF FreeIfNowhere
    <2>2. CASE f # m.fork
        BY <1>1, <1>3, <2>2 DEF FreeIfNowhere
    <2>3. QED
        BY <2>1, <2>2
<1>8. QED
    BY <1>5, <1>6, <1>7 DEF Custody, h2, A

\* When the waiter is gone there are no messages, and a fork is given back to nobody.
LEMMA NobodyCustody ==
    ASSUME NEW h \in [Philosopher -> SUBSET Fork], NEW o, NEW P, Custody(h, o, P)
    PROVE  /\ Custody(h, o, <<>>)
           /\ \A i \in Philosopher, f \in Fork :
                 Wants(h, i) \in h[i] => Custody([h EXCEPT ![i] = @ \ {f}], o, <<>>)
<1>1. /\ \A k \in Nat, f \in Fork : ~Back(<<>>, k, f)
      /\ \A k \in Nat, j \in Philosopher, f \in Fork : ~Asks(<<>>, k, j, f)
    BY DEF Back, Asks
<1>2. Custody(h, o, <<>>)
    BY <1>1 DEF Custody, OnePlace, RequestsAreOfUse
<1>3. ASSUME NEW i \in Philosopher, NEW f \in Fork, Wants(h, i) \in h[i]
      PROVE  Custody([h EXCEPT ![i] = @ \ {f}], o, <<>>)
    <2> DEFINE h2 == [h EXCEPT ![i] = @ \ {f}]
    <2>1. i \notin o
        BY <1>3 DEF Custody, OnePlace, Sent
    <2>2. \A j \in Philosopher, g \in Fork :
             /\ g \in h2[j] => g \in h[j]
             /\ Sent(h2, o, j, g) => Sent(h, o, j, g)
        BY <2>1 DEF Sent, Wants
    <2> HIDE DEF h2
    <2>3. OnePlace(h2, o, <<>>)
        BY <1>1, <2>2 DEF Custody, OnePlace
    <2>4. RequestsAreOfUse(h2, <<>>)
        BY <1>1 DEF RequestsAreOfUse
    <2>5. QED
        BY <2>3, <2>4 DEF Custody, h2
<1>4. QED
    BY <1>2, <1>3

\* When the first message is dealt with, the requests behind it are of use still.
LEMMA RequestsMoveUp ==
    ASSUME NEW h, NEW P \in Seq(Request), P # <<>>, RequestsAreOfUse(h, P)
    PROVE  RequestsAreOfUse(h, Tail(P))
<1> DEFINE T == Tail(P)
<1>1. /\ \A k \in Nat, f \in Fork : Back(T, k, f) <=> k > 0 /\ Back(P, k + 1, f)
      /\ \A k \in Nat, j \in Philosopher, f \in Fork :
            Asks(T, k, j, f) <=> k > 0 /\ Asks(P, k + 1, j, f)
    BY TailMessages
<1> HIDE DEF T
<1>2. SUFFICES ASSUME NEW k \in Nat, NEW j \in Philosopher, NEW f \in Fork,
                      Asks(T, k, j, f), Wants(h, j) # f, f \notin h[j]
               PROVE  \E l \in Nat : k < l /\ Back(T, l, f)
    BY DEF RequestsAreOfUse, T
<1>3. k + 1 \in Nat /\ k > 0 /\ Asks(P, k + 1, j, f)
    BY <1>1, <1>2
<1>4. PICK l \in Nat : k + 1 < l /\ Back(P, l, f)
    BY <1>2, <1>3 DEF RequestsAreOfUse
<1>5. l - 1 \in Nat /\ l - 1 > 0 /\ k < l - 1 /\ (l - 1) + 1 = l
    BY <1>4
<1>6. QED
    BY <1>1, <1>4, <1>5

\* The forks the first message does not return are where they were.
LEMMA FreeUnlessReturned ==
    ASSUME NEW h, NEW o, NEW P \in Seq(Request), NEW free,
           FreeIfNowhere(h, o, P, free), P # <<>>,
           NEW f \in Fork, P[1].what # "D" \/ P[1].fork # f
    PROVE  free[f] <=> /\ \A i \in Philosopher : f \notin h[i] /\ ~Sent(h, o, i, f)
                       /\ \A k \in Nat : ~Back(Tail(P), k, f)
<1>1. ~Back(P, 1, f) /\ ~Back(P, 0, f)
    BY TailMessages DEF Back
<1>2. \A k \in Nat : Back(Tail(P), k, f) <=> k > 0 /\ Back(P, k + 1, f)
    BY TailMessages
<1>3. (\A k \in Nat : ~Back(P, k, f)) <=> (\A k \in Nat : ~Back(Tail(P), k, f))
    <2>1. ASSUME NEW k \in Nat, Back(P, k, f) PROVE \E l \in Nat : Back(Tail(P), l, f)
        <3>1. k - 1 \in Nat /\ k - 1 > 0 /\ (k - 1) + 1 = k
            BY <1>1, <2>1
        <3>2. QED
            BY <1>2, <2>1, <3>1
    <2>2. QED
        BY <1>2, <2>1
<1>4. QED
    BY <1>3 DEF FreeIfNowhere

\* A fork that came back is free.
LEMMA ReturnCustody ==
    ASSUME NEW h, NEW o, NEW P \in Seq(Request), NEW free \in [Fork -> BOOLEAN],
           Custody(h, o, P), FreeIfNowhere(h, o, P, free),
           P # <<>>, P[1].what = "D"
    PROVE  /\ Custody(h, o, Tail(P))
           /\ FreeIfNowhere(h, o, Tail(P), [free EXCEPT ![P[1].fork] = TRUE])
           /\ ~free[P[1].fork]
<1> DEFINE T == Tail(P)
           g == P[1].fork
<1>1. /\ g \in Fork
      /\ P[1].from \in Philosopher
      /\ Back(P, 1, g)
      /\ \A k \in Nat, f \in Fork : Back(T, k, f) <=> k > 0 /\ Back(P, k + 1, f)
      /\ \A k \in Nat, j \in Philosopher, f \in Fork :
            Asks(T, k, j, f) <=> k > 0 /\ Asks(P, k + 1, j, f)
    BY TailMessages, RequestFields DEF Back
<1> HIDE DEF T, g
<1>2. OnePlace(h, o, T)
    BY <1>1 DEF OnePlace, Custody
<1>3. RequestsAreOfUse(h, T)
    BY RequestsMoveUp DEF Custody, T
<1>4. ~free[g]
    BY <1>1 DEF FreeIfNowhere
<1>5. FreeIfNowhere(h, o, T, [free EXCEPT ![g] = TRUE])
    <2> SUFFICES ASSUME NEW f \in Fork
                 PROVE  (f = g \/ free[f]) <=>
                            /\ \A j \in Philosopher : f \notin h[j] /\ ~Sent(h, o, j, f)
                            /\ \A k \in Nat : ~Back(T, k, f)
        BY DEF FreeIfNowhere
    <2>1. CASE f = g
        <3>1. \A k \in Nat : Back(P, k, g) => k = 1
            BY <1>1 DEF Custody, OnePlace
        <3>2. \A k \in Nat : ~Back(T, k, g)
            BY <1>1, <3>1
        <3>3. \A j \in Philosopher : g \notin h[j] /\ ~Sent(h, o, j, g)
            BY <1>1 DEF Custody, OnePlace
        <3>4. QED
            BY <2>1, <3>2, <3>3
    <2>2. CASE f # g
        BY FreeUnlessReturned, <2>2 DEF T, g
    <2>3. QED
        BY <2>1, <2>2
<1>6. QED
    BY <1>2, <1>3, <1>4, <1>5 DEF Custody, T, g

\* A request that is forgotten was not returned fork.
LEMMA ForgetCustody ==
    ASSUME NEW h, NEW o, NEW P \in Seq(Request), NEW free,
           Custody(h, o, P), FreeIfNowhere(h, o, P, free),
           P # <<>>, P[1].what # "D"
    PROVE  Custody(h, o, Tail(P)) /\ FreeIfNowhere(h, o, Tail(P), free)
<1>1. \A k \in Nat, f \in Fork : Back(Tail(P), k, f) <=> k > 0 /\ Back(P, k + 1, f)
    BY TailMessages
<1>2. OnePlace(h, o, Tail(P))
    BY <1>1 DEF OnePlace, Custody
<1>3. RequestsAreOfUse(h, Tail(P))
    BY RequestsMoveUp DEF Custody
<1>4. FreeIfNowhere(h, o, Tail(P), free)
    BY FreeUnlessReturned DEF FreeIfNowhere
<1>5. QED
    BY <1>2, <1>3, <1>4 DEF Custody

\* A fork the waiter grants is wanted, and the only one sent to its philosopher.
LEMMA GrantCustody ==
    ASSUME NEW h, NEW o \in SUBSET Philosopher, NEW P \in Seq(Request),
           NEW free \in [Fork -> BOOLEAN],
           Custody(h, o, P), FreeIfNowhere(h, o, P, free),
           P # <<>>, P[1].what # "D", free[P[1].fork]
    PROVE  /\ P[1].from \notin o
           /\ Custody(h, o \cup {P[1].from}, Tail(P))
           /\ FreeIfNowhere(h, o \cup {P[1].from}, Tail(P),
                            [free EXCEPT ![P[1].fork] = FALSE])
<1> DEFINE T == Tail(P)
           g == P[1].fork
           i == P[1].from
           o2 == o \cup {i}
           free2 == [free EXCEPT ![g] = FALSE]
<1>1. g \in Fork /\ i \in Philosopher /\ Asks(P, 1, i, g) /\ free[g]
    BY TailMessages, RequestFields DEF Asks
<1>2. /\ Custody(h, o, T)
      /\ FreeIfNowhere(h, o, T, free)
      /\ \A f \in Fork : free2[f] <=> free[f] /\ f # g
    BY ForgetCustody
<1> HIDE DEF T, g, i, free2
<1>3. Wants(h, i) = g
    BY <1>1 DEF Custody, RequestsAreOfUse, FreeIfNowhere
<1>4. i \notin o
    BY <1>1, <1>3 DEF FreeIfNowhere, Sent
<1>5. \A j \in Philosopher, f \in Fork :
          Sent(h, o2, j, f) <=> Sent(h, o, j, f) \/ (j = i /\ f = g)
    BY <1>1, <1>3 DEF Sent
<1>6. \A f \in Fork : f = g =>
          /\ \A j \in Philosopher : f \notin h[j] /\ ~Sent(h, o, j, f)
          /\ \A k \in Nat : ~Back(T, k, f)
    BY <1>1, <1>2 DEF FreeIfNowhere
<1> HIDE DEF o2
<1>7. OnePlace(h, o2, T)
    BY <1>2, <1>5, <1>6 DEF OnePlace, Custody
<1>8. FreeIfNowhere(h, o2, T, free2)
    <2> SUFFICES ASSUME NEW f \in Fork
                 PROVE  free2[f] <=>
                            /\ \A j \in Philosopher : f \notin h[j] /\ ~Sent(h, o2, j, f)
                            /\ \A k \in Nat : ~Back(T, k, f)
        BY DEF FreeIfNowhere
    <2>1. CASE f = g
        BY <1>1, <1>2, <1>5, <2>1
    <2>2. CASE f # g
        BY <1>2, <1>5, <2>2 DEF FreeIfNowhere
    <2>3. QED
        BY <2>1, <2>2
<1>9. QED
    BY <1>2, <1>4, <1>7, <1>8 DEF Custody, T, g, i, o2, free2

-----------------------------------------------------------------------------
(***************************************************************************)
(* The mailboxes: nobody waits while there is something to receive, a      *)
(* philosopher has one answer at most, the waiter gets nothing but         *)
(* requests.                                                               *)
(***************************************************************************)
Mailed(b) ==
    /\ b \in Mail!BoxState
    /\ \A p \in Everybody :
          b.waits[p] # NoType => b.inbox[p] = <<>> /\ b.got[p] = NoMessage
    /\ \A i \in Philosopher :
          /\ b.inbox[i] = <<>> \/ Tail(b.inbox[i]) = <<>>
          /\ b.got[i] # NoMessage => b.inbox[i] = <<>>
    /\ b.inbox[Waiter] \in Seq(Request)
    /\ b.got[Waiter] \in Request \cup {NoMessage}

\* Promised and Pending, of any mailboxes.
SentBy(b) == {i \in Philosopher : b.got[i] # NoMessage \/ b.inbox[i] # <<>>}
PendingIn(b) ==
    IF b.got[Waiter] = NoMessage
    THEN b.inbox[Waiter]
    ELSE <<b.got[Waiter]>> \o b.inbox[Waiter]

\* c is b but for the box of p.
OnlyBoxOf(p, b, c) ==
    \A q \in Everybody : q # p => /\ c.inbox[q] = b.inbox[q]
                                  /\ c.waits[q] = b.waits[q]
                                  /\ c.got[q] = b.got[q]

\* b with the box of p as given.
Box(b, p, inbox, waits, got) ==
    [b EXCEPT !.inbox[p] = inbox, !.waits[p] = waits, !.got[p] = got]

Types == {MESSAGE_TYPE_FIRST, NoType}

LEMMA BoxTypes ==
    ASSUME NEW b \in Mail!BoxState
    PROVE  /\ b.inbox \in [Everybody -> Seq(Letters)]
           /\ b.waits \in [Everybody -> Types]
           /\ b.got \in [Everybody -> Letters \cup {NoMessage}]
           /\ b = [inbox |-> b.inbox, waits |-> b.waits, got |-> b.got]
BY DEF Mail!BoxState, Everybody, Letters, Types

\* Another box of the right type makes mailboxes of the right type.
LEMMA NewBoxFacts ==
    ASSUME NEW b \in Mail!BoxState, NEW p \in Everybody,
           NEW inbox \in Seq(Letters), NEW waits \in Types,
           NEW got \in Letters \cup {NoMessage}
    PROVE  LET c == Box(b, p, inbox, waits, got)
           IN  /\ c \in Mail!BoxState
               /\ c.inbox[p] = inbox /\ c.waits[p] = waits /\ c.got[p] = got
               /\ OnlyBoxOf(p, b, c)
BY BoxTypes DEF Mail!BoxState, Everybody, Letters, Types, Box, OnlyBoxOf

\* A message for a process that waits ends its call, another stays in the inbox.
LEMMA PutFacts ==
    ASSUME NEW b \in Mail!BoxState, NEW p \in Everybody, NEW m \in Letters,
           m.type = MESSAGE_TYPE_FIRST
    PROVE  LET c == Mail!Put(b, p, m)
           IN  /\ c \in Mail!BoxState
               /\ OnlyBoxOf(p, b, c)
               /\ b.waits[p] # NoType =>
                     c.inbox[p] = b.inbox[p] /\ c.waits[p] = NoType /\ c.got[p] = m
               /\ b.waits[p] = NoType =>
                     /\ c.inbox[p] = Append(b.inbox[p], m)
                     /\ c.waits[p] = NoType
                     /\ c.got[p] = b.got[p]
<1>1. /\ b.inbox[p] \in Seq(Letters)
      /\ b.waits[p] \in Types
      /\ b.got[p] \in Letters \cup {NoMessage}
    BY BoxTypes
<1>2. CASE b.waits[p] # NoType
    <2>1. Mail!Put(b, p, m) = Box(b, p, b.inbox[p], NoType, m)
        BY <1>1, <1>2, BoxTypes, MessagesAssumption DEF Mail!Put, Types, Box
    <2>2. QED
        BY <1>1, <1>2, <2>1, NewBoxFacts DEF Types
<1>3. CASE b.waits[p] = NoType
    <2> DEFINE L == Append(b.inbox[p], m)
    <2>1. Mail!Put(b, p, m) = Box(b, p, L, NoType, b.got[p])
        BY <1>1, <1>3, BoxTypes, MessagesAssumption DEF Mail!Put, Types, Box
    <2>2. L \in Seq(Letters)
        BY <1>1
    <2> HIDE DEF L
    <2>3. LET c == Box(b, p, L, NoType, b.got[p])
          IN  /\ c \in Mail!BoxState
              /\ OnlyBoxOf(p, b, c)
              /\ c.inbox[p] = L /\ c.waits[p] = NoType /\ c.got[p] = b.got[p]
        BY <1>1, <2>2, NewBoxFacts DEF Types
    <2>4. QED
        BY <1>3, <2>1, <2>3 DEF L
<1>4. QED
    BY <1>2, <1>3

\* What depends on the boxes of the others is as before.
LEMMA OthersMailed ==
    ASSUME NEW b, NEW c, Mailed(b), c \in Mail!BoxState,
           NEW p \in Everybody, OnlyBoxOf(p, b, c),
           c.waits[p] # NoType => c.inbox[p] = <<>> /\ c.got[p] = NoMessage,
           p # Waiter => /\ c.inbox[p] = <<>> \/ Tail(c.inbox[p]) = <<>>
                         /\ c.got[p] # NoMessage => c.inbox[p] = <<>>,
           p = Waiter => /\ c.inbox[p] \in Seq(Request)
                         /\ c.got[p] \in Request \cup {NoMessage}
    PROVE  /\ Mailed(c)
           /\ p # Waiter => PendingIn(c) = PendingIn(b)
           /\ p = Waiter => SentBy(c) = SentBy(b)
<1>1. Waiter \in Everybody /\ Waiter \notin Philosopher /\ Philosopher \subseteq Everybody
    BY PhilosophersAssumption DEF Everybody
<1>2. Mailed(c)
    BY <1>1 DEF Mailed, OnlyBoxOf
<1>3. p # Waiter => PendingIn(c) = PendingIn(b)
    BY <1>1 DEF PendingIn, OnlyBoxOf
<1>4. p = Waiter => SentBy(c) = SentBy(b)
    BY <1>1 DEF SentBy, OnlyBoxOf
<1>5. QED
    BY <1>2, <1>3, <1>4

\* A message to the waiter is the last it has to deal with.
LEMMA SendFacts ==
    ASSUME NEW b, Mailed(b), NEW m \in Request
    PROVE  LET c == Mail!Put(b, Waiter, m)
           IN  /\ Mailed(c)
               /\ OnlyBoxOf(Waiter, b, c)
               /\ PendingIn(b) \in Seq(Request)
               /\ PendingIn(c) = Append(PendingIn(b), m)
               /\ SentBy(c) = SentBy(b)
<1> DEFINE c == Mail!Put(b, Waiter, m)
           I == b.inbox[Waiter]
<1>1. /\ Waiter \in Everybody
      /\ m \in Letters /\ m.type = MESSAGE_TYPE_FIRST /\ m # NoMessage
      /\ b \in Mail!BoxState
      /\ I \in Seq(Request)
      /\ b.got[Waiter] \in Request \cup {NoMessage}
      /\ NoMessage \notin Request
      /\ b.waits[Waiter] # NoType => I = <<>> /\ b.got[Waiter] = NoMessage
    BY RequestFields, MessagesAssumption DEF Mailed, Everybody, Letters
<1>2. /\ c \in Mail!BoxState
      /\ OnlyBoxOf(Waiter, b, c)
      /\ b.waits[Waiter] # NoType =>
            c.inbox[Waiter] = I /\ c.waits[Waiter] = NoType /\ c.got[Waiter] = m
      /\ b.waits[Waiter] = NoType =>
            /\ c.inbox[Waiter] = Append(I, m)
            /\ c.waits[Waiter] = NoType
            /\ c.got[Waiter] = b.got[Waiter]
    BY <1>1, PutFacts
<1> HIDE DEF c, I
<1>3. Append(I, m) \in Seq(Request)
    BY <1>1
<1>4. Mailed(c) /\ SentBy(c) = SentBy(b)
    BY <1>1, <1>2, <1>3, OthersMailed
<1>5. PendingIn(b) \in Seq(Request)
    BY <1>1 DEF PendingIn, I
<1>6. PendingIn(c) = Append(PendingIn(b), m)
    <2>1. CASE b.waits[Waiter] # NoType
        <3>1. PendingIn(b) = <<>> /\ PendingIn(c) = <<m>> \o <<>>
            BY <1>1, <1>2, <2>1 DEF PendingIn, I
        <3>2. QED
            BY <3>1
    <2>2. CASE b.waits[Waiter] = NoType /\ b.got[Waiter] = NoMessage
        BY <1>2, <2>2 DEF PendingIn, I
    <2>3. CASE b.waits[Waiter] = NoType /\ b.got[Waiter] # NoMessage
        <3> DEFINE g == b.got[Waiter]
        <3>1. PendingIn(b) = <<g>> \o I /\ PendingIn(c) = <<g>> \o Append(I, m)
            BY <1>2, <2>3 DEF PendingIn, I
        <3>2. g \in Request
            BY <1>1, <2>3
        <3> HIDE DEF g
        <3>3. <<g>> \o Append(I, m) = Append(<<g>> \o I, m)
            BY <1>1, <3>2
        <3>4. QED
            BY <3>1, <3>3
    <2>4. QED
        BY <2>1, <2>2, <2>3
<1>7. QED
    BY <1>2, <1>4, <1>5, <1>6 DEF c

\* The answer to a philosopher that has none yet.
LEMMA AnswerFacts ==
    ASSUME NEW b, Mailed(b), NEW i \in Philosopher, i \notin SentBy(b)
    PROVE  LET c == Mail!Put(b, i, Granted)
           IN  /\ Mailed(c)
               /\ OnlyBoxOf(i, b, c)
               /\ PendingIn(c) = PendingIn(b)
               /\ SentBy(c) = SentBy(b) \cup {i}
<1> DEFINE c == Mail!Put(b, i, Granted)
<1>1. /\ i \in Everybody /\ i # Waiter
      /\ Granted \in Letters /\ Granted.type = MESSAGE_TYPE_FIRST /\ Granted # NoMessage
      /\ b \in Mail!BoxState
      /\ b.got[i] = NoMessage /\ b.inbox[i] = <<>>
    BY PhilosophersAssumption, MessagesAssumption
    DEF Mailed, Everybody, Letters, Granted, SentBy
<1>2. /\ c \in Mail!BoxState
      /\ OnlyBoxOf(i, b, c)
      /\ b.waits[i] # NoType =>
            c.inbox[i] = <<>> /\ c.waits[i] = NoType /\ c.got[i] = Granted
      /\ b.waits[i] = NoType =>
            /\ c.inbox[i] = Append(<<>>, Granted)
            /\ c.waits[i] = NoType
            /\ c.got[i] = NoMessage
    BY <1>1, PutFacts
<1> HIDE DEF c
<1>3. Append(<<>>, Granted) = <<Granted>> /\ <<Granted>> # <<>> /\ Tail(<<Granted>>) = <<>>
    OBVIOUS
<1>4. Mailed(c) /\ PendingIn(c) = PendingIn(b)
    BY <1>1, <1>2, <1>3, OthersMailed
<1>5. SentBy(c) = SentBy(b) \cup {i}
    BY <1>1, <1>2, <1>3 DEF SentBy, OnlyBoxOf, Everybody
<1>6. QED
    BY <1>2, <1>4, <1>5 DEF c

\* Nothing but the box of p changes, and what the forks depend on not at all.
Unmoved(p, b, c) ==
    /\ Mailed(c)
    /\ OnlyBoxOf(p, b, c)
    /\ PendingIn(c) = PendingIn(b)
    /\ SentBy(c) = SentBy(b)

\* A process that begins to receive: its message moves, or there is none.
LEMMA TakeFirstFacts ==
    ASSUME NEW b, Mailed(b), NEW p \in Everybody,
           b.waits[p] = NoType, b.got[p] = NoMessage
    PROVE  Unmoved(p, b, Mail!TakeFirst(b, p))
<1> DEFINE c == Mail!TakeFirst(b, p)
           I == b.inbox[p]
<1>1. /\ b \in Mail!BoxState
      /\ I \in Seq(Letters)
      /\ b.waits[p] \in Types
      /\ NoMessage \notin Letters
      /\ MESSAGE_TYPE_FIRST # NoType
    BY BoxTypes, MessagesAssumption DEF Mailed, Letters
<1>2. CASE I = <<>>
    <2>1. c = Box(b, p, I, MESSAGE_TYPE_FIRST, NoMessage)
        BY <1>1, <1>2, BoxTypes DEF Mail!TakeFirst, Box
    <2> HIDE DEF c, I
    <2>2. /\ c \in Mail!BoxState
          /\ c.inbox[p] = I /\ c.got[p] = NoMessage
          /\ OnlyBoxOf(p, b, c)
        BY <1>1, <2>1, NewBoxFacts DEF Types
    <2> USE DEF I
    <2>3. Mailed(c)
        BY <1>1, <1>2, <2>2, OthersMailed DEF Mailed
    <2>4. PendingIn(c) = PendingIn(b)
        BY <1>2, <2>2 DEF PendingIn, OnlyBoxOf, Everybody
    <2>5. SentBy(c) = SentBy(b)
        BY <1>2, <2>2 DEF SentBy, OnlyBoxOf, Everybody
    <2>6. QED
        BY <2>2, <2>3, <2>4, <2>5 DEF Unmoved, c
<1>3. CASE I # <<>>
    <2> DEFINE m == Head(I)
               T == Tail(I)
    <2>1. c = Box(b, p, T, NoType, m)
        BY <1>1, <1>3, BoxTypes DEF Mail!TakeFirst, Box
    <2>2. m \in Letters /\ T \in Seq(Letters) /\ I = <<m>> \o T
        BY <1>1, <1>3
    <2>3. p = Waiter => m \in Request /\ T \in Seq(Request)
        BY <1>3 DEF Mailed
    <2>4. p # Waiter => T = <<>>
        BY <1>3 DEF Mailed, Everybody
    <2> HIDE DEF m, T
    <2>5. /\ c \in Mail!BoxState
          /\ c.inbox[p] = T /\ c.waits[p] = NoType /\ c.got[p] = m
          /\ OnlyBoxOf(p, b, c)
        BY <1>1, <2>1, <2>2, NewBoxFacts DEF Types
    <2> HIDE DEF c
    <2>6. /\ Mailed(c)
          /\ p # Waiter => PendingIn(c) = PendingIn(b)
          /\ p = Waiter => SentBy(c) = SentBy(b)
        BY <2>3, <2>4, <2>5, OthersMailed
    <2>7. m # NoMessage
        BY <1>1, <2>2
    <2>8. p = Waiter => PendingIn(c) = PendingIn(b)
        BY <2>2, <2>5, <2>7 DEF PendingIn
    <2>9. p # Waiter => SentBy(c) = SentBy(b)
        BY <1>3, <2>5, <2>7 DEF SentBy, OnlyBoxOf, Everybody
    <2>10. QED
        BY <2>5, <2>6, <2>8, <2>9 DEF Unmoved, c
<1>4. QED
    BY <1>2, <1>3

\* Nobody receives anything because a time-out is over.
LEMMA TimeOutFacts ==
    ASSUME NEW b, Mailed(b), NEW p \in Everybody
    PROVE  Unmoved(p, b, Mail!StopWaiting(b, {p}))
<1> DEFINE c == Mail!StopWaiting(b, {p})
<1>1. b \in Mail!BoxState /\ b.inbox[p] \in Seq(Letters) /\ b.got[p] \in Letters \cup {NoMessage}
    BY BoxTypes DEF Mailed
<1>2. /\ c \in Mail!BoxState
      /\ c.inbox = b.inbox /\ c.got = b.got
      /\ \A q \in Everybody : c.waits[q] = IF q = p THEN NoType ELSE b.waits[q]
    BY <1>1, BoxTypes DEF Mail!StopWaiting, Mail!BoxState, Everybody, Types
<1> HIDE DEF c
<1>3. OnlyBoxOf(p, b, c) /\ c.waits[p] = NoType
    BY <1>2 DEF OnlyBoxOf
<1>4. Mailed(c)
    BY <1>2 DEF Mailed
<1>5. PendingIn(c) = PendingIn(b) /\ SentBy(c) = SentBy(b)
    BY <1>2 DEF PendingIn, SentBy
<1>6. QED
    BY <1>3, <1>4, <1>5 DEF Unmoved, c

\* The waiter has dealt with a message.
LEMMA ServedFacts ==
    ASSUME NEW b, Mailed(b), b.got[Waiter] # NoMessage
    PROVE  LET c == Mail!Delete(b, Waiter)
           IN  /\ Mailed(c)
               /\ OnlyBoxOf(Waiter, b, c)
               /\ PendingIn(b) \in Seq(Request)
               /\ PendingIn(b) # <<>>
               /\ PendingIn(b)[1] = b.got[Waiter]
               /\ PendingIn(c) = Tail(PendingIn(b))
               /\ SentBy(c) = SentBy(b)
<1> DEFINE c == Mail!Delete(b, Waiter)
           I == b.inbox[Waiter]
           g == b.got[Waiter]
<1>1. /\ Waiter \in Everybody
      /\ b \in Mail!BoxState
      /\ I \in Seq(Request) /\ I \in Seq(Letters)
      /\ g \in Request
      /\ b.waits[Waiter] = NoType
    BY BoxTypes DEF Mailed, Everybody
<1>2. c = Box(b, Waiter, I, NoType, NoMessage)
    BY <1>1, BoxTypes DEF Mail!Delete, Box
<1> HIDE DEF I
<1>3. /\ c \in Mail!BoxState
      /\ c.inbox[Waiter] = I /\ c.waits[Waiter] = NoType /\ c.got[Waiter] = NoMessage
      /\ OnlyBoxOf(Waiter, b, c)
    BY <1>1, <1>2, NewBoxFacts DEF Types
<1> HIDE DEF c
<1>4. Mailed(c) /\ SentBy(c) = SentBy(b)
    BY <1>1, <1>3, OthersMailed
<1>5. PendingIn(b) = <<g>> \o I /\ PendingIn(c) = I
    BY <1>3 DEF PendingIn, I
<1> HIDE DEF g
<1>6. <<g>> \o I \in Seq(Request) /\ <<g>> \o I # <<>> /\ (<<g>> \o I)[1] = g
    BY <1>1
<1>7. Tail(<<g>> \o I) = I
    BY <1>1
<1>8. QED
    BY <1>3, <1>4, <1>5, <1>6, <1>7 DEF c, g

\* A philosopher has its answer.
LEMMA GotFacts ==
    ASSUME NEW b, Mailed(b), NEW i \in Philosopher, b.got[i] # NoMessage
    PROVE  LET c == Mail!Delete(b, i)
           IN  /\ Mailed(c)
               /\ OnlyBoxOf(i, b, c)
               /\ PendingIn(c) = PendingIn(b)
               /\ i \in SentBy(b)
               /\ SentBy(c) = SentBy(b) \ {i}
<1> DEFINE c == Mail!Delete(b, i)
           I == b.inbox[i]
<1>1. /\ i \in Everybody /\ i # Waiter
      /\ b \in Mail!BoxState
      /\ I \in Seq(Letters)
      /\ b.waits[i] = NoType
    BY PhilosophersAssumption, BoxTypes DEF Mailed, Everybody
<1>2. I = <<>>
    BY DEF Mailed
<1>3. c = Box(b, i, I, NoType, NoMessage)
    BY <1>1, BoxTypes DEF Mail!Delete, Box
<1> HIDE DEF I, c
<1>4. /\ c \in Mail!BoxState
      /\ c.inbox[i] = I /\ c.waits[i] = NoType /\ c.got[i] = NoMessage
      /\ OnlyBoxOf(i, b, c)
    BY <1>1, <1>3, NewBoxFacts DEF Types
<1>5. Mailed(c) /\ PendingIn(c) = PendingIn(b)
    BY <1>1, <1>2, <1>4, OthersMailed
<1>6. i \in SentBy(b) /\ SentBy(c) = SentBy(b) \ {i}
    BY <1>2, <1>4 DEF SentBy, OnlyBoxOf, Everybody
<1>7. QED
    BY <1>4, <1>5, <1>6 DEF c

\* The waiter leaves nothing to deal with.
LEMMA LeaveFacts ==
    ASSUME NEW b, Mailed(b)
    PROVE  LET c == Mail!Clear(b, Waiter)
           IN  /\ Mailed(c)
               /\ OnlyBoxOf(Waiter, b, c)
               /\ PendingIn(c) = <<>>
               /\ SentBy(c) = SentBy(b)
               /\ c.inbox[Waiter] = <<>> /\ c.waits[Waiter] = NoType
               /\ c.got[Waiter] = NoMessage
<1> DEFINE c == Mail!Clear(b, Waiter)
           I == <<>>
<1>1. Waiter \in Everybody /\ b \in Mail!BoxState /\ I \in Seq(Letters)
    BY DEF Mailed, Everybody
<1>2. c = Box(b, Waiter, I, NoType, NoMessage)
    BY DEF Mail!Clear, Box
<1> HIDE DEF I, c
<1>3. /\ c \in Mail!BoxState
      /\ c.inbox[Waiter] = I /\ c.waits[Waiter] = NoType /\ c.got[Waiter] = NoMessage
      /\ OnlyBoxOf(Waiter, b, c)
    BY <1>1, <1>2, NewBoxFacts DEF Types
<1>4. I \in Seq(Request) /\ I = <<>>
    BY DEF I
<1>5. Mailed(c) /\ SentBy(c) = SentBy(b)
    BY <1>1, <1>3, <1>4, OthersMailed
<1>6. QED
    BY <1>3, <1>4, <1>5 DEF PendingIn, c
-----------------------------------------------------------------------------
\* What a philosopher can have while it does what it does.
HasByStep(s, h) ==
    \A i \in Philosopher :
        /\ s[i] = "absent" => h[i] = {}
        /\ s[i] \in {"asking", "listening", "waiting"} => h[i] \in {{}, {Left(i)}}
        /\ s[i] = "eating" => h[i] = {Left(i), Right(i)}
        /\ s[i] = "dropping" => h[i] = {Right(i)}

\* The variables of the waiter.
WaiterType(w) ==
    /\ w \in [step : WaiterSteps, hired : 0 .. N,
              freeForks : [Fork -> BOOLEAN], forksInUse : Int]
    /\ w.forksInUse = Cardinality({f \in Fork : ~w.freeForks[f]})

\* The waiter that is gone has no messages.
Deaf(b) ==
    b.inbox[Waiter] = <<>> /\ b.waits[Waiter] = NoType /\ b.got[Waiter] = NoMessage

\* The inductive invariant.
IInv ==
    /\ Mailed(boxes)
    /\ WaiterType(waiter)
    /\ step \in [Philosopher -> Steps]
    /\ has \in [Philosopher -> SUBSET Fork]
    /\ waiter.step = "gone" => Deaf(boxes)
    /\ \A i \in Philosopher : i >= waiter.hired => step[i] = "absent"
    /\ HasByStep(step, has)
    /\ Custody(has, SentBy(boxes), PendingIn(boxes))
    /\ waiter.step # "gone" =>
          FreeIfNowhere(has, SentBy(boxes), PendingIn(boxes), waiter.freeForks)

\* The waiter and the philosophers are different processes, each with a box.
LEMMA Boxes ==
    /\ Waiter \in Everybody /\ Waiter \notin Philosopher
    /\ \A i \in Philosopher : i \in Everybody /\ i # Waiter
BY PhilosophersAssumption DEF Everybody

\* The box of a philosopher is not that of the waiter.
LEMMA StaysDeaf ==
    ASSUME NEW i \in Philosopher, NEW b, NEW c, OnlyBoxOf(i, b, c), Deaf(b)
    PROVE  Deaf(c)
BY Boxes DEF OnlyBoxOf, Deaf

LEMMA ForkIsFinite == IsFiniteSet(Fork)
BY PhilosophersAssumption, FS_Interval DEF Fork

LEMMA InitInv == PhInit => IInv
<1> SUFFICES ASSUME PhInit PROVE IInv
    OBVIOUS
<1> USE DEF PhInit
<1>1. /\ boxes.inbox = [p \in Everybody |-> <<>>]
      /\ boxes.waits = [p \in Everybody |-> NoType]
      /\ boxes.got = [p \in Everybody |-> NoMessage]
    BY DEF Mail!BoxInit, Everybody
<1>2. boxes \in Mail!BoxState
    BY DEF Mail!BoxInit, Mail!BoxState
<1>3. Mailed(boxes)
    BY <1>1, <1>2, Boxes DEF Mailed
<1>4. PendingIn(boxes) = <<>> /\ SentBy(boxes) = {}
    BY <1>1, Boxes DEF PendingIn, SentBy
<1>5. WaiterType(waiter)
    <2>1. {f \in Fork : ~waiter.freeForks[f]} = {}
        OBVIOUS
    <2>2. 0 \in 0 .. N
        BY PhilosophersAssumption
    <2>3. QED
        BY <2>1, <2>2, FS_EmptySet DEF WaiterType, WaiterSteps
<1>6. /\ \A k \in Nat, f \in Fork : ~Back(<<>>, k, f)
      /\ \A k \in Nat, j \in Philosopher, f \in Fork : ~Asks(<<>>, k, j, f)
      /\ \A j \in Philosopher, f \in Fork : ~Sent(has, {}, j, f)
    BY DEF Back, Asks, Sent
<1>7. Custody(has, {}, <<>>)
    BY <1>6 DEF Custody, OnePlace, RequestsAreOfUse
<1>8. FreeIfNowhere(has, {}, <<>>, waiter.freeForks)
    BY <1>6 DEF FreeIfNowhere
<1>9. HasByStep(step, has)
    BY DEF HasByStep
<1>10. QED
    BY <1>3, <1>4, <1>5, <1>7, <1>8, <1>9 DEF IInv, Steps

\* A step that moves no fork and no message the forks depend on.
LEMMA QuietInv ==
    ASSUME IInv, NEW p \in Everybody, Unmoved(p, boxes, boxes'),
           waiter'.step = "gone" => Deaf(boxes'),
           waiter'.step # "gone" => waiter.step # "gone",
           WaiterType(waiter)', waiter'.freeForks = waiter.freeForks,
           has' = has, step' \in [Philosopher -> Steps], HasByStep(step', has),
           \A i \in Philosopher : i >= waiter'.hired => step'[i] = "absent"
    PROVE  IInv'
BY DEF IInv, Unmoved, WaiterType

LEMMA UnchangedMail == ASSUME Mailed(boxes), boxes' = boxes, NEW p PROVE Unmoved(p, boxes, boxes')
BY DEF Unmoved, OnlyBoxOf

LEMMA HireInv == ASSUME IInv, NEW i \in Philosopher, Hire(i) PROVE IInv'
<1> USE DEF Hire
<1>1. Unmoved(Waiter, boxes, boxes')
    BY UnchangedMail DEF IInv
<1>2. /\ i = waiter.hired /\ i \in Int /\ i + 1 \in 0 .. N
      /\ \A j \in Philosopher : j \in Int
    BY PhilosophersAssumption DEF Philosopher
<1>3. /\ waiter'.hired = i + 1 /\ waiter'.step \in {"hiring", "serving"}
      /\ waiter'.freeForks = waiter.freeForks /\ waiter'.forksInUse = waiter.forksInUse
      /\ waiter' \in [step : WaiterSteps, hired : 0 .. N,
                      freeForks : [Fork -> BOOLEAN], forksInUse : Int]
    BY <1>2 DEF IInv, WaiterType, WaiterSteps
<1>4. WaiterType(waiter)'
    BY <1>3 DEF IInv, WaiterType
<1>5. step[i] = "absent"
    BY <1>2 DEF IInv
<1>6. step' \in [Philosopher -> Steps] /\ HasByStep(step', has)
    BY <1>5 DEF IInv, HasByStep, Steps
<1>7. \A j \in Philosopher : j >= waiter'.hired => j # i /\ j >= waiter.hired
    BY <1>2, <1>3
<1>8. \A j \in Philosopher : j # i => step'[j] = step[j]
    BY DEF IInv
<1>9. \A j \in Philosopher : j >= waiter'.hired => step'[j] = "absent"
    BY <1>7, <1>8 DEF IInv
<1>10. waiter'.step # "gone" /\ waiter.step # "gone"
    BY <1>3
<1>11. QED
    BY <1>1, <1>3, <1>4, <1>6, <1>9, <1>10, QuietInv, Boxes

LEMMA WaiterReceivesInv == ASSUME IInv, WaiterReceives PROVE IInv'
<1> USE DEF WaiterReceives
<1>1. Unmoved(Waiter, boxes, boxes')
    BY TakeFirstFacts, Boxes DEF IInv, Mail!ReceiveFirst, Mail!Idles
<1>2. QED
    BY <1>1, QuietInv, Boxes DEF IInv, WaiterType

LEMMA WaiterTimesOutInv == ASSUME IInv, WaiterTimesOut PROVE IInv'
<1> USE DEF WaiterTimesOut
<1>1. Unmoved(Waiter, boxes, boxes')
    BY TimeOutFacts, Boxes DEF IInv, Mail!TimeOut
<1>2. waiter.step # "gone"
    BY DEF IInv, Deaf
<1>3. QED
    BY <1>1, <1>2, QuietInv, Boxes DEF IInv, WaiterType

LEMMA ListenInv == ASSUME IInv, NEW i \in Philosopher, Listen(i) PROVE IInv'
<1> USE DEF Listen
<1>1. Unmoved(i, boxes, boxes')
    BY TakeFirstFacts, Boxes DEF IInv, Mail!ReceiveFirst, Mail!Idles
<1>2. /\ step' \in [Philosopher -> Steps]
      /\ HasByStep(step', has)
      /\ \A j \in Philosopher : j >= waiter.hired => step'[j] = "absent"
    BY DEF IInv, HasByStep, Steps
<1>3. waiter.step = "gone" => Deaf(boxes')
    BY <1>1, StaysDeaf DEF IInv, Unmoved
<1>4. WaiterType(waiter)' /\ waiter' = waiter /\ has' = has
    BY DEF IInv, WaiterType
<1>5. QED
    BY <1>1, <1>2, <1>3, <1>4, QuietInv, Boxes

LEMMA GiveUpInv == ASSUME IInv, NEW i \in Philosopher, GiveUp(i) PROVE IInv'
<1> USE DEF GiveUp
<1>1. Unmoved(i, boxes, boxes')
    BY TimeOutFacts, Boxes DEF IInv, Mail!TimeOut
<1>2. /\ step' \in [Philosopher -> Steps]
      /\ HasByStep(step', has)
      /\ \A j \in Philosopher : j >= waiter.hired => step'[j] = "absent"
    BY DEF IInv, HasByStep, Steps
<1>3. waiter.step = "gone" => Deaf(boxes')
    BY <1>1, StaysDeaf DEF IInv, Unmoved
<1>4. WaiterType(waiter)' /\ waiter' = waiter /\ has' = has
    BY DEF IInv, WaiterType
<1>5. QED
    BY <1>1, <1>2, <1>3, <1>4, QuietInv, Boxes

\* A philosopher is where its step is, and the forks are accounted for: what is
\* left to show of a step of a philosopher that sends or has received something.
LEMMA PhilosopherInv ==
    ASSUME IInv, NEW i \in Philosopher, step[i] # "absent",
           Mailed(boxes'), waiter' = waiter,
           waiter.step = "gone" => Deaf(boxes'),
           NEW t \in Steps, step' = [step EXCEPT ![i] = t],
           NEW F \in SUBSET Fork, has' = [has EXCEPT ![i] = F],
           HasByStep(step', has'),
           Custody(has', SentBy(boxes'), PendingIn(boxes')),
           waiter.step # "gone" =>
              FreeIfNowhere(has', SentBy(boxes'), PendingIn(boxes'), waiter.freeForks)
    PROVE  IInv'
<1>1. step' \in [Philosopher -> Steps] /\ has' \in [Philosopher -> SUBSET Fork]
    BY DEF IInv
<1>2. \A j \in Philosopher : j >= waiter.hired => step'[j] = "absent"
    BY DEF IInv
<1>3. WaiterType(waiter)'
    BY DEF IInv, WaiterType
<1>4. QED
    BY <1>1, <1>2, <1>3 DEF IInv

LEMMA AskInv == ASSUME IInv, NEW i \in Philosopher, Ask(i) PROVE IInv'
<1> DEFINE m == Asked(i)
<1> USE DEF Ask
<1>1. /\ m \in Request /\ m.what # "D" /\ m.from = i
      /\ m.fork = Wants(has, i) /\ Wants(has, i) \in Fork
    BY RequestFields, TwoForks DEF Asked, Wanted, Wants
<1>2. HasByStep(step', has)
    BY DEF IInv, HasByStep, Steps
<1>3. has' = [has EXCEPT ![i] = has[i]] /\ has[i] \in SUBSET Fork /\ has' = has
    BY DEF IInv
<1>4. "listening" \in Steps
    BY DEF Steps
<1>5. CASE waiter.step = "gone"
    <2>1. boxes' = boxes
        BY <1>5 DEF SendToWaiter
    <2>2. QED
        BY <1>2, <1>3, <1>4, <1>5, <2>1, PhilosopherInv DEF IInv
<1>6. CASE waiter.step # "gone"
    <2>1. boxes' = Mail!Put(boxes, Waiter, m)
        BY <1>6 DEF SendToWaiter
    <2> HIDE DEF m
    <2>2. /\ Mailed(boxes')
          /\ PendingIn(boxes) \in Seq(Request)
          /\ PendingIn(boxes') = Append(PendingIn(boxes), m)
          /\ SentBy(boxes') = SentBy(boxes)
        BY <1>1, <2>1, SendFacts DEF IInv
    <2>3. /\ Custody(has, SentBy(boxes'), PendingIn(boxes'))
          /\ FreeIfNowhere(has, SentBy(boxes'), PendingIn(boxes'), waiter.freeForks)
        BY <1>1, <1>6, <2>2, AskCustody DEF IInv
    <2>4. QED
        BY <1>2, <1>3, <1>4, <1>6, <2>2, <2>3, PhilosopherInv
<1>7. QED
    BY <1>5, <1>6

LEMMA GetInv == ASSUME IInv, NEW i \in Philosopher, Get(i) PROVE IInv'
<1> USE DEF Get
<1>1. /\ Mailed(boxes')
      /\ OnlyBoxOf(i, boxes, boxes')
      /\ PendingIn(boxes') = PendingIn(boxes)
      /\ i \in SentBy(boxes)
      /\ SentBy(boxes') = SentBy(boxes) \ {i}
    BY GotFacts DEF IInv, Mail!DeleteMessage
<1>2. /\ has \in [Philosopher -> SUBSET Fork]
      /\ Wanted(i) = Wants(has, i) /\ Wants(has, i) \in Fork
      /\ has' = [has EXCEPT ![i] = @ \cup {Wants(has, i)}]
    BY TwoForks DEF IInv, Wanted, Wants
<1>3. /\ Custody(has', SentBy(boxes'), PendingIn(boxes'))
      /\ waiter.step # "gone" =>
            FreeIfNowhere(has', SentBy(boxes'), PendingIn(boxes'), waiter.freeForks)
    <2> DEFINE h  == has
               h2 == [h EXCEPT ![i] = @ \cup {Wants(h, i)}]
               o  == SentBy(boxes)
               P  == PendingIn(boxes)
               free == waiter.freeForks
    <2>1. Custody(h, o, P) /\ i \in o /\ h \in [Philosopher -> SUBSET Fork]
        BY <1>1, <1>2 DEF IInv
    <2>2. Wants(h, i) \in Fork
        BY <1>2
    <2>3. waiter.step # "gone" => FreeIfNowhere(h, o, P, free)
        BY DEF IInv
    <2>4. has' = h2 /\ SentBy(boxes') = o \ {i} /\ PendingIn(boxes') = P
        BY <1>1, <1>2
    <2> HIDE DEF h, o, P, free
    <2>5. /\ Custody(h2, o \ {i}, P)
          /\ FreeIfNowhere(h, o, P, free) => FreeIfNowhere(h2, o \ {i}, P, free)
        BY <2>1, <2>2, GetCustody
    <2> HIDE DEF h2
    <2>6. QED
        BY <2>3, <2>4, <2>5 DEF free
<1>4. has[i] \in {{}, {Left(i)}}
    BY DEF IInv, HasByStep
<1>5. HasByStep(step', has')
    BY <1>2, <1>4 DEF IInv, HasByStep, Wants
<1>6. waiter.step = "gone" => Deaf(boxes')
    BY <1>1, StaysDeaf DEF IInv
<1> DEFINE t == IF has[i] = {} THEN "asking" ELSE "eating"
           F == has[i] \cup {Wants(has, i)}
<1>7. t \in Steps /\ F \in SUBSET Fork
    BY <1>2 DEF Steps
<1>8. has' = [has EXCEPT ![i] = F] /\ step' = [step EXCEPT ![i] = t]
    BY <1>2
<1> HIDE DEF t, F
<1>9. QED
    BY <1>1, <1>3, <1>5, <1>6, <1>7, <1>8, PhilosopherInv

\* A philosopher that has its right fork gives back a fork.
LEMMA DropInv ==
    ASSUME IInv, NEW i \in Philosopher, step[i] # "absent", Right(i) \in has[i],
           NEW f \in has[i], SendToWaiter(ToWaiter(i, "D", f)),
           has' = [has EXCEPT ![i] = @ \ {f}],
           NEW t \in Steps, step' = [step EXCEPT ![i] = t],
           HasByStep(step', has'), waiter' = waiter
    PROVE  IInv'
<1> DEFINE m == ToWaiter(i, "D", f)
<1>1. has \in [Philosopher -> SUBSET Fork] /\ f \in Fork
    BY DEF IInv
<1>2. m \in Request /\ m.what = "D" /\ m.fork = f
    BY <1>1, RequestFields
<1>3. Wants(has, i) \in has[i]
    BY DEF Wants
<1>4. has[i] \ {f} \in SUBSET Fork
    BY <1>1
<1> DEFINE F == has[i] \ {f}
<1>5. has' = [has EXCEPT ![i] = F]
    OBVIOUS
<1> HIDE DEF m
<1>6. CASE waiter.step = "gone"
    <2>1. boxes' = boxes /\ PendingIn(boxes) = <<>>
        BY <1>6 DEF SendToWaiter, IInv, Deaf, PendingIn
    <2>2. Custody(has', SentBy(boxes'), PendingIn(boxes'))
        BY <1>1, <1>3, <2>1, NobodyCustody DEF IInv
    <2> HIDE DEF F
    <2>3. QED
        BY <1>4, <1>5, <1>6, <2>1, <2>2, PhilosopherInv DEF IInv, F
<1>7. CASE waiter.step # "gone"
    <2>1. boxes' = Mail!Put(boxes, Waiter, m)
        BY <1>7 DEF SendToWaiter, m
    <2>2. /\ Mailed(boxes')
          /\ PendingIn(boxes) \in Seq(Request)
          /\ PendingIn(boxes') = Append(PendingIn(boxes), m)
          /\ SentBy(boxes') = SentBy(boxes)
        BY <1>2, <2>1, SendFacts DEF IInv
    <2>3. /\ Custody(has', SentBy(boxes'), PendingIn(boxes'))
          /\ FreeIfNowhere(has', SentBy(boxes'), PendingIn(boxes'), waiter.freeForks)
        <3> DEFINE h  == has
                   h2 == [h EXCEPT ![i] = @ \ {m.fork}]
                   o  == SentBy(boxes)
                   P  == PendingIn(boxes)
                   free == waiter.freeForks
        <3>1. /\ Custody(h, o, P) /\ P \in Seq(Request)
              /\ h \in [Philosopher -> SUBSET Fork]
              /\ Wants(h, i) \in h[i] /\ m.fork \in h[i]
            BY <1>1, <1>2, <1>3, <2>2 DEF IInv
        <3>2. FreeIfNowhere(h, o, P, free)
            BY <1>7 DEF IInv
        <3>3. /\ has' = h2 /\ SentBy(boxes') = o
              /\ PendingIn(boxes') = Append(P, m)
            BY <1>2, <2>2
        <3> HIDE DEF h, o, P, free
        <3>4. /\ Custody(h2, o, Append(P, m))
              /\ FreeIfNowhere(h, o, P, free) => FreeIfNowhere(h2, o, Append(P, m), free)
            BY <1>2, <3>1, DropCustody
        <3> HIDE DEF h2
        <3>5. QED
            BY <3>2, <3>3, <3>4 DEF free
    <2> HIDE DEF F
    <2>4. QED
        BY <1>4, <1>5, <1>7, <2>2, <2>3, PhilosopherInv DEF F
<1>8. QED
    BY <1>6, <1>7

LEMMA DropLeftInv == ASSUME IInv, NEW i \in Philosopher, DropLeft(i) PROVE IInv'
<1> USE DEF DropLeft
<1>1. has[i] = {Left(i), Right(i)} /\ Left(i) # Right(i)
    BY TwoForks DEF IInv, HasByStep
<1>2. has' = [has EXCEPT ![i] = @ \ {Left(i)}]
    BY <1>1
<1>3. HasByStep(step', has')
    BY DEF IInv, HasByStep
<1>4. QED
    BY <1>1, <1>2, <1>3, DropInv DEF Steps

LEMMA DropRightInv == ASSUME IInv, NEW i \in Philosopher, DropRight(i) PROVE IInv'
<1> USE DEF DropRight
<1>1. has[i] = {Right(i)}
    BY DEF IInv, HasByStep
<1>2. has' = [has EXCEPT ![i] = @ \ {Right(i)}]
    BY <1>1
<1>3. HasByStep(step', has')
    BY DEF IInv, HasByStep
<1>4. QED
    BY <1>1, <1>2, <1>3, DropInv DEF Steps

\* The waiter counts one fork less in use, or one more.
LEMMA CountFacts ==
    ASSUME NEW w, WaiterType(w), NEW f \in Fork
    PROVE  /\ ~w.freeForks[f] =>
                 WaiterType([w EXCEPT !.forksInUse = @ - 1, !.freeForks[f] = TRUE])
           /\ w.freeForks[f] =>
                 WaiterType([w EXCEPT !.forksInUse = @ + 1, !.freeForks[f] = FALSE])
<1> DEFINE U == {g \in Fork : ~w.freeForks[g]}
<1>1. /\ w.freeForks \in [Fork -> BOOLEAN] /\ w.forksInUse = Cardinality(U)
      /\ w.forksInUse \in Int
    BY DEF WaiterType
<1>2. IsFiniteSet(U)
    BY ForkIsFinite, FS_Subset
<1>3. Cardinality(U) \in Nat
    BY <1>2, FS_CardinalityType
<1>4. ASSUME ~w.freeForks[f]
      PROVE  WaiterType([w EXCEPT !.forksInUse = @ - 1, !.freeForks[f] = TRUE])
    <2> DEFINE v == [w EXCEPT !.forksInUse = @ - 1, !.freeForks[f] = TRUE]
    <2>1. Cardinality(U \ {f}) = Cardinality(U) - 1
        BY <1>2, <1>4, FS_RemoveElement
    <2>2. /\ v \in [step : WaiterSteps, hired : 0 .. N,
                    freeForks : [Fork -> BOOLEAN], forksInUse : Int]
          /\ v.forksInUse = w.forksInUse - 1
          /\ v.freeForks = [w.freeForks EXCEPT ![f] = TRUE]
        <3> HIDE DEF U
        <3>1. /\ w \in [step : WaiterSteps, hired : 0 .. N,
                        freeForks : [Fork -> BOOLEAN], forksInUse : Int]
              /\ w.forksInUse - 1 \in Int
            BY <1>1 DEF WaiterType
        <3>2. [w.freeForks EXCEPT ![f] = TRUE] \in [Fork -> BOOLEAN]
            BY <1>1
        <3>3. QED
            BY <3>1, <3>2
    <2>3. {g \in Fork : ~v.freeForks[g]} = U \ {f}
        BY <1>1, <2>2
    <2> HIDE DEF v, U
    <2>4. WaiterType(v)
        BY <1>1, <2>1, <2>2, <2>3 DEF WaiterType
    <2>5. QED
        BY <2>4 DEF v
<1>5. ASSUME w.freeForks[f]
      PROVE  WaiterType([w EXCEPT !.forksInUse = @ + 1, !.freeForks[f] = FALSE])
    <2> DEFINE v == [w EXCEPT !.forksInUse = @ + 1, !.freeForks[f] = FALSE]
    <2>1. Cardinality(U \cup {f}) = Cardinality(U) + 1
        BY <1>2, <1>5, FS_AddElement
    <2>2. /\ v \in [step : WaiterSteps, hired : 0 .. N,
                    freeForks : [Fork -> BOOLEAN], forksInUse : Int]
          /\ v.forksInUse = w.forksInUse + 1
          /\ v.freeForks = [w.freeForks EXCEPT ![f] = FALSE]
        <3> HIDE DEF U
        <3>1. /\ w \in [step : WaiterSteps, hired : 0 .. N,
                        freeForks : [Fork -> BOOLEAN], forksInUse : Int]
              /\ w.forksInUse + 1 \in Int
            BY <1>1 DEF WaiterType
        <3>2. [w.freeForks EXCEPT ![f] = FALSE] \in [Fork -> BOOLEAN]
            BY <1>1
        <3>3. QED
            BY <3>1, <3>2
    <2>3. {g \in Fork : ~v.freeForks[g]} = U \cup {f}
        BY <1>1, <2>2
    <2> HIDE DEF v, U
    <2>4. WaiterType(v)
        BY <1>1, <2>1, <2>2, <2>3 DEF WaiterType
    <2>5. QED
        BY <2>4 DEF v
<1>6. QED
    BY <1>4, <1>5

\* What is left to show of a message the waiter deals with.
LEMMA WaiterInv ==
    ASSUME IInv, UNCHANGED <<step, has>>, Mailed(boxes'),
           waiter.step # "gone", waiter'.step = waiter.step,
           waiter'.hired = waiter.hired, WaiterType(waiter'),
           Custody(has, SentBy(boxes'), PendingIn(boxes')),
           FreeIfNowhere(has, SentBy(boxes'), PendingIn(boxes'), waiter'.freeForks)
    PROVE  IInv'
BY DEF IInv

LEMMA ServeInv == ASSUME IInv, Serve PROVE IInv'
<1> DEFINE m == boxes.got[Waiter]
           P == PendingIn(boxes)
           o == SentBy(boxes)
           free == waiter.freeForks
           answer == IF Grants(m) THEN Mail!Put(boxes, m.from, Granted) ELSE boxes
<1>1. /\ m # NoMessage
      /\ boxes' = Mail!Delete(answer, Waiter)
      /\ waiter' = TableAfter(m)
      /\ UNCHANGED <<step, has>>
    BY DEF Serve
<1>2. /\ m \in Request /\ m.from \in Philosopher /\ m.fork \in Fork
      /\ waiter.step # "gone"
    BY <1>1, RequestFields DEF IInv, Mailed, Deaf
<1>3. /\ P \in Seq(Request) /\ P # <<>> /\ P[1] = m
    BY <1>1, ServedFacts DEF IInv
<1>4. /\ Mailed(boxes) /\ WaiterType(waiter)
      /\ Custody(has, o, P) /\ FreeIfNowhere(has, o, P, free)
      /\ free \in [Fork -> BOOLEAN]
      /\ o \in SUBSET Philosopher
    BY <1>2 DEF IInv, WaiterType, SentBy
<1>5. waiter'.step = waiter.step /\ waiter'.hired = waiter.hired
    BY <1>1 DEF TableAfter, IInv, WaiterType
<1> HIDE DEF m, P, o, free
<1>6. CASE m.what = "D"
    <2>1. boxes' = Mail!Delete(boxes, Waiter)
        BY <1>1, <1>6 DEF Grants
    <2>2. /\ Mailed(boxes') /\ SentBy(boxes') = o /\ PendingIn(boxes') = Tail(P)
        BY <1>1, <1>4, <2>1, ServedFacts DEF m, P, o
    <2>3. /\ Custody(has, o, Tail(P))
          /\ FreeIfNowhere(has, o, Tail(P), [free EXCEPT ![m.fork] = TRUE])
          /\ ~free[m.fork]
        BY <1>3, <1>4, <1>6, ReturnCustody
    <2>4. waiter' = [waiter EXCEPT !.forksInUse = @ - 1, !.freeForks[m.fork] = TRUE]
        BY <1>1, <1>6 DEF TableAfter
    <2>5. waiter'.freeForks = [free EXCEPT ![m.fork] = TRUE]
        BY <1>4, <2>4 DEF WaiterType, free
    <2>6. WaiterType(waiter')
        BY <1>2, <1>4, <2>3, <2>4, CountFacts DEF free
    <2>7. QED
        BY <1>1, <1>2, <1>5, <2>2, <2>3, <2>5, <2>6, WaiterInv
<1>7. CASE m.what # "D" /\ Grants(m)
    <2> DEFINE i == m.from
               b == Mail!Put(boxes, i, Granted)
    <2>1. boxes' = Mail!Delete(b, Waiter) /\ free[m.fork]
        BY <1>1, <1>7 DEF Grants, free
    <2>2. /\ i \notin o
          /\ Custody(has, o \cup {i}, Tail(P))
          /\ FreeIfNowhere(has, o \cup {i}, Tail(P), [free EXCEPT ![m.fork] = FALSE])
        BY <1>3, <1>4, <1>7, <2>1, GrantCustody
    <2> HIDE DEF i
    <2>3. i \in Philosopher
        BY <1>2 DEF i
    <2>4. /\ Mailed(b) /\ OnlyBoxOf(i, boxes, b)
          /\ PendingIn(b) = P /\ SentBy(b) = o \cup {i}
        BY <1>4, <2>2, <2>3, AnswerFacts DEF P, o
    <2> HIDE DEF b
    <2>5. b.got[Waiter] = m
        BY <2>3, <2>4, Boxes DEF OnlyBoxOf, m
    <2>6. /\ Mailed(boxes') /\ SentBy(boxes') = o \cup {i} /\ PendingIn(boxes') = Tail(P)
        BY <1>1, <2>1, <2>4, <2>5, ServedFacts
    <2>7. waiter' = [waiter EXCEPT !.forksInUse = @ + 1, !.freeForks[m.fork] = FALSE]
        BY <1>1, <1>7 DEF TableAfter
    <2>8. waiter'.freeForks = [free EXCEPT ![m.fork] = FALSE]
        BY <1>4, <2>7 DEF WaiterType, free
    <2>9. WaiterType(waiter')
        BY <1>2, <1>4, <2>1, <2>7, CountFacts DEF free
    <2>10. QED
        BY <1>1, <1>2, <1>5, <2>2, <2>6, <2>8, <2>9, WaiterInv
<1>8. CASE m.what # "D" /\ ~Grants(m)
    <2>1. boxes' = Mail!Delete(boxes, Waiter) /\ waiter' = waiter
        BY <1>1, <1>8 DEF TableAfter
    <2>2. /\ Mailed(boxes') /\ SentBy(boxes') = o /\ PendingIn(boxes') = Tail(P)
        BY <1>1, <1>4, <2>1, ServedFacts DEF m, P, o
    <2>3. Custody(has, o, Tail(P)) /\ FreeIfNowhere(has, o, Tail(P), free)
        BY <1>3, <1>4, <1>8, ForgetCustody
    <2>4. QED
        BY <1>1, <1>2, <1>4, <2>1, <2>2, <2>3, WaiterInv DEF free
<1>9. QED
    BY <1>6, <1>7, <1>8

LEMMA LeaveInv == ASSUME IInv, Leave PROVE IInv'
<1> USE DEF Leave
<1>1. /\ Mailed(boxes') /\ Deaf(boxes')
      /\ PendingIn(boxes') = <<>> /\ SentBy(boxes') = SentBy(boxes)
    BY LeaveFacts DEF IInv, Deaf
<1>2. Custody(has, SentBy(boxes), <<>>)
    BY NobodyCustody DEF IInv
<1>3. /\ waiter'.step = "gone" /\ waiter'.hired = waiter.hired
      /\ WaiterType(waiter')
    BY DEF IInv, WaiterType, WaiterSteps
<1>4. QED
    BY <1>1, <1>2, <1>3 DEF IInv

\* Every step keeps the invariant.
LEMMA NextInv == IInv /\ [PhNext]_vars => IInv'
<1> SUFFICES ASSUME IInv, [PhNext]_vars PROVE IInv'
    OBVIOUS
<1>1. CASE UNCHANGED vars
    BY <1>1 DEF IInv, vars
<1>2. ASSUME NEW i \in Philosopher, Hire(i) PROVE IInv'
    BY <1>2, HireInv
<1>3. CASE WaiterReceives
    BY <1>3, WaiterReceivesInv
<1>4. CASE WaiterTimesOut
    BY <1>4, WaiterTimesOutInv
<1>5. CASE Serve
    BY <1>5, ServeInv
<1>6. CASE Leave
    BY <1>6, LeaveInv
<1>7. ASSUME NEW i \in Philosopher, PhilosopherActs(i) PROVE IInv'
    BY <1>7, AskInv, ListenInv, GetInv, GiveUpInv, DropLeftInv, DropRightInv
    DEF PhilosopherActs
<1>8. QED
    BY <1>1, <1>2, <1>3, <1>4, <1>5, <1>6, <1>7 DEF PhNext, WaiterActs, Over

\* A command is a step of the waiter and the philosophers, or none.
LEMMA CommandsAreSteps == [CommandsNext]_commandVars => [PhNext]_vars
BY DEF CommandsNext, RunCommand, StartProgram, NextCommand, NoShell, WaiterTurn,
       PhilosopherTurn, EndOfDinner, PhNext, vars, commandVars

\* IInv is an invariant of the waiter and the philosophers, however they began.
THEOREM ForksInv == PhSpec \/ CommandsSpec => []IInv
<1>1. PhInit => IInv
    BY InitInv
<1>2. IInv /\ [PhNext]_vars => IInv'
    BY NextInv
<1>3. CommandsInit => PhInit
    BY DEF CommandsInit
<1>4. [CommandsNext]_commandVars => [PhNext]_vars
    BY CommandsAreSteps
<1>5. PhSpec => []IInv
    BY <1>1, <1>2, PTL DEF PhSpec
<1>6. CommandsSpec => []IInv
    BY <1>1, <1>2, <1>3, <1>4, PTL DEF CommandsSpec
<1>7. QED
    BY <1>5, <1>6
-----------------------------------------------------------------------------
\* The state keeps its type, and the waiter counts right: no message returns a
\* fork that was not given away.
THEOREM PhTypesCorrect == PhSpec \/ CommandsSpec => []PhTypeOK
<1>1. IInv => PhTypeOK
    BY DEF IInv, Mailed, WaiterType, PhTypeOK
<1>2. QED
    BY <1>1, ForksInv, PTL

\* Each fork is in one place at most, which the waiter takes for free exactly
\* when it is in none, whatever the number of philosophers and of requests.
THEOREM ForksAlwaysAccounted == PhSpec \/ CommandsSpec => []ForksAccounted
<1>1. IInv => ForksAccounted
    <2> SUFFICES ASSUME IInv, NEW f \in Fork
                 PROVE  /\ \A c, d \in Claims(f) : c = d
                        /\ waiter.step # "gone" =>
                              (waiter.freeForks[f] <=> Claims(f) = {})
        BY DEF ForksAccounted
    <2> DEFINE P == PendingIn(boxes)
               o == SentBy(boxes)
    <2>1. \A k \in DOMAIN P : k \in Nat
        BY DEF IInv, Mailed, PendingIn
    <2>2. \A c : c \in Claims(f) <=>
                    \/ \E i \in Philosopher : f \in has[i] /\ c = <<"has", i>>
                    \/ \E i \in Philosopher : Sent(has, o, i, f) /\ c = <<"promised", i>>
                    \/ \E k \in Nat : Back(P, k, f) /\ c = <<"returned", k>>
        BY <2>1 DEF Claims, Promised, Wanted, Pending, Sent, Back, Wants, SentBy, PendingIn
    <2>3. OnePlace(has, o, P)
        BY DEF IInv, Custody
    <2>4. waiter.step # "gone" => FreeIfNowhere(has, o, P, waiter.freeForks)
        BY DEF IInv
    <2>5. 0 \in Philosopher /\ 0 \in Nat
        BY PhilosophersAssumption DEF Philosopher
    <2> HIDE DEF P, o
    <2>6. ASSUME NEW c \in Claims(f), NEW d \in Claims(f) PROVE c = d
        BY <2>2, <2>3, <2>5, <2>6 DEF OnePlace
    <2>7. ASSUME waiter.step # "gone"
          PROVE  waiter.freeForks[f] <=> Claims(f) = {}
        BY <2>2, <2>4, <2>7 DEF FreeIfNowhere
    <2>8. QED
        BY <2>6, <2>7
<1>2. QED
    BY <1>1, ForksInv, PTL

\* Two philosophers that eat do not share a fork, whatever their number.
THEOREM NeighboursAlwaysTakeTurns == PhSpec \/ CommandsSpec => []NeighboursNeverEatTogether
<1>1. IInv => NeighboursNeverEatTogether
    <2> SUFFICES ASSUME IInv, NEW i \in Philosopher, NEW j \in Philosopher,
                        step[i] = "eating", step[j] = "eating", i # j
                 PROVE  {Left(i), Right(i)} \cap {Left(j), Right(j)} = {}
        BY DEF NeighboursNeverEatTogether
    <2>1. has[i] = {Left(i), Right(i)} /\ has[j] = {Left(j), Right(j)}
        BY DEF IInv, HasByStep
    <2>2. \A f \in Fork : ~(f \in has[i] /\ f \in has[j])
        BY DEF IInv, Custody, OnePlace
    <2>3. QED
        BY <2>1, <2>2, TwoForks
<1>2. QED
    BY <1>1, ForksInv, PTL
-----------------------------------------------------------------------------
Ulong == 0 .. LONG_RANGE - 1

\* A tenth of a number is smaller.
LEMMA TenthOfUlong ==
    ASSUME NEW n \in Ulong
    PROVE  /\ n \in Nat /\ n \div 10 \in Nat /\ (n % 10) + Zero \in Nat
           /\ n \div 10 # 0 => n \div 10 < n /\ n \div 10 \in Ulong
<1>1. LONG_RANGE \in Nat
    BY RtlStringAssumption
<1>2. \A m \in Nat : m \div 10 \in Nat /\ m \div 10 <= m /\ m % 10 \in Nat
                     /\ (m \div 10 # 0 => m \div 10 < m)
    OBVIOUS
<1>3. n \in Nat /\ n < LONG_RANGE
    BY <1>1 DEF Ulong
<1>4. n \div 10 \in Nat /\ n \div 10 <= n /\ n % 10 \in Nat /\ (n \div 10 # 0 => n \div 10 < n)
    BY <1>2, <1>3
<1>5. n \div 10 \in Ulong
    BY <1>1, <1>3, <1>4 DEF Ulong
<1> QED BY <1>3, <1>4, <1>5 DEF Zero

\* What is printed before the last digit of n.
Leading(f, n) == IF n \div 10 # 0 THEN f[n \div 10] ELSE <<>>

\* The recursion of snprintulong ends, for every number of a ULONG: it makes a
\* text of the digits before the last one, and adds that.
LEMMA UlongPrinted ==
    /\ snprintulong \in [Ulong -> Seq(Nat)]
    /\ \A n \in Ulong : snprintulong[n] = Leading(snprintulong, n) \o <<(n % 10) + Zero>>
<1> DEFINE V == Seq(Nat)
           F == [g \in [Ulong -> V] |-> [n \in Ulong |-> Leading(g, n) \o <<(n % 10) + Zero>>]]
           rank == [n \in Ulong |-> n]
<1>1. <<>> \in V
    OBVIOUS
<1>2. rank \in [Ulong -> Nat]
    BY TenthOfUlong
<1>3. F \in [[Ulong -> V] -> [Ulong -> V]]
    <2>1. ASSUME NEW g \in [Ulong -> V], NEW n \in Ulong
          PROVE  Leading(g, n) \o <<(n % 10) + Zero>> \in V
        <3>1. PICK t \in V : t = Leading(g, n)
            <4> HIDE DEF V
            <4>1. n \div 10 # 0 => g[n \div 10] \in V
                BY TenthOfUlong
            <4> QED BY <1>1, <4>1 DEF Leading
        <3>2. (n % 10) + Zero \in Nat
            BY TenthOfUlong
        <3> QED BY <3>1, <3>2
    <2> HIDE DEF V
    <2> QED BY <2>1
<1>4. IsRecursion(F, Ulong, V, rank)
    <2> HIDE DEF V
    <2>1. ASSUME NEW g \in [Ulong -> V], NEW h \in [Ulong -> V], NEW n \in Ulong,
                 \A m \in Ulong : rank[m] < rank[n] => g[m] = h[m]
          PROVE  F[g][n] = F[h][n]
        <3>1. Leading(g, n) = Leading(h, n)
            BY <2>1, TenthOfUlong DEF Leading
        <3> QED BY <3>1
    <2>2. V # {}
        BY <1>1
    <2> HIDE DEF F, rank
    <2> QED BY <1>2, <1>3, <2>1, <2>2 DEF IsRecursion
<1>5. PICK f : IsRecursive(f, F, Ulong, V)
    <2> HIDE DEF V, F, rank
    <2> QED BY <1>4, RecursionExists
<1> DEFINE Body(g) == [n \in Ulong |-> Leading(g, n) \o <<(n % 10) + Zero>>]
<1>6. f = Body(f)
    BY <1>5 DEF IsRecursive
<1>7. snprintulong = CHOOSE g : g = Body(g)
    BY DEF snprintulong, Leading, Ulong
<1>8. snprintulong = Body(snprintulong)
    <2> HIDE DEF Body
    <2> QED BY <1>6, <1>7
<1>9. \A n \in Ulong : snprintulong[n] = Leading(snprintulong, n) \o <<(n % 10) + Zero>>
    BY <1>8
<1> DEFINE T == {n \in Ulong : snprintulong[n] \in V}
<1>10. Ulong \subseteq T
    <2>1. ASSUME NEW n \in Ulong, \A m \in Ulong : rank[m] < rank[n] => m \in T
          PROVE  n \in T
        <3>1. n \div 10 # 0 => n \div 10 \in T
            BY <2>1, TenthOfUlong
        <3>2. PICK t \in V : t = Leading(snprintulong, n)
            <4> HIDE DEF V
            <4> QED BY <1>1, <3>1 DEF Leading
        <3>3. (n % 10) + Zero \in Nat
            BY TenthOfUlong
        <3>4. snprintulong[n] = t \o <<(n % 10) + Zero>>
            BY <1>9, <3>2
        <3>5. snprintulong[n] \in V
            BY <3>3, <3>4
        <3> QED BY <3>5
    <2> HIDE DEF T, rank
    <2> QED BY <1>2, <2>1, RankInduction
<1>11. snprintulong = [n \in Ulong |-> snprintulong[n]]
    BY <1>8
<1>12. snprintulong \in [Ulong -> V]
    <2> HIDE DEF V
    <2> QED BY <1>10, <1>11
<1> QED BY <1>9, <1>12
\* A text of digits, and one of ten at most.
IsNumeral(t) == t \in Seq(Nat) /\ t # <<>> /\ \A i \in 1 .. Len(t) : Rtlappisdigit(t[i])

\* A digit appended to digits, or to nothing, makes digits.
LEMMA NumeralAppend ==
    ASSUME NEW t, t = <<>> \/ IsNumeral(t), NEW c \in Nat, Rtlappisdigit(c)
    PROVE  IsNumeral(t \o <<c>>) /\ Len(t \o <<c>>) = Len(t) + 1
<1>1. t \in Seq(Nat) /\ Len(t) \in Nat /\ \A i \in 1 .. Len(t) : Rtlappisdigit(t[i])
    <2>1. CASE t = <<>>
        BY <2>1
    <2>2. CASE IsNumeral(t)
        BY <2>2 DEF IsNumeral
    <2> QED BY <2>1, <2>2
<1> DEFINE s == t \o <<c>>
<1>2. /\ s \in Seq(Nat) /\ Len(s) = Len(t) + 1
      /\ \A i \in 1 .. Len(t) : s[i] = t[i]
      /\ s[Len(t) + 1] = c
    BY <1>1
<1> HIDE DEF s
<1>3. ASSUME NEW i \in 1 .. Len(s) PROVE Rtlappisdigit(s[i])
    <2>1. i \in 1 .. Len(t) \/ i = Len(t) + 1
        BY <1>1, <1>2
    <2> QED BY <1>1, <1>2, <2>1
<1>4. s # <<>>
    BY <1>1, <1>2
<1> QED BY <1>2, <1>3, <1>4 DEF IsNumeral, s

\* The last digit printed is one.
LEMMA LastDigitPrinted ==
    ASSUME NEW n \in Ulong
    PROVE  /\ (n % 10) + Zero \in Nat /\ Rtlappisdigit((n % 10) + Zero)
           /\ (n % 10) + Zero # Space
<1>1. n % 10 \in 0 .. 9
    BY TenthOfUlong
<1> QED BY <1>1 DEF Rtlappisdigit, Zero, Nine, Space

\* A ULONG is printed as digits, one at least.
LEMMA PrintedIsNumeral == \A n \in Ulong : IsNumeral(snprintulong[n])
<1> DEFINE T == {n \in Ulong : IsNumeral(snprintulong[n])}
           rank == [n \in Ulong |-> n]
<1>1. rank \in [Ulong -> Nat]
    BY TenthOfUlong
<1>2. ASSUME NEW n \in Ulong, \A m \in Ulong : rank[m] < rank[n] => m \in T PROVE n \in T
    <2>1. n \div 10 # 0 => n \div 10 \in T
        BY <1>2, TenthOfUlong
    <2>2. PICK t : t = Leading(snprintulong, n) /\ (t = <<>> \/ IsNumeral(t))
        BY <2>1 DEF Leading
    <2>3. IsNumeral(t \o <<(n % 10) + Zero>>)
        BY <2>2, LastDigitPrinted, NumeralAppend
    <2> QED BY <2>2, <2>3, UlongPrinted
<1> HIDE DEF T, rank
<1>3. Ulong \subseteq T
    BY <1>1, <1>2, RankInduction
<1> QED BY <1>3 DEF T

\* A number below ten is printed as a digit; a greater one has one digit more
\* than its tenth.
LEMMA OneDigit ==
    ASSUME NEW n \in Ulong, n < 10
    PROVE  snprintulong[n] = <<n + Zero>>
<1>1. \A m \in Nat : m < 10 => m \div 10 = 0 /\ m % 10 = m
    OBVIOUS
<1>2. snprintulong[n] = <<>> \o <<n + Zero>>
    BY <1>1, TenthOfUlong, UlongPrinted DEF Leading
<1>3. n + Zero \in Nat
    BY TenthOfUlong DEF Zero
<1> QED BY <1>2, <1>3

\* A number from ten on is printed as its tenth and a digit.
LEMMA MoreDigits ==
    ASSUME NEW n \in Ulong, ~(n < 10)
    PROVE  /\ n \div 10 \in Ulong
           /\ snprintulong[n] = snprintulong[n \div 10] \o <<(n % 10) + Zero>>
           /\ Len(snprintulong[n]) = Len(snprintulong[n \div 10]) + 1
<1>1. \A m \in Nat : ~(m < 10) => m \div 10 # 0
    OBVIOUS
<1>2. n \div 10 \in Ulong /\ snprintulong[n] = snprintulong[n \div 10] \o <<(n % 10) + Zero>>
    BY <1>1, TenthOfUlong, UlongPrinted DEF Leading
<1>3. PICK t : t = snprintulong[n \div 10]
    OBVIOUS
<1>4. Len(t \o <<(n % 10) + Zero>>) = Len(t) + 1
    BY <1>2, <1>3, PrintedIsNumeral, LastDigitPrinted, NumeralAppend
<1> QED BY <1>2, <1>3, <1>4

\* The numbers below b have k digits at most.
Shorter(b, k) == \A n \in Ulong : n < b => Len(snprintulong[n]) <= k

\* The numbers below ten have a single digit.
LEMMA ShorterThanTen == \A k \in Nat : k > 0 => Shorter(10, k)
<1> SUFFICES ASSUME NEW k \in Nat, k > 0, NEW n \in Ulong, n < 10 PROVE Len(snprintulong[n]) <= k
    BY DEF Shorter
<1>1. snprintulong[n] = <<n + Zero>>
    BY OneDigit
<1>2. Len(<<n + Zero>>) <= k
    OBVIOUS
<1> QED BY <1>1, <1>2

\* Ten times the bound allows one digit more.
LEMMA ShorterByTen ==
    ASSUME NEW b \in Nat, NEW k \in Nat, k > 0, Shorter(b, k)
    PROVE  \A n \in Ulong : n \div 10 < b => Len(snprintulong[n]) <= k + 1
<1> SUFFICES ASSUME NEW n \in Ulong, n \div 10 < b PROVE Len(snprintulong[n]) <= k + 1
    OBVIOUS
<1>1. CASE n < 10
    <2>1. k + 1 \in Nat /\ k + 1 > 0
        OBVIOUS
    <2> QED BY <1>1, <2>1, ShorterThanTen DEF Shorter
<1>2. CASE ~(n < 10)
    <2>1. PICK m \in Ulong : m = n \div 10
        BY <1>2, MoreDigits
    <2>2. Len(snprintulong[m]) <= k /\ snprintulong[m] \in Seq(Nat)
        BY <2>1, PrintedIsNumeral DEF Shorter, IsNumeral
    <2>3. Len(snprintulong[n]) = Len(snprintulong[m]) + 1
        BY <1>2, <2>1, MoreDigits
    <2> QED BY <2>2, <2>3
<1> QED BY <1>1, <1>2

\* A ULONG has ten digits at most.
LEMMA TenDigits == \A n \in Ulong : Len(snprintulong[n]) <= 10
<1>1. Shorter(10, 1)
    BY ShorterThanTen
<1>2. ASSUME NEW b \in Nat, NEW k \in Nat, k > 0, Shorter(b, k) PROVE Shorter(10 * b, k + 1)
    <2>1. \A m \in Nat : m < 10 * b => m \div 10 < b
        OBVIOUS
    <2>2. \A n \in Ulong : n < 10 * b => n \div 10 < b
        BY <2>1, TenthOfUlong
    <2> QED BY <1>2, <2>2, ShorterByTen DEF Shorter
<1>3. Shorter(100, 2)
    BY <1>1, <1>2
<1>4. Shorter(1000, 3)
    BY <1>2, <1>3
<1>5. Shorter(10000, 4)
    BY <1>2, <1>4
<1>6. Shorter(100000, 5)
    BY <1>2, <1>5
<1>7. Shorter(1000000, 6)
    BY <1>2, <1>6
<1>8. Shorter(10000000, 7)
    BY <1>2, <1>7
<1>9. Shorter(100000000, 8)
    BY <1>2, <1>8
<1>10. Shorter(1000000000, 9)
    BY <1>2, <1>9
<1>11. ASSUME NEW n \in Ulong PROVE n \div 10 < 1000000000
    <2>1. \A m, r \in Nat : m < r => m \div 10 <= r \div 10 /\ r \div 10 \in Nat
        OBVIOUS
    <2>2. n < LONG_RANGE /\ LONG_RANGE \in Nat /\ LONG_RANGE \div 10 < 1000000000
        BY RtlStringAssumption, TenthOfUlong DEF Ulong
    <2>3. n \div 10 <= LONG_RANGE \div 10 /\ LONG_RANGE \div 10 \in Nat
        BY <2>1, <2>2, TenthOfUlong
    <2> QED BY <2>2, <2>3, TenthOfUlong
<1>12. \A n \in Ulong : n \div 10 < 1000000000 => Len(snprintulong[n]) <= 9 + 1
    BY <1>10, ShorterByTen
<1> QED BY <1>11, <1>12

\* The number printed for n without its sign: the smallest LONG remains itself.
Unsigned(n) == IF n < 0 THEN Negative(n) ELSE n
Size(n)     == IF n < 0 THEN -n ELSE n
Sign(n)     == IF n < 0 THEN <<Minus>> ELSE <<>>
\* What is printed before the last digit of a LONG without its sign.
LeadingLong(f, m) == IF Tenth(m) # 0 THEN f[Tenth(m)] ELSE <<>>

\* A tenth of a LONG without its sign is a LONG of smaller size.
LEMMA TenthOfLong ==
    ASSUME NEW n \in Long
    PROVE  /\ n \in Int /\ Size(n) \in Nat
           /\ Tenth(Unsigned(n)) # 0 =>
                 Tenth(Unsigned(n)) \in Long /\ Size(Tenth(Unsigned(n))) < Size(n)
           /\ LastDigit(Unsigned(n)) + Zero \in Int
<1>1. PICK h : h = LONG_RANGE \div 2
    OBVIOUS
<1>2. LONG_RANGE \in Nat
    BY RtlStringAssumption
<1>3. h \in Nat
    BY <1>1, <1>2
<1>4. \A m \in Nat : m \div 10 \in Nat /\ m \div 10 <= m /\ (m \div 10 # 0 => m \div 10 < m)
    OBVIOUS
<1>5. Long = -h .. h - 1
    BY <1>1 DEF Long
<1>6. n \in Int /\ -h <= n /\ n <= h - 1
    BY <1>3, <1>5
<1>7. PICK m : m = Unsigned(n)
    OBVIOUS
<1>8. m \in Int /\ -h <= m /\ m <= h - 1 /\ (m = n \/ m = -n)
    BY <1>3, <1>5, <1>6, <1>7 DEF Unsigned, Negative
<1>9. Size(m) = Size(n) /\ Size(n) \in Nat
    BY <1>6, <1>8 DEF Size
<1>10. CASE m < 0
    <2>1. PICK k \in Nat : k = -m
        BY <1>8, <1>10
    <2>2. Tenth(m) = -(k \div 10)
        BY <1>10, <2>1 DEF Tenth
    <2>3. k \div 10 \in Nat /\ k \div 10 <= k /\ (k \div 10 # 0 => k \div 10 < k)
        BY <1>4
    <2>4. Tenth(m) \in Int /\ Tenth(m) \in -h .. h - 1 /\ (Tenth(m) # 0 => Size(Tenth(m)) < Size(m))
        BY <1>3, <1>8, <1>10, <2>1, <2>2, <2>3 DEF Size
    <2>5. LastDigit(m) + Zero \in Int
        BY <1>8, <2>4 DEF LastDigit, Zero
    <2> QED BY <1>5, <1>6, <1>7, <1>9, <2>4, <2>5
<1>11. CASE ~(m < 0)
    <2>1. Tenth(m) = m \div 10 /\ m \in Nat
        BY <1>8, <1>11 DEF Tenth
    <2>3. m \div 10 \in Nat /\ m \div 10 <= m /\ (m \div 10 # 0 => m \div 10 < m)
        BY <1>4, <2>1
    <2>4. Tenth(m) \in Int /\ Tenth(m) \in -h .. h - 1 /\ (Tenth(m) # 0 => Size(Tenth(m)) < Size(m))
        BY <1>3, <1>8, <1>11, <2>1, <2>3 DEF Size
    <2>5. LastDigit(m) + Zero \in Int
        BY <1>8, <2>4 DEF LastDigit, Zero
    <2> QED BY <1>5, <1>6, <1>7, <1>9, <2>4, <2>5
<1> QED BY <1>10, <1>11

\* The recursion of snprintlong ends.
LEMMA LongPrinted ==
    \A n \in Long :
        snprintlong[n] = Sign(n) \o LeadingLong(snprintlong, Unsigned(n)) \o <<LastDigit(Unsigned(n)) + Zero>>
<1> DEFINE V == Seq(Int)
           Body(g) == [n \in Long |-> Sign(n) \o LeadingLong(g, Unsigned(n)) \o <<LastDigit(Unsigned(n)) + Zero>>]
           F == [g \in [Long -> V] |-> Body(g)]
           rank == [n \in Long |-> Size(n)]
<1>1. <<>> \in V /\ <<Minus>> \in V
    BY DEF Minus
<1>2. rank \in [Long -> Nat]
    BY TenthOfLong
<1>3. F \in [[Long -> V] -> [Long -> V]]
    <2>1. ASSUME NEW g \in [Long -> V], NEW n \in Long
          PROVE  Sign(n) \o LeadingLong(g, Unsigned(n)) \o <<LastDigit(Unsigned(n)) + Zero>> \in V
        <3>1. PICK t \in V : t = LeadingLong(g, Unsigned(n))
            <4> HIDE DEF V
            <4>1. Tenth(Unsigned(n)) # 0 => g[Tenth(Unsigned(n))] \in V
                BY TenthOfLong
            <4> QED BY <1>1, <4>1 DEF LeadingLong
        <3>2. PICK d \in Int : d = LastDigit(Unsigned(n)) + Zero
            BY TenthOfLong
        <3>3. PICK u \in V : u = Sign(n)
            <4> HIDE DEF V
            <4> QED BY <1>1 DEF Sign
        <3>4. u \o t \o <<d>> \in V
            OBVIOUS
        <3> QED BY <3>1, <3>2, <3>3, <3>4
    <2> HIDE DEF V
    <2> QED BY <2>1
<1>4. IsRecursion(F, Long, V, rank)
    <2> HIDE DEF V
    <2>1. ASSUME NEW g \in [Long -> V], NEW h \in [Long -> V], NEW n \in Long,
                 \A m \in Long : rank[m] < rank[n] => g[m] = h[m]
          PROVE  F[g][n] = F[h][n]
        <3>1. LeadingLong(g, Unsigned(n)) = LeadingLong(h, Unsigned(n))
            BY <2>1, TenthOfLong DEF LeadingLong
        <3> QED BY <3>1
    <2>2. V # {}
        BY <1>1
    <2> HIDE DEF F, rank
    <2> QED BY <1>2, <1>3, <2>1, <2>2 DEF IsRecursion
<1>5. PICK f : IsRecursive(f, F, Long, V)
    <2> HIDE DEF V, F, rank
    <2> QED BY <1>4, RecursionExists
<1>6. f = Body(f)
    BY <1>5 DEF IsRecursive
<1>7. snprintlong = CHOOSE g : g = Body(g)
    BY DEF snprintlong, Sign, LeadingLong, Unsigned
<1>8. snprintlong = Body(snprintlong)
    <2> HIDE DEF Body
    <2> QED BY <1>6, <1>7
<1> QED BY <1>8

\* A LONG that is not negative is printed like a ULONG.
Positive == 0 .. LONG_RANGE \div 2 - 1

\* The sign, the tenth and the last digit of a LONG that is not negative.
LEMMA PositiveFacts ==
    ASSUME NEW n \in Positive
    PROVE  /\ n \in Nat /\ n \in Long /\ n \in Ulong /\ n \div 10 \in Positive
           /\ Unsigned(n) = n /\ Sign(n) = <<>> /\ Tenth(n) = n \div 10 /\ LastDigit(n) = n % 10
<1>1. PICK h : h = LONG_RANGE \div 2
    OBVIOUS
<1>2. LONG_RANGE \in Nat
    BY RtlStringAssumption
<1>3. h \in Nat /\ h <= LONG_RANGE
    BY <1>1, <1>2
<1>4. n \in Nat /\ n <= h - 1
    BY <1>1, <1>3 DEF Positive
<1>5. n \div 10 \in Nat /\ n \div 10 <= n /\ n % 10 = n - 10 * (n \div 10)
    BY <1>4
<1>6. n \in Long /\ n \in Ulong /\ n \div 10 \in Positive
    BY <1>1, <1>2, <1>3, <1>4, <1>5 DEF Long, Ulong, Positive
<1>7. Unsigned(n) = n /\ Sign(n) = <<>> /\ Tenth(n) = n \div 10
    BY <1>4 DEF Unsigned, Sign, Tenth
<1> QED BY <1>4, <1>5, <1>6, <1>7 DEF LastDigit

\* A LONG that is not negative is printed as a ULONG is.
LEMMA PositivePrinted == \A n \in Positive : snprintlong[n] = snprintulong[n]
<1> DEFINE T == {n \in Positive : snprintlong[n] = snprintulong[n]}
           rank == [n \in Positive |-> n]
<1>1. rank \in [Positive -> Nat]
    BY PositiveFacts
<1>2. ASSUME NEW n \in Positive, \A m \in Positive : rank[m] < rank[n] => m \in T PROVE n \in T
    <2>1. n \div 10 # 0 => n \div 10 < n /\ n \div 10 \in T
        BY <1>2, PositiveFacts, TenthOfUlong
    <2>2. LeadingLong(snprintlong, n) = Leading(snprintulong, n)
        BY <2>1, PositiveFacts DEF LeadingLong, Leading
    <2>3. PICK t \in Seq(Nat) : t = Leading(snprintulong, n)
        <3>1. PICK s : s = Seq(Nat)
            OBVIOUS
        <3>2. <<>> \in s
            BY <3>1
        <3>3. n \div 10 # 0 => snprintulong[n \div 10] \in s
            BY <3>1, TenthOfUlong, UlongPrinted, PositiveFacts
        <3> QED BY <3>1, <3>2, <3>3 DEF Leading
    <2>4. <<>> \o t \o <<(n % 10) + Zero>> = t \o <<(n % 10) + Zero>>
        OBVIOUS
    <2>5. snprintlong[n] = <<>> \o t \o <<(n % 10) + Zero>>
        BY <2>2, <2>3, LongPrinted, PositiveFacts
    <2>6. snprintulong[n] = t \o <<(n % 10) + Zero>>
        BY <2>3, UlongPrinted, PositiveFacts
    <2> QED BY <2>4, <2>5, <2>6
<1> HIDE DEF T, rank
<1>3. Positive \subseteq T
    BY <1>1, <1>2, RankInduction
<1> QED BY <1>3 DEF T

\* What RtlAtoUL makes of the first i characters of s.
Accumulated(v, s, i) ==
    IF \A j \in 1 .. i : s[j] = Space
    THEN 0
    ELSE (v[i - 1] * 10 + (s[i] - Zero)) % LONG_RANGE

\* v[i] is the number read in the first i characters of s.
IsReading(v, s) == \A i \in 0 .. Len(s) : v[i] \in Int /\ v[i] = Accumulated(v, s, i)

\* Such a number is an integer.
LEMMA AccumulatedType ==
    ASSUME NEW s \in Seq(Nat), NEW i \in 0 .. Len(s), NEW v, i # 0 => v[i - 1] \in Int
    PROVE  Accumulated(v, s, i) \in Int
<1>1. LONG_RANGE \in Nat /\ LONG_RANGE > 0
    <2>1. LONG_RANGE \in Nat /\ LONG_RANGE >= 256
        BY RtlStringAssumption
    <2> QED BY <2>1
<1>2. \A x \in Int, r \in Nat : r > 0 => x % r \in Int
    OBVIOUS
<1>3. CASE \A j \in 1 .. i : s[j] = Space
    BY <1>3 DEF Accumulated
<1>4. CASE ~(\A j \in 1 .. i : s[j] = Space)
    <2>1. i # 0 /\ i \in 1 .. Len(s) /\ s[i] \in Nat
        BY <1>4
    <2>2. PICK x \in Int : x = v[i - 1] * 10 + (s[i] - Zero)
        BY <2>1 DEF Zero
    <2>3. x % LONG_RANGE \in Int
        BY <1>1, <1>2
    <2> QED BY <1>4, <2>2, <2>3 DEF Accumulated
<1> QED BY <1>3, <1>4

\* The recursion of RtlAtoUL ends: there is such a v.
LEMMA AtoULReads ==
    ASSUME NEW s \in Seq(Nat)
    PROVE  \E v : IsReading(v, s) /\ RtlAtoUL(s) = v[Len(s)]
<1> DEFINE S == 0 .. Len(s)
           Body(g) == [i \in S |-> Accumulated(g, s, i)]
           F == [g \in [S -> Int] |-> Body(g)]
           rank == [i \in S |-> i]
<1>1. rank \in [S -> Nat]
    OBVIOUS
<1>2. F \in [[S -> Int] -> [S -> Int]]
    <2>1. ASSUME NEW g \in [S -> Int], NEW i \in S PROVE Accumulated(g, s, i) \in Int
        <3>1. i # 0 => i - 1 \in S
            OBVIOUS
        <3>2. i # 0 => g[i - 1] \in Int
            BY <3>1
        <3> QED BY <3>2, AccumulatedType
    <2> HIDE DEF S
    <2> QED BY <2>1
<1>3. IsRecursion(F, S, Int, rank)
    <2>1. ASSUME NEW g \in [S -> Int], NEW h \in [S -> Int], NEW i \in S,
                 \A j \in S : rank[j] < rank[i] => g[j] = h[j]
          PROVE  F[g][i] = F[h][i]
        <3>1. i # 0 => g[i - 1] = h[i - 1]
            <4>1. i # 0 => i - 1 \in S /\ rank[i - 1] < rank[i]
                OBVIOUS
            <4> HIDE DEF rank, S
            <4> QED BY <2>1, <4>1
        <3>2. i = 0 => \A j \in 1 .. i : s[j] = Space
            OBVIOUS
        <3>3. Accumulated(g, s, i) = Accumulated(h, s, i)
            BY <3>1, <3>2 DEF Accumulated
        <3> HIDE DEF S
        <3> QED BY <3>3
    <2>2. 0 \in Int
        OBVIOUS
    <2> HIDE DEF F, rank, S
    <2> QED BY <1>1, <1>2, <2>1, <2>2 DEF IsRecursion
<1>4. PICK f : IsRecursive(f, F, S, Int)
    <2> HIDE DEF F, rank, S
    <2> QED BY <1>3, RecursionExists
<1>5. f \in [S -> Int] /\ f = Body(f)
    <2> HIDE DEF S
    <2> QED BY <1>4 DEF IsRecursive
<1> DEFINE v == CHOOSE g : g = Body(g)
<1>6. RtlAtoUL(s) = v[Len(s)]
    BY DEF RtlAtoUL, Accumulated
<1>7. v = Body(v)
    <2> HIDE DEF Body
    <2> QED BY <1>5
<1> HIDE DEF v
<1>8. \A i \in S : v[i] = Accumulated(v, s, i)
    <2> HIDE DEF S
    <2> QED BY <1>7
<1> DEFINE T == {i \in Nat : i \in S => v[i] \in Int}
<1>9. 0 \in T
    <2>1. 0 \in S
        OBVIOUS
    <2>2. Accumulated(v, s, 0) \in Int
        BY <2>1, AccumulatedType
    <2> QED BY <1>8, <2>2
<1>10. ASSUME NEW i \in Nat, i \in T PROVE i + 1 \in T
    <2> SUFFICES ASSUME i + 1 \in S PROVE v[i + 1] \in Int
        OBVIOUS
    <2>1. i \in S /\ (i + 1) - 1 = i
        OBVIOUS
    <2>2. v[i] \in Int
        BY <1>10, <2>1
    <2>3. Accumulated(v, s, i + 1) \in Int
        BY <2>1, <2>2, AccumulatedType
    <2> QED BY <1>8, <2>3
<1>11. Nat \subseteq T
    <2> HIDE DEF T
    <2> QED BY <1>9, <1>10, NatSetInduction
<1>12. \A i \in S : v[i] \in Int
    BY <1>11
<1> QED BY <1>6, <1>8, <1>12 DEF IsReading

\* A digit more.
LEMMA AtoULAppend ==
    ASSUME NEW t \in Seq(Nat), NEW c \in Nat, c # Space
    PROVE  RtlAtoUL(t \o <<c>>) = (RtlAtoUL(t) * 10 + (c - Zero)) % LONG_RANGE
<1> DEFINE s == t \o <<c>>
           n == Len(t)
<1>1. s \in Seq(Nat) /\ Len(s) = n + 1 /\ n \in Nat /\ s[n + 1] = c /\ \A i \in 1 .. n : s[i] = t[i]
    OBVIOUS
<1> HIDE DEF s
<1>2. PICK u : IsReading(u, t) /\ RtlAtoUL(t) = u[n]
    BY AtoULReads
<1>3. PICK v : IsReading(v, s) /\ RtlAtoUL(s) = v[Len(s)]
    BY <1>1, AtoULReads
<1> HIDE DEF n
<1> DEFINE T == {i \in Nat : i <= n => v[i] = u[i]}
<1>4. ASSUME NEW i \in Nat, i <= n, i # 0 => v[i - 1] = u[i - 1] PROVE v[i] = u[i]
    <2>1. i \in 0 .. Len(t) /\ i \in 0 .. Len(s)
        BY <1>1, <1>4 DEF n
    <2>2. v[i] = Accumulated(v, s, i) /\ u[i] = Accumulated(u, t, i)
        BY <1>2, <1>3, <2>1 DEF IsReading
    <2>3. \A j \in 1 .. i : s[j] = t[j]
        BY <1>1, <1>4
    <2>4. CASE i = 0
        BY <2>2, <2>4 DEF Accumulated
    <2>5. CASE i # 0
        <3>1. s[i] = t[i] /\ v[i - 1] = u[i - 1]
            BY <1>4, <2>3, <2>5
        <3> QED BY <2>2, <2>3, <3>1 DEF Accumulated
    <2> QED BY <2>4, <2>5
<1>5. 0 \in T
    BY <1>4
<1>6. ASSUME NEW i \in Nat, i \in T PROVE i + 1 \in T
    <2>1. (i + 1) - 1 = i /\ (i + 1 <= n => i <= n)
        BY <1>1
    <2> QED BY <1>4, <1>6, <2>1
<1>7. Nat \subseteq T
    <2> HIDE DEF T
    <2> QED BY <1>5, <1>6, NatSetInduction
<1>8. v[n] = u[n]
    BY <1>1, <1>7
<1>9. v[n + 1] = (v[n] * 10 + (c - Zero)) % LONG_RANGE
    <2>1. n + 1 \in 0 .. Len(s) /\ (n + 1) - 1 = n /\ n + 1 \in 1 .. n + 1
        BY <1>1
    <2>2. v[n + 1] = Accumulated(v, s, n + 1)
        BY <1>3, <2>1 DEF IsReading
    <2>3. ~(\A j \in 1 .. n + 1 : s[j] = Space)
        BY <1>1, <2>1
    <2> QED BY <1>1, <2>1, <2>2, <2>3 DEF Accumulated
<1> QED BY <1>1, <1>2, <1>3, <1>8, <1>9 DEF s

\* Reading what was printed gives the number back, for every number of a ULONG.
THEOREM AtoULPrinted == \A n \in Ulong : RtlAtoUL(snprintulong[n]) = n
<1> DEFINE T == {n \in Ulong : RtlAtoUL(snprintulong[n]) = n}
           rank == [n \in Ulong |-> n]
<1>1. rank \in [Ulong -> Nat]
    BY TenthOfUlong
<1>2. ASSUME NEW n \in Ulong, \A m \in Ulong : rank[m] < rank[n] => m \in T PROVE n \in T
    <2>1. RtlAtoUL(<<>>) = 0
        <3>0. <<>> \in Seq(Nat)
            OBVIOUS
        <3>1. PICK v : IsReading(v, <<>>) /\ RtlAtoUL(<<>>) = v[Len(<<>>)]
            BY <3>0, AtoULReads
        <3>2. Len(<<>>) = 0
            OBVIOUS
        <3>3. 0 \in 0 .. Len(<<>>)
            BY <3>2
        <3>4. v[0] = Accumulated(v, <<>>, 0)
            BY <3>1, <3>3 DEF IsReading
        <3>5. \A j \in 1 .. 0 : <<>>[j] = Space
            OBVIOUS
        <3> QED BY <3>1, <3>2, <3>4, <3>5 DEF Accumulated
    <2>2. PICK t \in Seq(Nat) : t = Leading(snprintulong, n) /\ RtlAtoUL(t) = n \div 10
        <3>1. CASE n \div 10 = 0
            <4>1. Leading(snprintulong, n) = <<>>
                BY <3>1 DEF Leading
            <4>2. <<>> \in Seq(Nat)
                OBVIOUS
            <4> QED BY <2>1, <3>1, <4>1, <4>2
        <3>2. CASE n \div 10 # 0
            <4>1. n \div 10 \in T /\ n \div 10 \in Ulong
                BY <1>2, <3>2, TenthOfUlong
            <4>2. Leading(snprintulong, n) = snprintulong[n \div 10]
                BY <3>2 DEF Leading
            <4>3. snprintulong[n \div 10] \in Seq(Nat)
                BY <4>1, UlongPrinted
            <4> QED BY <4>1, <4>2, <4>3
        <3> QED BY <3>1, <3>2
    <2>3. PICK c \in Nat : c = (n % 10) + Zero /\ c # Space
        BY LastDigitPrinted
    <2>4. snprintulong[n] = t \o <<c>>
        BY <2>2, <2>3, UlongPrinted
    <2>5. RtlAtoUL(t \o <<c>>) = ((n \div 10) * 10 + (c - Zero)) % LONG_RANGE
        BY <2>2, <2>3, AtoULAppend
    <2>6. \A m, r \in Nat : m < r => ((m \div 10) * 10 + (((m % 10) + Zero) - Zero)) % r = m
        <3>1. ASSUME NEW m \in Nat, NEW r \in Nat, m < r
              PROVE  ((m \div 10) * 10 + (((m % 10) + Zero) - Zero)) % r = m
            <4>1. (m \div 10) * 10 + (((m % 10) + Zero) - Zero) = m
                BY DEF Zero
            <4>2. m % r = m
                BY <3>1
            <4> QED BY <4>1, <4>2
        <3> QED BY <3>1
    <2>7. n \in Nat /\ LONG_RANGE \in Nat /\ n < LONG_RANGE
        BY RtlStringAssumption, TenthOfUlong DEF Ulong
    <2> QED BY <2>3, <2>4, <2>5, <2>6, <2>7
<1> HIDE DEF T, rank
<1>3. Ulong \subseteq T
    BY <1>1, <1>2, RankInduction
<1> QED BY <1>3 DEF T
-----------------------------------------------------------------------------
\* The pieces of FormattedText: what is left to write at a position of the
\* format, when the argument k is the next.
Join(s, t)  == s \o t
Next(k)     == k + 1
At(f, i, k) == f[<<i, k>>]

Rest(f, format, arguments, i, k) ==
    IF i > Len(format)
    THEN <<>>
    ELSE IF format[i] # Percent
    THEN Join(<<format[i]>>, At(f, i + 1, k))
    ELSE IF format[i + 1] \in {99, 100, 115, 117}
    THEN Join(Converted(format[i + 1], arguments[k]), At(f, i + 2, Next(k)))
    ELSE Join(<<Percent, format[i + 1]>>, At(f, i + 2, k))

Dee         == 100   \* 'd'
Shown(a, k) == snprintlong[a[k]]

\* The characters of the format %d %d %d.
LEMMA ThreeNumbersAt ==
    /\ Len(ThreeNumbers) = 8
    /\ ThreeNumbers[1] = Percent /\ ThreeNumbers[2] = Dee /\ ThreeNumbers[3] = Space
    /\ ThreeNumbers[4] = Percent /\ ThreeNumbers[5] = Dee /\ ThreeNumbers[6] = Space
    /\ ThreeNumbers[7] = Percent /\ ThreeNumbers[8] = Dee
BY DEF ThreeNumbers, Dee

\* What is written from each position of ThreeNumbers on.
From7(a, k) == Join(Shown(a, k), <<>>)
From6(a, k) == Join(<<Space>>, From7(a, k))
From5(a, k) == Join(<<Dee>>, From6(a, k))
From4(a, k) == Join(Shown(a, k), From6(a, Next(k)))
From3(a, k) == Join(<<Space>>, From4(a, k))
From2(a, k) == Join(<<Dee>>, From3(a, k))
From1(a, k) == Join(Shown(a, k), From3(a, Next(k)))

\* A position is left for one behind it.
LEMMA RestAt ==
    ASSUME NEW f, NEW a, NEW k
    PROVE  /\ Rest(f, ThreeNumbers, a, 1, k) = Join(Shown(a, k), At(f, 3, Next(k)))
           /\ Rest(f, ThreeNumbers, a, 2, k) = Join(<<Dee>>, At(f, 3, k))
           /\ Rest(f, ThreeNumbers, a, 3, k) = Join(<<Space>>, At(f, 4, k))
           /\ Rest(f, ThreeNumbers, a, 4, k) = Join(Shown(a, k), At(f, 6, Next(k)))
           /\ Rest(f, ThreeNumbers, a, 5, k) = Join(<<Dee>>, At(f, 6, k))
           /\ Rest(f, ThreeNumbers, a, 6, k) = Join(<<Space>>, At(f, 7, k))
           /\ Rest(f, ThreeNumbers, a, 7, k) = Join(Shown(a, k), At(f, 9, Next(k)))
           /\ Rest(f, ThreeNumbers, a, 8, k) = Join(<<Dee>>, At(f, 9, k))
<1>1. /\ 1 + 1 = 2 /\ 1 + 2 = 3 /\ 2 + 1 = 3 /\ 3 + 1 = 4 /\ 4 + 1 = 5 /\ 4 + 2 = 6
      /\ 5 + 1 = 6 /\ 6 + 1 = 7 /\ 7 + 1 = 8 /\ 7 + 2 = 9 /\ 8 + 1 = 9
    OBVIOUS
<1>2. Converted(Dee, a[k]) = Shown(a, k) /\ Dee \in {99, 100, 115, 117}
    BY DEF Converted, Shown, Dee
<1>3. Dee # Percent /\ Space # Percent
    BY DEF Percent, Space, Dee
<1>4. Rest(f, ThreeNumbers, a, 1, k) = Join(Shown(a, k), At(f, 3, Next(k)))
    BY <1>1, <1>2, ThreeNumbersAt DEF Rest
<1>5. Rest(f, ThreeNumbers, a, 2, k) = Join(<<Dee>>, At(f, 3, k))
    BY <1>1, <1>3, ThreeNumbersAt DEF Rest
<1>6. Rest(f, ThreeNumbers, a, 3, k) = Join(<<Space>>, At(f, 4, k))
    BY <1>1, <1>3, ThreeNumbersAt DEF Rest
<1>7. Rest(f, ThreeNumbers, a, 4, k) = Join(Shown(a, k), At(f, 6, Next(k)))
    BY <1>1, <1>2, ThreeNumbersAt DEF Rest
<1>8. Rest(f, ThreeNumbers, a, 5, k) = Join(<<Dee>>, At(f, 6, k))
    BY <1>1, <1>3, ThreeNumbersAt DEF Rest
<1>9. Rest(f, ThreeNumbers, a, 6, k) = Join(<<Space>>, At(f, 7, k))
    BY <1>1, <1>3, ThreeNumbersAt DEF Rest
<1>10. Rest(f, ThreeNumbers, a, 7, k) = Join(Shown(a, k), At(f, 9, Next(k)))
    BY <1>1, <1>2, ThreeNumbersAt DEF Rest
<1>11. Rest(f, ThreeNumbers, a, 8, k) = Join(<<Dee>>, At(f, 9, k))
    BY <1>1, <1>3, ThreeNumbersAt DEF Rest
<1> QED BY <1>4, <1>5, <1>6, <1>7, <1>8, <1>9, <1>10, <1>11

\* Nothing is left to write behind the format.
LEMMA RestBehind == ASSUME NEW f, NEW a, NEW i, NEW k, i \in Nat /\ i > 8 PROVE Rest(f, ThreeNumbers, a, i, k) = <<>>
BY ThreeNumbersAt DEF Rest

\* The recursion of FormattedText ends for that format, whatever the numbers.
LEMMA FormatEnds ==
    ASSUME NEW a
    PROVE  \E f : f = [at \in Nat \X Nat |-> Rest(f, ThreeNumbers, a, at[1], at[2])]
<1> DEFINE s == ThreeNumbers
           r8 == Join(<<Dee>>, <<>>)
           r0(k) == IF s[0] # Percent THEN Join(<<s[0]>>, From1(a, k))
                    ELSE IF s[1] \in {99, 100, 115, 117}
                    THEN Join(Converted(s[1], a[k]), From2(a, Next(k)))
                    ELSE Join(<<Percent, s[1]>>, From2(a, k))
           F(i, k) == IF i > 8 THEN <<>> ELSE IF i = 8 THEN r8
                      ELSE IF i = 7 THEN From7(a, k) ELSE IF i = 6 THEN From6(a, k)
                      ELSE IF i = 5 THEN From5(a, k) ELSE IF i = 4 THEN From4(a, k)
                      ELSE IF i = 3 THEN From3(a, k) ELSE IF i = 2 THEN From2(a, k)
                      ELSE IF i = 1 THEN From1(a, k) ELSE r0(k)
<1>1. PICK f : f = [at \in Nat \X Nat |-> F(at[1], at[2])]
    OBVIOUS
<1>2. \A i, k \in Nat : At(f, i, k) = F(i, k)
    BY <1>1 DEF At
<1>3. ASSUME NEW i \in Nat, NEW k \in Nat PROVE Rest(f, s, a, i, k) = F(i, k)
    <2> HIDE DEF r8, r0
    <2>1. Next(k) \in Nat
        BY DEF Next
    <2>2. i > 8 => Rest(f, s, a, i, k) = <<>>
        BY RestBehind
    <2>3. Rest(f, s, a, 8, k) = r8
        <3>1. At(f, 9, k) = <<>>
            BY <1>2, <2>1
        <3> HIDE DEF F
        <3> QED BY <3>1, RestAt DEF r8
    <2>4. Rest(f, s, a, 7, k) = From7(a, k)
        <3>1. At(f, 9, Next(k)) = <<>>
            BY <1>2, <2>1
        <3> HIDE DEF F
        <3> QED BY <3>1, RestAt DEF From7
    <2>5. Rest(f, s, a, 6, k) = From6(a, k)
        <3>1. At(f, 7, k) = From7(a, k)
            BY <1>2, <2>1
        <3> HIDE DEF F
        <3> QED BY <3>1, RestAt DEF From6
    <2>6. Rest(f, s, a, 5, k) = From5(a, k)
        <3>1. At(f, 6, k) = From6(a, k)
            BY <1>2, <2>1
        <3> HIDE DEF F
        <3> QED BY <3>1, RestAt DEF From5
    <2>7. Rest(f, s, a, 4, k) = From4(a, k)
        <3>1. At(f, 6, Next(k)) = From6(a, Next(k))
            BY <1>2, <2>1
        <3> HIDE DEF F
        <3> QED BY <3>1, RestAt DEF From4
    <2>8. Rest(f, s, a, 3, k) = From3(a, k)
        <3>1. At(f, 4, k) = From4(a, k)
            BY <1>2, <2>1
        <3> HIDE DEF F
        <3> QED BY <3>1, RestAt DEF From3
    <2>9. Rest(f, s, a, 2, k) = From2(a, k)
        <3>1. At(f, 3, k) = From3(a, k)
            BY <1>2, <2>1
        <3> HIDE DEF F
        <3> QED BY <3>1, RestAt DEF From2
    <2>10. Rest(f, s, a, 1, k) = From1(a, k)
        <3>1. At(f, 3, Next(k)) = From3(a, Next(k))
            BY <1>2, <2>1
        <3> HIDE DEF F
        <3> QED BY <3>1, RestAt DEF From1
    <2>11. Rest(f, s, a, 0, k) = r0(k)
        <3>1. At(f, 1, k) = From1(a, k) /\ At(f, 2, k) = From2(a, k) /\ At(f, 2, Next(k)) = From2(a, Next(k))
            BY <1>2, <2>1
        <3>2. 0 + 1 = 1 /\ 0 + 2 = 2 /\ ~(0 > Len(s))
            BY ThreeNumbersAt
        <3> HIDE DEF F, s
        <3> QED BY <3>1, <3>2 DEF Rest, r0
    <2>12. i > 8 \/ i = 8 \/ i = 7 \/ i = 6 \/ i = 5 \/ i = 4 \/ i = 3 \/ i = 2 \/ i = 1 \/ i = 0
        OBVIOUS
    <2> HIDE DEF s
    <2> QED BY <2>2, <2>3, <2>4, <2>5, <2>6, <2>7, <2>8, <2>9, <2>10, <2>11, <2>12
<1>4. f = [at \in Nat \X Nat |-> Rest(f, s, a, at[1], at[2])]
    <2>1. ASSUME NEW at \in Nat \X Nat PROVE f[at] = Rest(f, s, a, at[1], at[2])
        <3>1. at = <<at[1], at[2]>> /\ at[1] \in Nat /\ at[2] \in Nat
            OBVIOUS
        <3> HIDE DEF F
        <3> QED BY <1>2, <1>3, <3>1 DEF At
    <2>2. f = [at \in Nat \X Nat |-> f[at]]
        BY <1>1
    <2> HIDE DEF F, s
    <2> QED BY <2>1, <2>2
<1> QED BY <1>4

\* The text of three numbers.
LEMMA ThreeNumbersText == ASSUME NEW a PROVE FormattedText(ThreeNumbers, a) = From1(a, 1)
<1> DEFINE s == ThreeNumbers
           Body(g) == [at \in Nat \X Nat |-> Rest(g, s, a, at[1], at[2])]
<1>1. PICK from : from = CHOOSE g : g = Body(g)
    OBVIOUS
<1>2. FormattedText(s, a) = At(from, 1, 1)
    BY <1>1 DEF FormattedText, Rest, At, Join, Next
<1>3. from = Body(from)
    <2>1. \E g : g = Body(g)
        BY FormatEnds
    <2> HIDE DEF Body
    <2> QED BY <1>1, <2>1
<1>4. ASSUME NEW i \in Nat, NEW k \in Nat PROVE At(from, i, k) = Rest(from, s, a, i, k)
    <2>1. <<i, k>> \in Nat \X Nat /\ <<i, k>>[1] = i /\ <<i, k>>[2] = k
        OBVIOUS
    <2> HIDE DEF s
    <2> QED BY <1>3, <2>1 DEF At
<1> HIDE DEF Body
<1>5. ASSUME NEW k \in Nat PROVE At(from, 9, k) = <<>>
    <2>1. At(from, 9, k) = Rest(from, s, a, 9, k)
        BY <1>4
    <2> QED BY <2>1, RestBehind
<1>6. ASSUME NEW k \in Nat PROVE At(from, 7, k) = From7(a, k)
    <2>1. At(from, 7, k) = Rest(from, s, a, 7, k) /\ Next(k) \in Nat
        BY <1>4 DEF Next
    <2>2. At(from, 9, Next(k)) = <<>>
        BY <1>5, <2>1
    <2> QED BY <2>1, <2>2, RestAt DEF From7
<1>7. ASSUME NEW k \in Nat PROVE At(from, 6, k) = From6(a, k)
    <2>1. At(from, 6, k) = Rest(from, s, a, 6, k) /\ Next(k) \in Nat
        BY <1>4 DEF Next
    <2>2. At(from, 7, k) = From7(a, k)
        BY <1>6, <2>1
    <2> QED BY <2>1, <2>2, RestAt DEF From6
<1>8. ASSUME NEW k \in Nat PROVE At(from, 4, k) = From4(a, k)
    <2>1. At(from, 4, k) = Rest(from, s, a, 4, k) /\ Next(k) \in Nat
        BY <1>4 DEF Next
    <2>2. At(from, 6, Next(k)) = From6(a, Next(k))
        BY <1>7, <2>1
    <2> QED BY <2>1, <2>2, RestAt DEF From4
<1>9. ASSUME NEW k \in Nat PROVE At(from, 3, k) = From3(a, k)
    <2>1. At(from, 3, k) = Rest(from, s, a, 3, k) /\ Next(k) \in Nat
        BY <1>4 DEF Next
    <2>2. At(from, 4, k) = From4(a, k)
        BY <1>8, <2>1
    <2> QED BY <2>1, <2>2, RestAt DEF From3
<1>10. ASSUME NEW k \in Nat PROVE At(from, 1, k) = From1(a, k)
    <2>1. At(from, 1, k) = Rest(from, s, a, 1, k) /\ Next(k) \in Nat
        BY <1>4 DEF Next
    <2>2. At(from, 3, Next(k)) = From3(a, Next(k))
        BY <1>9, <2>1
    <2> QED BY <2>1, <2>2, RestAt DEF From1
<1> QED BY <1>2, <1>10

\* The first character of what is joined may be appended to what precedes it.
LEMMA JoinMoved ==
    ASSUME NEW s \in Seq(Nat), NEW c \in Nat, NEW q \in Seq(Nat)
    PROVE  /\ Join(<<c>>, q) \in Seq(Nat) /\ Append(s, c) \in Seq(Nat)
           /\ s \o Join(<<c>>, q) = Append(s, c) \o q
<1>1. <<c>> \in Seq(Nat) /\ s \o <<c>> = Append(s, c) /\ Append(s, c) \in Seq(Nat)
    OBVIOUS
<1>2. (s \o <<c>>) \o q = s \o (<<c>> \o q)
    BY <1>1, ConcatAssociative
<1>3. <<c>> \o q \in Seq(Nat)
    BY <1>1
<1> QED BY <1>1, <1>2, <1>3 DEF Join

\* Two digits and a text joined by spaces.
LEMMA TextJoined ==
    ASSUME NEW x \in Nat, NEW y \in Nat, NEW p \in Seq(Nat)
    PROVE  Join(<<x>>, Join(<<Space>>, Join(<<y>>, Join(<<Space>>, Join(p, <<>>))))) = <<x, Space, y, Space>> \o p
<1>1. PICK z \in Nat : z = Space
    BY DEF Space
<1>2. Join(p, <<>>) = p
    BY DEF Join
<1>3. PICK q1 \in Seq(Nat) : q1 = Join(<<z>>, p)
    BY JoinMoved
<1>4. PICK q2 \in Seq(Nat) : q2 = Join(<<y>>, q1)
    BY JoinMoved
<1>5. PICK q3 \in Seq(Nat) : q3 = Join(<<z>>, q2)
    BY JoinMoved
<1>6. PICK s1 \in Seq(Nat) : s1 = <<x>>
    <2>1. <<x>> \in Seq(Nat)
        OBVIOUS
    <2> QED BY <2>1, Zenon
<1>7. PICK s2 \in Seq(Nat) : s2 = Append(s1, z) /\ s1 \o q3 = s2 \o q2
    BY <1>5, JoinMoved
<1>8. PICK s3 \in Seq(Nat) : s3 = Append(s2, y) /\ s2 \o q2 = s3 \o q1
    BY <1>4, JoinMoved
<1>9. PICK s4 \in Seq(Nat) : s4 = Append(s3, z) /\ s3 \o q1 = s4 \o p
    BY <1>3, JoinMoved
<1>10. s4 = <<x, z, y, z>>
    <2>1. Len(s1) = 1 /\ s1[1] = x
        BY <1>6
    <2>2. Len(s2) = 2 /\ s2[1] = x /\ s2[2] = z
        <3>1. s2 = Append(s1, z)
            BY <1>7, Zenon
        <3>2. Len(s2) = Len(s1) + 1 /\ s2[Len(s1) + 1] = z /\ \A i \in 1 .. Len(s1) : s2[i] = s1[i]
            BY <3>1
        <3> QED BY <2>1, <3>2
    <2>3. Len(s3) = 3 /\ s3[1] = x /\ s3[2] = z /\ s3[3] = y
        <3>1. s3 = Append(s2, y)
            BY <1>8, Zenon
        <3>2. Len(s3) = Len(s2) + 1 /\ s3[Len(s2) + 1] = y /\ \A i \in 1 .. Len(s2) : s3[i] = s2[i]
            BY <3>1
        <3> QED BY <2>2, <3>2
    <2>4. Len(s4) = 4 /\ s4[1] = x /\ s4[2] = z /\ s4[3] = y /\ s4[4] = z
        <3>1. s4 = Append(s3, z)
            BY <1>9, Zenon
        <3>2. Len(s4) = Len(s3) + 1 /\ s4[Len(s3) + 1] = z /\ \A i \in 1 .. Len(s3) : s4[i] = s3[i]
            BY <3>1
        <3> QED BY <2>3, <3>2
    <2> DEFINE t == <<x, z, y, z>>
    <2>5. t \in Seq(Nat) /\ Len(t) = 4 /\ t[1] = x /\ t[2] = z /\ t[3] = y /\ t[4] = z
        OBVIOUS
    <2> HIDE DEF t
    <2>6. \A i \in 1 .. Len(s4) : s4[i] = t[i]
        <3>1. \A i \in 1 .. 4 : i = 1 \/ i = 2 \/ i = 3 \/ i = 4
            OBVIOUS
        <3> QED BY <2>4, <2>5, <3>1
    <2>7. s4 = t
        BY <2>4, <2>5, <2>6, SeqEqual
    <2> QED BY <2>7 DEF t
<1>11. Join(<<x>>, q3) = s1 \o q3
    BY <1>6 DEF Join
<1> QED BY <1>1, <1>2, <1>3, <1>4, <1>5, <1>7, <1>8, <1>9, <1>10, <1>11

\* The arguments of a philosopher, which fit into the buffer.
LEMMA PhilosopherText ==
    ASSUME NEW l \in 0 .. 9, NEW r \in 0 .. 9, NEW n \in Positive
    PROVE  FormattedText(ThreeNumbers, <<l, r, n>>)
               = <<l + Zero, Space, r + Zero, Space>> \o snprintulong[n]
<1>1. ASSUME NEW d \in 0 .. 9 PROVE snprintlong[d] = <<d + Zero>> /\ d + Zero \in Nat
    <2>1. LONG_RANGE \in Nat /\ LONG_RANGE >= 256
        BY RtlStringAssumption
    <2>2. d \in Positive
        <3>1. \A m \in Nat : m >= 256 => d \in 0 .. (m \div 2) - 1
            OBVIOUS
        <3> QED BY <2>1, <3>1 DEF Positive
    <2>3. d \in Ulong /\ d < 10
        BY <2>2, PositiveFacts
    <2> QED BY <2>2, <2>3, PositivePrinted, OneDigit DEF Zero
<1>2. PICK p \in Seq(Nat) : p = snprintulong[n] /\ p = snprintlong[n]
    BY PositiveFacts, PositivePrinted, UlongPrinted
<1>3. PICK x \in Nat : x = l + Zero /\ snprintlong[l] = <<x>>
    BY <1>1
<1>4. PICK y \in Nat : y = r + Zero /\ snprintlong[r] = <<y>>
    BY <1>1
<1> DEFINE a == <<l, r, n>>
<1>5. Shown(a, 1) = <<x>> /\ Shown(a, 2) = <<y>> /\ Shown(a, 3) = p /\ Next(1) = 2 /\ Next(2) = 3
    BY <1>2, <1>3, <1>4 DEF Shown, Next
<1> HIDE DEF a
<1>6. From1(a, 1) = Join(<<x>>, Join(<<Space>>, Join(<<y>>, Join(<<Space>>, Join(p, <<>>)))))
    BY <1>5 DEF From1, From3, From4, From6, From7
<1>7. From1(a, 1) = <<x, Space, y, Space>> \o p
    BY <1>6, TextJoined
<1> QED BY <1>2, <1>3, <1>4, <1>7, ThreeNumbersText DEF a
-----------------------------------------------------------------------------
\* What fits is not cut.
LEMMA FirstOfShort ==
    ASSUME NEW s \in Seq(Nat), NEW n \in Nat, Len(s) <= n
    PROVE  FirstOf(s, n) = s
<1>1. Least(n, Len(s)) = Len(s)
    BY DEF Least
<1>2. SubSeq(s, 1, Len(s)) = s
    OBVIOUS
<1> QED BY <1>1, <1>2 DEF FirstOf

\* What is cut behind a text leaves the text.
LEMMA FirstOfJoined ==
    ASSUME NEW s \in Seq(Nat), NEW t \in Seq(Nat), NEW n \in Nat, Len(s) <= n
    PROVE  \E u \in Seq(Nat) : FirstOf(s \o t, n) = s \o u
<1> DEFINE j == s \o t
           m == Least(n, Len(j))
           f == SubSeq(j, 1, m)
           u == SubSeq(j, Len(s) + 1, m)
<1>1. j \in Seq(Nat) /\ Len(j) = Len(s) + Len(t) /\ \A i \in 1 .. Len(s) : j[i] = s[i]
    OBVIOUS
<1>2. Len(s) \in Nat /\ Len(t) \in Nat
    OBVIOUS
<1> HIDE DEF j
<1>3. m \in Nat /\ Len(s) <= m /\ m <= Len(j)
    BY <1>1, <1>2 DEF Least
<1> HIDE DEF m
<1>4. /\ f \in Seq(Nat) /\ Len(f) = m /\ \A i \in 1 .. m : f[i] = j[i]
      /\ u \in Seq(Nat) /\ Len(u) = m - Len(s) /\ \A i \in 1 .. m - Len(s) : u[i] = j[Len(s) + i]
    <2>1. f \in Seq(Nat) /\ Len(f) = m /\ \A i \in 1 .. m : f[i] = j[i]
        BY <1>1, <1>2, <1>3
    <2>2. PICK c \in Nat : c = Len(s) /\ c <= m
        BY <1>2, <1>3
    <2>3. PICK k \in Nat : k = c + 1
        BY <2>2
    <2>4. PICK e \in Nat : e = m /\ k >= 1 /\ k <= e + 1 /\ e <= Len(j) /\ c <= e
        BY <1>3, <2>2, <2>3
    <2>5. PICK v : v = SubSeq(j, k, e)
        OBVIOUS
    <2>6. v \in Seq(Nat) /\ Len(v) = e + 1 - k /\ \A x \in 1 .. e + 1 - k : v[x] = j[x + k - 1]
        <3>1. \A x \in k .. e : j[x] \in Nat
            BY <1>1, <2>4
        <3>2. /\ SubSeq(j, k, e) \in Seq(Nat)
              /\ Len(SubSeq(j, k, e)) = IF k <= e THEN e - k + 1 ELSE 0
              /\ \A x \in 1 .. e - k + 1 : SubSeq(j, k, e)[x] = j[k + x - 1]
            BY <3>1, SubSeqProperties
        <3>3. (IF k <= e THEN e - k + 1 ELSE 0) = e + 1 - k /\ e - k + 1 = e + 1 - k
            BY <2>4
        <3>4. \A x \in 1 .. e + 1 - k : k + x - 1 = x + k - 1
            OBVIOUS
        <3> QED BY <2>5, <3>2, <3>3, <3>4
    <2>7. e + 1 - k = e - c /\ \A x \in 1 .. e - c : x + k - 1 = c + x
        BY <2>3
    <2>8. \A x \in 1 .. e - c : v[x] = j[c + x]
        BY <2>6, <2>7
    <2>9. u = v
        BY <2>2, <2>3, <2>4, <2>5
    <2> HIDE DEF u
    <2> QED BY <2>1, <2>2, <2>4, <2>6, <2>7, <2>8, <2>9
<1> HIDE DEF f, u
<1> DEFINE b == s \o u
<1>5. /\ b \in Seq(Nat) /\ Len(b) = Len(s) + Len(u)
      /\ \A i \in 1 .. Len(s) + Len(u) : b[i] = IF i <= Len(s) THEN s[i] ELSE u[i - Len(s)]
    BY <1>4
<1> HIDE DEF b
<1>6. Len(f) = Len(b)
    BY <1>2, <1>3, <1>4, <1>5
<1>7. ASSUME NEW i \in 1 .. Len(f) PROVE f[i] = b[i]
    <2>1. i \in 1 .. m /\ i \in 1 .. Len(s) + Len(u) /\ f[i] = j[i]
        BY <1>2, <1>3, <1>4, <1>5, <1>6
    <2>2. CASE i <= Len(s)
        <3>1. i \in 1 .. Len(s)
            BY <1>2, <2>1, <2>2
        <3> QED BY <1>1, <1>5, <2>1, <2>2, <3>1
    <2>3. CASE ~(i <= Len(s))
        <3>1. i - Len(s) \in 1 .. m - Len(s) /\ Len(s) + (i - Len(s)) = i
            BY <1>2, <1>3, <2>1, <2>3
        <3>2. u[i - Len(s)] = j[i]
            BY <1>4, <3>1
        <3> QED BY <1>5, <2>1, <2>3, <3>2
    <2> QED BY <2>2, <2>3
<1>8. f = b
    BY <1>4, <1>5, <1>6, <1>7, SeqEqual
<1>9. FirstOf(s \o t, n) = f
    BY DEF FirstOf, f, m, j
<1> QED BY <1>4, <1>8, <1>9 DEF b

\* Arguments that do not fill their block keep their NUL; others are followed
\* by something.
LEMMA KeptFacts ==
    ASSUME NEW args \in Seq(Nat)
    PROVE  /\ Len(args) % 4 # 0 => KeptArguments(args) = {args}
           /\ \A kept \in KeptArguments(args) : \E g \in Seq(Nat) : kept = args \o g
<1>1. \A m \in Nat : m % 4 # 0 => ((0 + m + 3) \div 4) * 4 > m
    OBVIOUS
<1>2. Len(args) % 4 # 0 => KeptArguments(args) = {args}
    BY <1>1 DEF KeptArguments, MmAlloc, ALIGN_MEMORY, RtlStringLength
<1>3. ASSUME NEW kept \in KeptArguments(args) PROVE \E g \in Seq(Nat) : kept = args \o g
    <2>1. <<>> \in Seq(Nat) /\ args = args \o <<>>
        OBVIOUS
    <2>2. kept = args \/ \E g \in Garbage : kept = args \o g
        BY DEF KeptArguments
    <2> QED BY <2>1, <2>2, ArgumentsAssumption
<1> QED BY <1>2, <1>3

\* The numbers of forks have one digit, and the PIDs that are told are LONGs
\* that leave room for the NUL.
ArgumentsFit ==
    /\ N <= 10
    /\ \A pid \in PIDs : pid \in Positive /\ Len(snprintulong[pid]) % 4 # 0

\* A philosopher reads its forks and the PID of the waiter in its arguments.
LEMMA PhilosopherHears ==
    ASSUME ArgumentsFit, NEW i \in Philosopher, NEW pid \in PIDs
    PROVE  PhilosopherTold(i, pid) = {<<Left(i), Right(i), pid>>}
<1> DEFINE l == Left(i)
           r == Right(i)
           p == snprintulong[pid]
           h == <<l + Zero, Space, r + Zero, Space>>
           t == h \o p
<1>1. l \in 0 .. 9 /\ r \in 0 .. 9
    <2>1. N \in Nat /\ N <= 10 /\ i \in Nat /\ i < N /\ N > 0
        BY PhilosophersAssumption DEF ArgumentsFit, Philosopher
    <2>2. \A n, m \in Nat : n > 0 => m % n \in 0 .. n - 1
        OBVIOUS
    <2>3. (i + 1) % N \in 0 .. N - 1
        BY <2>1, <2>2
    <2> QED BY <2>1, <2>3 DEF Left, Right
<1>2. pid \in Positive /\ pid \in Ulong /\ Len(p) % 4 # 0
    BY PositiveFacts DEF ArgumentsFit
<1>3. p \in Seq(Nat) /\ Len(p) <= 10 /\ RtlAtoUL(p) = pid
    BY <1>2, UlongPrinted, TenDigits, AtoULPrinted
<1> HIDE DEF l, r, p
<1>4. h \in Seq(Nat) /\ Len(h) = 4 /\ h[1] = l + Zero /\ h[3] = r + Zero
    BY <1>1 DEF Zero, Space
<1> HIDE DEF h
<1>5. /\ t \in Seq(Nat) /\ Len(t) = 4 + Len(p) /\ t[1] = l + Zero /\ t[3] = r + Zero
      /\ Len(t) <= 24 /\ Len(t) <= 29
    <2>1. t \in Seq(Nat) /\ Len(t) = Len(h) + Len(p) /\ \A x \in 1 .. Len(h) : t[x] = h[x]
        <3>1. \A x \in 1 .. Len(h) + Len(p) : (h \o p)[x] = IF x <= Len(h) THEN h[x] ELSE p[x - Len(h)]
            BY <1>3, <1>4, ConcatProperties
        <3>2. h \o p \in Seq(Nat) /\ Len(h \o p) = Len(h) + Len(p)
            BY <1>3, <1>4, ConcatProperties
        <3>3. Len(h) \in Nat /\ Len(p) \in Nat
            BY <1>3, <1>4
        <3> QED BY <3>1, <3>2, <3>3
    <2>2. 1 \in 1 .. Len(h) /\ 3 \in 1 .. Len(h) /\ Len(p) \in Nat
        BY <1>3, <1>4
    <2> HIDE DEF t
    <2> QED BY <1>3, <1>4, <2>1, <2>2
<1>6. SubSeq(t, 5, Len(t)) = p
    <2>1. SubSeq(t, Len(h) + 1, Len(t)) = p
        BY <1>3, <1>4, SubSeqBehind
    <2>2. Len(h) + 1 = 5
        BY <1>4
    <2> QED BY <2>1, <2>2
<1>7. Len(t) % 4 # 0
    <2>1. \A m \in Nat : m % 4 # 0 => (4 + m) % 4 # 0
        OBVIOUS
    <2> QED BY <1>2, <1>3, <1>5, <2>1
<1>8. FormattedText(ThreeNumbers, <<l, r, pid>>) = t
    BY <1>1, <1>2, PhilosopherText DEF h, p
<1> HIDE DEF t
<1>9. WaiterArgs(l, r, pid) = t
    <2>1. 25 - 1 = 24
        OBVIOUS
    <2>2. FirstOf(t, 24) = t
        BY <1>5, FirstOfShort
    <2> QED BY <1>8, <2>1, <2>2 DEF WaiterArgs, RtlFormatString
<1>10. ArgumentsRead(t, 30) = {t}
    <2>1. KeptArguments(t) = {t}
        BY <1>5, <1>7, KeptFacts
    <2>2. 30 - 1 = 29 /\ FirstOf(t, 29) = t
        BY <1>5, FirstOfShort
    <2> QED BY <2>1, <2>2 DEF ArgumentsRead, PsCopyArgs
<1>11. PhilosopherReads(t) = <<l, r, pid>>
    <2>1. (l + Zero) - Zero = l /\ (r + Zero) - Zero = r
        BY <1>1 DEF Zero
    <2> QED BY <1>3, <1>5, <1>6, <2>1 DEF PhilosopherReads
<1>12. PhilosopherTold(i, pid) = {<<l, r, pid>>}
    BY <1>9, <1>10, <1>11 DEF PhilosopherTold, l, r
<1> QED BY <1>12 DEF l, r

\* The first number of a text of digits and something that begins with none.
LEMMA DigitsBegin ==
    ASSUME NEW t, IsNumeral(t), NEW r \in Seq(Nat), r = <<>> \/ ~Rtlappisdigit(r[1])
    PROVE  Digits(t \o r) = t
<1> DEFINE s == t \o r
           n == {i \in 0 .. Len(s) : \A j \in 1 .. i : Rtlappisdigit(s[j])}
           k == Len(t)
<1>1. t \in Seq(Nat) /\ k \in Nat /\ \A j \in 1 .. k : Rtlappisdigit(t[j])
    BY DEF IsNumeral
<1>2. /\ s \in Seq(Nat) /\ Len(s) = k + Len(r)
      /\ \A j \in 1 .. k + Len(r) : s[j] = IF j <= k THEN t[j] ELSE r[j - k]
    BY <1>1, ConcatProperties
<1>3. Len(r) \in Nat
    OBVIOUS
<1> HIDE DEF s, k
<1>4. \A j \in 1 .. k : s[j] = t[j]
    BY <1>1, <1>2, <1>3
<1>5. k \in n
    BY <1>1, <1>2, <1>3, <1>4
<1>6. \A j \in n : j <= k
    <2>1. ASSUME NEW j \in n, ~(j <= k) PROVE FALSE
        <3>1. k + 1 \in 1 .. j /\ k + 1 \in 1 .. k + Len(r) /\ r # <<>>
            BY <1>1, <1>2, <1>3, <2>1
        <3>2. s[k + 1] = r[1]
            <4>1. ~(k + 1 <= k) /\ (k + 1) - k = 1
                BY <1>1
            <4> QED BY <1>2, <3>1, <4>1
        <3>3. Rtlappisdigit(s[k + 1])
            BY <3>1
        <3> QED BY <3>1, <3>2, <3>3
    <2> QED BY <2>1
<1>7. (CHOOSE i \in n : \A j \in n : j <= i) = k
    <2>1. ASSUME NEW i \in n, \A j \in n : j <= i PROVE i = k
        <3>1. i \in Int /\ k <= i /\ i <= k
            BY <1>2, <1>5, <1>6, <2>1
        <3> QED BY <1>1, <3>1
    <2> HIDE DEF n
    <2> QED BY <1>5, <1>6, <2>1
<1>8. FirstOf(s, k) = t
    <2>1. Least(k, Len(s)) = k
        BY <1>1, <1>2, <1>3 DEF Least
    <2>2. PICK v : v = SubSeq(s, 1, k)
        OBVIOUS
    <2>3. v \in Seq(Nat) /\ Len(v) = k /\ \A j \in 1 .. k : v[j] = s[j]
        BY <1>1, <1>2, <1>3, <2>2
    <2>4. v = t
        <3>1. Len(v) = Len(t) /\ \A j \in 1 .. Len(v) : v[j] = t[j]
            BY <1>4, <2>3 DEF k
        <3> QED BY <1>1, <2>3, <3>1, SeqEqual
    <2> QED BY <2>1, <2>2, <2>4 DEF FirstOf
<1>9. Digits(s) = FirstOf(s, CHOOSE i \in n : \A j \in n : j <= i)
    BY DEF Digits
<1> HIDE DEF n
<1> QED BY <1>7, <1>8, <1>9 DEF s

\* Where the first digit is.
LEMMA FromDigitAt ==
    ASSUME NEW s \in Seq(Nat), NEW d \in 0 .. Len(s), d < Len(s), Rtlappisdigit(s[d + 1]),
           \A j \in 1 .. d : ~Rtlappisdigit(s[j])
    PROVE  FromDigit(s) = SubSeq(s, d + 1, Len(s))
<1> DEFINE n == {i \in 0 .. Len(s) : \A j \in 1 .. i : ~Rtlappisdigit(s[j])}
<1>1. d \in n
    OBVIOUS
<1>2. \A j \in n : j <= d
    <2>1. ASSUME NEW j \in n, ~(j <= d) PROVE FALSE
        <3>1. d + 1 \in 1 .. j
            BY <2>1
        <3>2. ~Rtlappisdigit(s[d + 1])
            BY <3>1
        <3> QED BY <3>2
    <2> QED BY <2>1
<1>3. (CHOOSE i \in n : \A j \in n : j <= i) = d
    <2>1. ASSUME NEW i \in n, \A j \in n : j <= i PROVE i = d
        <3>1. i \in Int /\ d <= i /\ i <= d
            BY <1>1, <1>2, <2>1
        <3> QED BY <3>1
    <2> HIDE DEF n
    <2> QED BY <1>1, <1>2, <2>1
<1>4. FromDigit(s) = SubSeq(s, 1 + CHOOSE i \in n : \A j \in n : j <= i, Len(s))
    BY DEF FromDigit
<1> HIDE DEF n
<1>5. FromDigit(s) = SubSeq(s, 1 + d, Len(s))
    BY <1>3, <1>4
<1>6. 1 + d = d + 1
    OBVIOUS
<1> QED BY <1>5, <1>6

\* The two numbers changeprio reads, whatever is behind them.
LEMMA TwoNumbersRead ==
    ASSUME NEW t, IsNumeral(t), NEW v, IsNumeral(v), NEW u \in Seq(Nat)
    PROVE  AppChangePrio(t \o (<<Space>> \o (v \o u))) = <<RtlAtoUL(t), RtlAtoUL(Digits(v \o u))>>
<1>1. /\ t \in Seq(Nat) /\ Len(t) \in Nat /\ Len(t) > 0 /\ Rtlappisdigit(t[1])
      /\ v \in Seq(Nat) /\ Len(v) \in Nat /\ Len(v) > 0 /\ Rtlappisdigit(v[1])
    <2>1. \A w : IsNumeral(w) => w \in Seq(Nat) /\ Len(w) \in Nat /\ Len(w) > 0
        BY DEF IsNumeral
    <2>2. \A w : IsNumeral(w) => Rtlappisdigit(w[1])
        BY <2>1 DEF IsNumeral
    <2> QED BY <2>1, <2>2
<1>2. PICK q \in Seq(Nat) : q = v \o u
    <2>1. v \o u \in Seq(Nat)
        BY <1>1, ConcatProperties
    <2> QED BY <2>1
<1>3. Len(q) \in Nat /\ Len(q) > 0 /\ Rtlappisdigit(q[1]) /\ q # <<>>
    <2>1. Len(q) = Len(v) + Len(u) /\ q[1] = v[1] /\ Len(u) \in Nat
        BY <1>1, <1>2
    <2> QED BY <1>1, <2>1
<1>4. PICK sp \in Seq(Nat) : sp = <<Space>> /\ Len(sp) = 1 /\ sp[1] = Space
    <2>1. <<Space>> \in Seq(Nat)
        BY DEF Space
    <2> QED BY <2>1
<1>5. PICK r \in Seq(Nat) : r = sp \o q
    <2>1. sp \o q \in Seq(Nat)
        BY ConcatProperties
    <2> QED BY <2>1
<1>6. Len(r) = 1 + Len(q) /\ r[1] = Space /\ r[2] = q[1]
    BY <1>2, <1>3, <1>4, <1>5
<1>7. ~Rtlappisdigit(Space)
    BY DEF Rtlappisdigit, Space, Zero, Nine
<1>8. PICK s \in Seq(Nat) : s = t \o r
    <2>1. t \o r \in Seq(Nat)
        BY <1>1, ConcatProperties
    <2> QED BY <2>1
<1>9. Len(s) = Len(t) + Len(r) /\ s[1] = t[1]
    <2>1. /\ Len(t \o r) = Len(t) + Len(r)
          /\ \A i \in 1 .. Len(t) + Len(r) : (t \o r)[i] = IF i <= Len(t) THEN t[i] ELSE r[i - Len(t)]
        BY <1>1, ConcatProperties
    <2>2. 1 \in 1 .. Len(t) + Len(r) /\ 1 <= Len(t)
        BY <1>1, <1>3, <1>6
    <2> QED BY <1>8, <2>1, <2>2
<1>10. FromDigit(s) = s
    <2>1. 0 \in 0 .. Len(s) /\ 0 < Len(s) /\ 0 + 1 = 1
        BY <1>1, <1>3, <1>6, <1>9
    <2>2. \A j \in 1 .. 0 : ~Rtlappisdigit(s[j])
        OBVIOUS
    <2>3. FromDigit(s) = SubSeq(s, 0 + 1, Len(s))
        BY <1>1, <1>8, <1>9, <2>1, <2>2, FromDigitAt
    <2>4. SubSeq(s, 1, Len(s)) = s
        BY <1>8
    <2> QED BY <2>1, <2>3, <2>4
<1>11. Digits(s) = t
    BY <1>5, <1>6, <1>7, <1>8, DigitsBegin
<1>12. SubSeq(s, Len(t) + 1, Len(s)) = r
    BY <1>1, <1>5, <1>8, SubSeqBehind
<1>13. FromDigit(r) = q
    <2>1. 1 \in 0 .. Len(r) /\ 1 < Len(r) /\ 1 + 1 = 2
        BY <1>3, <1>6
    <2>2. \A j \in 1 .. 1 : ~Rtlappisdigit(r[j])
        <3>1. \A j \in 1 .. 1 : j = 1
            OBVIOUS
        <3> QED BY <1>6, <1>7, <3>1
    <2>3. FromDigit(r) = SubSeq(r, 1 + 1, Len(r))
        BY <1>3, <1>5, <1>6, <2>1, <2>2, FromDigitAt
    <2>4. SubSeq(r, Len(sp) + 1, Len(r)) = q
        BY <1>2, <1>4, <1>5, SubSeqBehind
    <2> QED BY <1>4, <2>3, <2>4
<1>14. AppChangePrio(s) = <<RtlAtoUL(t), RtlAtoUL(Digits(q))>>
    <2>1. FromDigit(SubSeq(s, Len(Digits(s)) + 1, Len(s))) = q
        BY <1>11, <1>12, <1>13
    <2> QED BY <1>3, <1>10, <1>11, <2>1 DEF AppChangePrio
<1> QED BY <1>2, <1>4, <1>5, <1>8, <1>14
-----------------------------------------------------------------------------
\* What separates the number n from the one before it.
Between(n) == IF n = 1 THEN <<>> ELSE <<Space>>

\* The numbers of a line are ULONGs.
LEMMA NumbersOfLine ==
    ASSUME NEW line \in Lines
    PROVE  /\ line.numbers \in Seq(Ulong) /\ Len(line.numbers) \in Nat
           /\ \A n \in 1 .. Len(line.numbers) : line.numbers[n] \in Ulong
<1>1. PICK number : number = 0 .. LONG_RANGE - 1
    OBVIOUS
<1>2. PICK numbers \in Seq(number) : numbers = line.numbers
    BY <1>1, CommandsAssumption
<1>3. Len(numbers) \in Nat /\ \A n \in 1 .. Len(numbers) : numbers[n] \in number
    BY <1>2
<1> QED BY <1>1, <1>2, <1>3 DEF Ulong

\* first joins the texts of numbers, one after the other.
JoinsNumbers(first, numbers) ==
    /\ first[0] = <<>>
    /\ \A n \in 1 .. Len(numbers) :
          first[n] = first[n - 1] \o Between(n) \o snprintulong[numbers[n]]
    /\ \A n \in 0 .. Len(numbers) : first[n] \in Seq(Nat)

\* The recursion of NumbersTyped ends for every line.
LEMMA NumbersJoined ==
    ASSUME NEW line \in Lines
    PROVE  \E first : JoinsNumbers(first, line.numbers) /\ NumbersTyped(line) = first[Len(line.numbers)]
<1> DEFINE numbers == line.numbers
           size == Len(numbers)
           S == 0 .. size
           V == Seq(Nat)
           Value(g, n) == IF n = 0
                          THEN <<>>
                          ELSE g[n - 1] \o Between(n) \o snprintulong[numbers[n]]
           Body(g) == [n \in S |-> Value(g, n)]
           F == [g \in [S -> V] |-> Body(g)]
           rank == [n \in S |-> n]
<1>1. size \in Nat /\ \A n \in 1 .. size : snprintulong[numbers[n]] \in V
    <2>1. size \in Nat /\ \A n \in 1 .. size : numbers[n] \in Ulong
        BY NumbersOfLine
    <2>2. \A m \in Ulong : snprintulong[m] \in V
        BY UlongPrinted
    <2> HIDE DEF V, size, numbers
    <2> QED BY <2>1, <2>2
<1>2. <<>> \in V /\ <<Space>> \in V
    BY DEF Space
<1> HIDE DEF size, numbers
<1>3. ASSUME NEW n \in S, n # 0, NEW g, g[n - 1] \in V
      PROVE  g[n - 1] \o Between(n) \o snprintulong[numbers[n]] \in V
    <2>1. n \in 1 .. size
        BY <1>1, <1>3
    <2>2. PICK x \in V : x = snprintulong[numbers[n]]
        BY <1>1, <2>1
    <2>3. PICK y \in V : y = Between(n)
        <3> HIDE DEF V
        <3> QED BY <1>2 DEF Between
    <2>4. PICK z \in V : z = g[n - 1]
        BY <1>3
    <2>5. z \o y \o x \in V
        OBVIOUS
    <2> QED BY <2>2, <2>3, <2>4, <2>5
<1>4. rank \in [S -> Nat]
    BY <1>1
<1>5. \A n \in S : n # 0 => n - 1 \in S /\ rank[n - 1] < rank[n]
    BY <1>1
<1>6. F \in [[S -> V] -> [S -> V]]
    <2>1. ASSUME NEW g \in [S -> V], NEW n \in S PROVE Value(g, n) \in V
        <3>1. n # 0 => g[n - 1] \in V
            <4> HIDE DEF S, V
            <4> QED BY <1>5
        <3> HIDE DEF S, V
        <3> QED BY <1>2, <1>3, <3>1
    <2> HIDE DEF Value, V, S
    <2> QED BY <2>1
<1>7. IsRecursion(F, S, V, rank)
    <2>1. ASSUME NEW g \in [S -> V], NEW h \in [S -> V], NEW n \in S,
                 \A m \in S : rank[m] < rank[n] => g[m] = h[m]
          PROVE  F[g][n] = F[h][n]
        <3>1. n # 0 => g[n - 1] = h[n - 1]
            <4> HIDE DEF S, V, rank
            <4> QED BY <1>5, <2>1
        <3>2. Value(g, n) = Value(h, n)
            <4> HIDE DEF S, V, rank
            <4> QED BY <3>1
        <3> HIDE DEF Value, V, S
        <3> QED BY <3>2
    <2> HIDE DEF F, V, S, rank
    <2> QED BY <1>2, <1>4, <1>6, <2>1 DEF IsRecursion
<1>8. PICK f : IsRecursive(f, F, S, V)
    <2> HIDE DEF F, V, S, rank
    <2> QED BY <1>7, RecursionExists
<1>9. f = Body(f)
    <2> HIDE DEF V, S, Value
    <2> QED BY <1>8 DEF IsRecursive
<1> DEFINE first == CHOOSE g : g = Body(g)
<1>10. NumbersTyped(line) = first[size]
    BY DEF NumbersTyped, Between, size, numbers
<1>11. first = Body(first)
    <2> HIDE DEF Body
    <2> QED BY <1>9
<1> HIDE DEF first
<1>12. \A n \in S : first[n] = Value(first, n)
    <2> HIDE DEF S, Value
    <2> QED BY <1>11
<1>13. 0 \in S /\ first[0] = <<>>
    BY <1>1, <1>12
<1>14. \A n \in 1 .. size : first[n] = first[n - 1] \o Between(n) \o snprintulong[numbers[n]]
    <2>1. ASSUME NEW n \in 1 .. size PROVE n \in S /\ n # 0
        BY <1>1
    <2> HIDE DEF S
    <2> QED BY <1>12, <2>1
<1> DEFINE T == {n \in Nat : n <= size => first[n] \in V}
<1>15. 0 \in T
    BY <1>2, <1>13
<1>16. ASSUME NEW n \in Nat, n \in T PROVE n + 1 \in T
    <2> SUFFICES ASSUME n + 1 <= size PROVE first[n + 1] \in V
        OBVIOUS
    <2>1. n + 1 \in S /\ n + 1 # 0 /\ (n + 1) - 1 = n /\ n <= size /\ n + 1 \in 1 .. size
        BY <1>1
    <2>2. first[(n + 1) - 1] \in V
        BY <1>16, <2>1
    <2> HIDE DEF S, V
    <2>3. first[(n + 1) - 1] \o Between(n + 1) \o snprintulong[numbers[n + 1]] \in V
        BY <1>3, <2>1, <2>2
    <2> QED BY <1>14, <2>1, <2>3
<1>17. Nat \subseteq T
    <2> HIDE DEF T
    <2> QED BY <1>15, <1>16, NatSetInduction
<1>18. \A n \in 0 .. size : first[n] \in V
    BY <1>1, <1>17
<1> QED BY <1>10, <1>13, <1>14, <1>18 DEF JoinsNumbers, size, numbers

\* The text of no number, of one, and of two.
LEMMA NumbersTypedFacts ==
    ASSUME NEW line \in Lines
    PROVE  /\ NumbersTyped(line) \in Seq(Nat)
           /\ line.numbers = <<>> => NumbersTyped(line) = <<>>
           /\ Len(line.numbers) = 1 => NumbersTyped(line) = snprintulong[line.numbers[1]]
           /\ Len(line.numbers) = 2 =>
                 NumbersTyped(line) = snprintulong[line.numbers[1]] \o <<Space>>
                                                                    \o snprintulong[line.numbers[2]]
<1> DEFINE numbers == line.numbers
<1>1. PICK first : JoinsNumbers(first, numbers) /\ NumbersTyped(line) = first[Len(numbers)]
    BY NumbersJoined
<1>2. Len(numbers) \in Nat /\ \A n \in 1 .. Len(numbers) : numbers[n] \in Ulong
    BY NumbersOfLine
<1>3. NumbersTyped(line) \in Seq(Nat)
    <2>1. Len(numbers) \in 0 .. Len(numbers)
        BY <1>2
    <2> HIDE DEF numbers
    <2> QED BY <1>1, <2>1 DEF JoinsNumbers
<1>4. ASSUME numbers = <<>> PROVE NumbersTyped(line) = <<>>
    <2>1. Len(numbers) = 0
        BY <1>4
    <2> HIDE DEF numbers
    <2> QED BY <1>1, <2>1 DEF JoinsNumbers
<1> HIDE DEF numbers
<1>5. ASSUME NEW n \in 1 .. Len(numbers) PROVE snprintulong[numbers[n]] \in Seq(Nat)
    BY <1>2, <1>5, UlongPrinted
<1>6. ASSUME 1 \in 1 .. Len(numbers) PROVE first[1] = snprintulong[numbers[1]]
    <2>1. first[1] = first[1 - 1] \o Between(1) \o snprintulong[numbers[1]] /\ first[0] = <<>>
        BY <1>1, <1>6 DEF JoinsNumbers
    <2>2. 1 - 1 = 0 /\ Between(1) = <<>>
        BY DEF Between
    <2>3. PICK x \in Seq(Nat) : x = snprintulong[numbers[1]]
        BY <1>5, <1>6
    <2>4. <<>> \o <<>> \o x = x
        OBVIOUS
    <2> QED BY <2>1, <2>2, <2>3, <2>4
<1>7. ASSUME Len(numbers) = 1 PROVE NumbersTyped(line) = snprintulong[numbers[1]]
    <2>1. 1 \in 1 .. Len(numbers)
        BY <1>7
    <2> QED BY <1>1, <1>6, <1>7, <2>1
<1>8. ASSUME Len(numbers) = 2
      PROVE  NumbersTyped(line) = snprintulong[numbers[1]] \o <<Space>> \o snprintulong[numbers[2]]
    <2>1. 1 \in 1 .. Len(numbers) /\ 2 \in 1 .. Len(numbers)
        BY <1>8
    <2>2. first[2] = first[2 - 1] \o Between(2) \o snprintulong[numbers[2]]
        BY <1>1, <2>1 DEF JoinsNumbers
    <2>3. 2 - 1 = 1 /\ Between(2) = <<Space>>
        BY DEF Between
    <2> QED BY <1>1, <1>6, <1>8, <2>1, <2>2, <2>3
<1> QED BY <1>3, <1>4, <1>7, <1>8 DEF numbers

\* The PID that reaches kill.
LEMMA KillHears ==
    ASSUME NEW line \in Lines, Len(line.numbers) = 1, Len(NumbersTyped(line)) % 4 # 0,
           NEW kept \in KeptArguments(NumbersTyped(line))
    PROVE  AppKill(PsCopyArgs(kept, 25)) = line.numbers
<1> DEFINE numbers == line.numbers
           t == NumbersTyped(line)
<1>1. numbers \in Seq(Ulong) /\ Len(numbers) = 1 /\ numbers[1] \in Ulong
    BY NumbersOfLine
<1>2. t = snprintulong[numbers[1]]
    BY NumbersTypedFacts
<1> HIDE DEF numbers
<1>3. t \in Seq(Nat) /\ t # <<>> /\ Len(t) <= 10 /\ RtlAtoUL(t) = numbers[1]
    BY <1>1, <1>2, PrintedIsNumeral, TenDigits, AtoULPrinted DEF IsNumeral
<1>4. kept = t
    BY <1>3, KeptFacts
<1> HIDE DEF t
<1>5. PsCopyArgs(kept, 25) = t
    <2>1. 25 - 1 = 24 /\ Len(t) <= 24
        BY <1>3
    <2>2. FirstOf(t, 24) = t
        BY <1>3, <2>1, FirstOfShort
    <2> QED BY <1>4, <2>1, <2>2 DEF PsCopyArgs
<1>6. AppKill(t) = <<numbers[1]>>
    BY <1>3 DEF AppKill
<1>7. numbers = <<numbers[1]>>
    BY <1>1
<1> QED BY <1>5, <1>6, <1>7 DEF numbers

\* The PID, and the priority unless something follows it, that reach changeprio.
LEMMA ChangePrioHears ==
    ASSUME NEW line \in Lines, Len(line.numbers) = 2,
           NEW kept \in KeptArguments(NumbersTyped(line))
    PROVE  /\ AppChangePrio(PsCopyArgs(kept, 25))[1] = line.numbers[1]
           /\ Len(NumbersTyped(line)) % 4 # 0 => AppChangePrio(PsCopyArgs(kept, 25)) = line.numbers
<1> DEFINE numbers == line.numbers
           a == NumbersTyped(line)
           t == snprintulong[numbers[1]]
           v == snprintulong[numbers[2]]
           sp == <<Space>>
<1>1. numbers \in Seq(Ulong) /\ Len(numbers) = 2 /\ numbers[1] \in Ulong /\ numbers[2] \in Ulong
    BY NumbersOfLine
<1>2. a = t \o sp \o v
    BY NumbersTypedFacts
<1> HIDE DEF numbers
<1>3. /\ IsNumeral(t) /\ t \in Seq(Nat) /\ Len(t) <= 10 /\ RtlAtoUL(t) = numbers[1]
      /\ IsNumeral(v) /\ v \in Seq(Nat) /\ Len(v) <= 10 /\ RtlAtoUL(v) = numbers[2]
    BY <1>1, PrintedIsNumeral, TenDigits, AtoULPrinted DEF IsNumeral
<1> HIDE DEF a, t, v
<1>4. sp \in Seq(Nat) /\ Len(sp) = 1
    BY DEF Space
<1> HIDE DEF sp
<1>5. PICK w \in Seq(Nat) : w = t \o sp /\ Len(w) = Len(t) + 1
    <2>1. t \o sp \in Seq(Nat) /\ Len(t \o sp) = Len(t) + Len(sp)
        BY <1>3, <1>4, ConcatProperties
    <2> QED BY <1>4, <2>1
<1>6. a \in Seq(Nat) /\ Len(a) <= 24
    <2>1. a = w \o v
        BY <1>2, <1>5
    <2>2. w \o v \in Seq(Nat) /\ Len(w \o v) = Len(w) + Len(v)
        BY <1>3, <1>5, ConcatProperties
    <2>3. Len(t) \in Nat /\ Len(v) \in Nat
        BY <1>3
    <2> QED BY <1>3, <1>5, <2>1, <2>2, <2>3
<1>7. ASSUME NEW u \in Seq(Nat)
      PROVE  AppChangePrio(a \o u) = <<numbers[1], RtlAtoUL(Digits(v \o u))>>
    <2>1. PICK q \in Seq(Nat) : q = v \o u
        <3>1. v \o u \in Seq(Nat)
            BY <1>3, ConcatProperties
        <3> QED BY <3>1
    <2>2. (w \o v) \o u = w \o q
        <3>1. (w \o v) \o u = w \o (v \o u)
            <4>1. v \in Seq(Nat)
                BY <1>3
            <4> QED BY <4>1, ConcatAssociative
        <3> QED BY <2>1, <3>1
    <2>3. w \o q = t \o (sp \o q)
        <3>1. (t \o sp) \o q = t \o (sp \o q)
            <4>1. t \in Seq(Nat) /\ sp \in Seq(Nat)
                BY <1>3, <1>4
            <4> QED BY <4>1, ConcatAssociative
        <3> QED BY <1>5, <3>1
    <2>4. a \o u = t \o (sp \o (v \o u))
        BY <1>2, <1>5, <2>1, <2>2, <2>3
    <2>5. AppChangePrio(t \o (sp \o (v \o u))) = <<RtlAtoUL(t), RtlAtoUL(Digits(v \o u))>>
        BY <1>3, <1>7, TwoNumbersRead DEF sp
    <2> QED BY <1>3, <2>4, <2>5
<1>8. 25 - 1 = 24
    OBVIOUS
<1>9. AppChangePrio(PsCopyArgs(kept, 25))[1] = numbers[1]
    <2>1. PICK g \in Seq(Nat) : kept = a \o g
        BY <1>6, KeptFacts DEF a
    <2>2. PICK u \in Seq(Nat) : FirstOf(a \o g, 24) = a \o u
        BY <1>6, <2>1, FirstOfJoined
    <2>3. AppChangePrio(PsCopyArgs(kept, 25)) = <<numbers[1], RtlAtoUL(Digits(v \o u))>>
        BY <1>7, <1>8, <2>1, <2>2 DEF PsCopyArgs
    <2> QED BY <2>3
<1>10. ASSUME Len(a) % 4 # 0 PROVE AppChangePrio(PsCopyArgs(kept, 25)) = numbers
    <2>1. kept = a
        BY <1>6, <1>10, KeptFacts DEF a
    <2>2. FirstOf(a, 24) = a
        BY <1>6, FirstOfShort
    <2>3. a \o <<>> = a /\ v \o <<>> = v /\ <<>> \in Seq(Nat)
        BY <1>3, <1>6
    <2>4. Digits(v \o <<>>) = v
        BY <1>3, <2>3, DigitsBegin
    <2>5. AppChangePrio(a \o <<>>) = <<numbers[1], RtlAtoUL(Digits(v \o <<>>))>>
        BY <1>7, <2>3
    <2>6. AppChangePrio(PsCopyArgs(kept, 25)) = <<numbers[1], numbers[2]>>
        BY <1>3, <1>8, <2>1, <2>2, <2>3, <2>4, <2>5 DEF PsCopyArgs
    <2>7. numbers = <<numbers[1], numbers[2]>>
        BY <1>1
    <2> QED BY <2>6, <2>7
<1> QED BY <1>9, <1>10 DEF numbers, a
-----------------------------------------------------------------------------
\* The shell takes the word of a line for the command, and what follows the
\* first space for its arguments.
LEMMA SplitTakesWord ==
    ASSUME NEW line \in Lines
    PROVE  /\ split(Typed(line)).command = line.word
           /\ split(Typed(line)).argument = NumbersTyped(line)
<1> DEFINE w == line.word
           t == Typed(line)
           spaces == {i \in DOMAIN t : t[i] = Space}
<1>1. w \in Seq(Nat) /\ Len(w) \in Nat /\ DOMAIN w = 1 .. Len(w) /\ \A i \in DOMAIN w : w[i] # Space
    BY CommandsAssumption
<1>2. CASE line.numbers = <<>>
    <2>1. t = w
        BY <1>2 DEF Typed
    <2>2. spaces = {}
        BY <1>1, <2>1
    <2>3. NumbersTyped(line) = <<>>
        BY <1>2, NumbersTypedFacts
    <2>4. QED
        BY <2>1, <2>2, <2>3 DEF split
<1>3. CASE line.numbers # <<>>
    <2>1. t = w \o <<Space>> \o NumbersTyped(line)
        BY <1>3 DEF Typed
    <2> DEFINE n == Len(w) + 1
    <2>2. PICK x \in Seq(Nat) : x = NumbersTyped(line)
        BY NumbersTypedFacts
    <2>3. /\ t \in Seq(Nat) /\ Len(t) = Len(w) + 1 + Len(x) /\ Len(x) \in Nat
          /\ DOMAIN t = 1 .. Len(t)
          /\ t[n] = Space
          /\ \A i \in 1 .. Len(w) : t[i] = w[i]
        <3>1. Space \in Nat
            BY DEF Space
        <3> HIDE DEF t, w
        <3>2. QED
            BY <1>1, <2>1, <2>2, <3>1
    <2> HIDE DEF t
    <2>4. n \in spaces /\ \A j \in spaces : n <= j
        <3>1. n \in DOMAIN t
            BY <1>1, <2>3
        <3>2. ASSUME NEW j \in DOMAIN t, t[j] = Space PROVE n <= j
            <4>1. j \in Nat /\ j >= 1
                BY <2>3
            <4>2. j \notin 1 .. Len(w)
                BY <1>1, <2>3, <3>2
            <4>3. QED
                BY <1>1, <4>1, <4>2
        <3>3. QED
            BY <2>3, <3>1, <3>2
    <2>5. (CHOOSE i \in spaces : \A j \in spaces : i <= j) = n
        <3>1. \A i \in spaces : i \in Nat
            BY <2>3
        <3>2. ASSUME NEW i \in spaces, \A j \in spaces : i <= j PROVE i = n
            BY <1>1, <2>4, <3>1, <3>2
        <3> HIDE DEF spaces, n
        <3>3. QED
            BY <2>4, <3>2
    <2>6. FirstOf(t, n - 1) = w
        <3>1. n - 1 = Len(w) /\ Least(n - 1, Len(t)) = Len(w)
            BY <1>1, <2>3 DEF Least
        <3>2. FirstOf(t, n - 1) = SubSeq(t, 1, Len(w))
            BY <3>1 DEF FirstOf
        <3>3. SubSeq(t, 1, Len(w)) = w
            <4> HIDE DEF w
            <4>1. QED
                BY <1>1, <2>3
        <3>4. QED
            BY <3>2, <3>3
    <2>7. SubSeq(t, n + 1, Len(t)) = x
        <3>1. PICK sp \in Seq(Nat) : sp = <<Space>> /\ Len(sp) = 1
            <4>1. <<Space>> \in Seq(Nat)
                BY DEF Space
            <4>2. QED
                BY <4>1
        <3>2. PICK h \in Seq(Nat) : h = w \o sp /\ Len(h) = n
            <4>1. w \o sp \in Seq(Nat) /\ Len(w \o sp) = Len(w) + Len(sp)
                BY <1>1, ConcatProperties
            <4>2. QED
                BY <3>1, <4>1
        <3>3. t = h \o x
            BY <2>1, <2>2, <3>1, <3>2
        <3>4. SubSeq(h \o x, Len(h) + 1, Len(h \o x)) = x
            BY SubSeqBehind
        <3>5. QED
            BY <3>2, <3>3, <3>4
    <2>8. spaces # {}
        BY <2>4
    <2> HIDE DEF n
    <2>9. split(t).command = FirstOf(t, n - 1) /\ split(t).argument = SubSeq(t, n + 1, Len(t))
        BY <2>5, <2>8 DEF split
    <2>10. QED
        BY <2>2, <2>6, <2>7, <2>9 DEF t
<1>4. QED
    BY <1>2, <1>3

\* A comparison takes the beginnings of a string for equal to it, but not those
\* that are as long.
LEMMA FoundHasTheName ==
    ASSUME NEW name \in Seq(Nat)
    PROVE  GetProgramAdress(name) = {i \in DOMAIN PsAvailApps : PsAvailApps[i].Name = name}
<1>1. ASSUME NEW i \in DOMAIN PsAvailApps
      PROVE  /\ RtlStringLength(PsAvailApps[i].Name) = RtlStringLength(name)
             /\ RtlCompareStrings(PsAvailApps[i].Name, name) = 0
             <=> PsAvailApps[i].Name = name
    <2> DEFINE n == PsAvailApps[i].Name
               differ == {j \in DOMAIN name : CharAt(n, j) # name[j]}
    <2>1. n \in Seq(Nat) /\ Len(n) \in Nat /\ DOMAIN n = 1 .. Len(n)
        <3>1. PICK app : app = [Name : Seq(Nat), Execute : STRING]
            OBVIOUS
        <3>2. PsAvailApps \in Seq(app)
            BY <3>1, ArgumentsAssumption
        <3>3. PsAvailApps[i] \in app
            BY <3>2
        <3>4. n \in Seq(Nat)
            BY <3>1, <3>3
        <3> HIDE DEF n
        <3>5. QED
            BY <3>4
    <2> HIDE DEF n
    <2>2. RtlCompareStrings(n, name) = 0 <=> differ = {}
        BY DEF RtlCompareStrings
    <2>3. ASSUME Len(n) = Len(name), differ = {} PROVE n = name
        <3>1. \A j \in 1 .. Len(n) : n[j] = name[j]
            BY <2>1, <2>3 DEF CharAt
        <3>2. QED
            BY <2>1, <2>3, <3>1
    <2>4. ASSUME n = name PROVE Len(n) = Len(name) /\ differ = {}
        BY <2>4 DEF CharAt
    <2>5. QED
        BY <2>2, <2>3, <2>4 DEF RtlStringLength, n
<1>2. QED
    BY <1>1 DEF GetProgramAdress
-----------------------------------------------------------------------------
\* The numbers kill and changeprio read are those of the line, as far as the NUL
\* behind them is kept.
Heard(program, line, numbers) ==
    LET execute  == PsAvailApps[program].Execute
        keepsNUL == Len(NumbersTyped(line)) % 4 # 0
    IN  /\ execute = "AppKill" /\ Len(line.numbers) = 1 /\ keepsNUL => numbers = line.numbers
        /\ execute = "AppChangePrio" /\ Len(line.numbers) = 2 =>
              /\ numbers[1] = line.numbers[1]
              /\ keepsNUL => numbers = line.numbers

\* The two programs hear their numbers, whichever block holds the arguments.
LEMMA ProgramHears ==
    ASSUME NEW line \in Lines, NEW kept \in KeptArguments(NumbersTyped(line)), NEW program
    PROVE  Heard(program, line, NumbersRead(program, kept))
<1> DEFINE execute == PsAvailApps[program].Execute
<1>1. ASSUME execute = "AppKill", Len(line.numbers) = 1, Len(NumbersTyped(line)) % 4 # 0
      PROVE  NumbersRead(program, kept) = line.numbers
    <2>1. NumbersRead(program, kept) = AppKill(PsCopyArgs(kept, 25))
        BY <1>1 DEF NumbersRead
    <2>2. QED
        BY <1>1, <2>1, KillHears
<1>2. ASSUME execute = "AppChangePrio", Len(line.numbers) = 2
      PROVE  /\ NumbersRead(program, kept)[1] = line.numbers[1]
             /\ Len(NumbersTyped(line)) % 4 # 0 => NumbersRead(program, kept) = line.numbers
    <2>1. "AppChangePrio" # "AppKill"
        OBVIOUS
    <2>2. NumbersRead(program, kept) = AppChangePrio(PsCopyArgs(kept, 25))
        BY <1>2, <2>1 DEF NumbersRead
    <2>3. QED
        BY <1>2, <2>2, ChangePrioHears
<1>3. QED
    BY <1>1, <1>2 DEF Heard

\* The arguments a program finds are those of its line, but for what may follow
\* them, and the numbers it reads in them arrive.
ArgumentsKept ==
    /\ shell.step = "created" => shell.args \in KeptArguments(NumbersTyped(shell.line))
    /\ shell.step = "running" => Heard(shell.program, shell.line, shell.numbers)

\* What the shell is at, and, once a program is there, which.
ShellInv ==
    /\ shell.step \in {"reading", "created", "unknown", "running", "dinner", "gone"}
    /\ shell.step # "gone" => shell.line \in Lines
    /\ ProgramsFoundByName
    /\ ArgumentsKept

\* The shell creates the program of the name typed, or finds that there is none.
LEMMA RunCommandInv == ASSUME ShellInv, RunCommand PROVE ShellInv'
<1> DEFINE line  == shell.line
           name  == line.word
           found == GetProgramAdress(split(Typed(line)).command)
<1>1. line \in Lines /\ name \in Seq(Nat)
    BY CommandsAssumption DEF RunCommand, ShellInv
<1>2. found = {i \in DOMAIN PsAvailApps : PsAvailApps[i].Name = name}
    BY <1>1, SplitTakesWord, FoundHasTheName
<1> HIDE DEF found
<1>3. CASE shell' = [step |-> "gone"]
    BY <1>3 DEF ShellInv, ProgramsFoundByName, ArgumentsKept
<1>4. CASE found = {} /\ shell' = [step |-> "unknown", line |-> line]
    BY <1>1, <1>2, <1>4 DEF ShellInv, ProgramsFoundByName, ArgumentsKept
<1>5. CASE /\ found # {}
           /\ \E kept \in KeptArguments(NumbersTyped(line)) :
                              shell' = [step |-> "created", line |-> line,
                                  program |-> CHOOSE i \in found : \A j \in found : i <= j,
                                  args |-> kept]
    <2> DEFINE program == CHOOSE i \in found : \A j \in found : i <= j
    <2>1. program \in found
        <3>1. found \subseteq Nat
            BY <1>2, ArgumentsAssumption
        <3>2. QED
            BY <1>5, <3>1, LeastOfNat
    <2> HIDE DEF program
    <2>2. /\ shell'.step = "created" /\ shell'.line = line /\ shell'.program = program
          /\ shell'.args \in KeptArguments(NumbersTyped(line))
        BY <1>5 DEF program
    <2>3. QED
        BY <1>1, <1>2, <2>1, <2>2 DEF ShellInv, ProgramsFoundByName, ArgumentsKept
<1>6. split(Typed(line)).argument = NumbersTyped(line)
    BY <1>1, SplitTakesWord
<1>7. \/ shell' = [step |-> "gone"]
      \/ found = {} /\ shell' = [step |-> "unknown", line |-> line]
      \/ /\ found # {}
         /\ \E kept \in KeptArguments(split(Typed(line)).argument) :
                shell' = [step |-> "created", line |-> line,
                          program |-> CHOOSE i \in found : \A j \in found : i <= j,
                          args |-> kept]
    BY Zenon DEF RunCommand, found
<1>8. QED
    BY <1>3, <1>4, <1>5, <1>6, <1>7, Zenon

\* Every step keeps the invariant of the shell.
LEMMA ShellStep == ASSUME ShellInv, [CommandsNext]_commandVars PROVE ShellInv'
<1>1. ASSUME RunCommand PROVE ShellInv'
    BY <1>1, RunCommandInv
<1>2. ASSUME StartProgram PROVE ShellInv'
    <2>1. /\ shell'.line = shell.line /\ shell'.program = shell.program
          /\ shell'.step \in {"running", "dinner"}
          /\ shell'.numbers = NumbersRead(shell.program, shell.args)
        BY <1>2 DEF StartProgram
    <2>2. Heard(shell.program, shell.line, NumbersRead(shell.program, shell.args))
        <3>1. shell.line \in Lines /\ shell.args \in KeptArguments(NumbersTyped(shell.line))
            BY <1>2 DEF StartProgram, ShellInv, ArgumentsKept
        <3>2. QED
            BY <3>1, ProgramHears
    <2>3. ArgumentsKept'
        BY <2>1, <2>2 DEF ArgumentsKept
    <2>4. QED
        BY <1>2, <2>1, <2>3 DEF StartProgram, ShellInv, ProgramsFoundByName
<1>3. ASSUME NextCommand PROVE ShellInv'
    BY <1>3 DEF NextCommand, Reading, ShellInv, ProgramsFoundByName, ArgumentsKept
<1>4. ASSUME UNCHANGED shell PROVE ShellInv'
    BY <1>4 DEF ShellInv, ProgramsFoundByName, ArgumentsKept
<1>5. QED
    BY <1>1, <1>2, <1>3, <1>4
       DEF CommandsNext, NoShell, WaiterTurn, PhilosopherTurn, EndOfDinner, commandVars

\* ShellInv is an invariant of the shell.
LEMMA ShellInvariant == CommandsSpec => []ShellInv
<1>1. CommandsInit => ShellInv
    BY DEF CommandsInit, Reading, ShellInv, ProgramsFoundByName, ArgumentsKept
<1>2. ShellInv /\ [CommandsNext]_commandVars => ShellInv'
    BY ShellStep
<1>3. QED
    BY <1>1, <1>2, PTL DEF CommandsSpec

\* Whatever programs there are, and whatever is typed behind the word: a command
\* runs the program of that name, and none if there is none.
THEOREM ProgramsAlwaysFoundByName == CommandsSpec => []ProgramsFoundByName
<1>1. ShellInv => ProgramsFoundByName
    BY DEF ShellInv
<1>2. QED
    BY <1>1, ShellInvariant, PTL

\* Whatever is typed and whatever stands behind the blocks of arguments: the
\* numbers arrive at kill and changeprio as far as ArgumentsArrive says, and at
\* the philosophers if the arguments made for them fit.
THEOREM ArgumentsAlwaysArrive == ArgumentsFit => (CommandsSpec => []ArgumentsArrive)
<1> SUFFICES ASSUME ArgumentsFit PROVE CommandsSpec => []ArgumentsArrive
    OBVIOUS
<1>1. \A i \in Philosopher : \A pid \in PIDs : Told[i][pid] = {<<Left(i), Right(i), pid>>}
    <2>1. \A i \in Philosopher : \A pid \in PIDs : Told[i][pid] = PhilosopherTold(i, pid)
        BY DEF Told
    <2>2. QED
        BY <2>1, PhilosopherHears
<1>2. ShellInv => ArgumentsArrive
    <2>1. ShellInv /\ shell.step = "running" => Heard(shell.program, shell.line, shell.numbers)
        BY DEF ShellInv, ArgumentsKept
    <2>2. QED
        BY <1>1, <2>1, Zenon DEF ArgumentsArrive, Heard
<1>3. QED
    BY <1>2, ShellInvariant, PTL
=============================================================================
