------------------------------ MODULE ListFacts ------------------------------
(***************************************************************************)
(* Facts about the operators on lists the model is built from: what        *)
(* linking a process into a list and unlinking it do to the set of         *)
(* processes on the list and to the rule that none is on it twice; what    *)
(* joining lists leaves; and induction over the natural numbers, and the   *)
(* existence of functions defined by recursion, in the form the provers    *)
(* can use.                                                                *)
(***************************************************************************)
EXTENDS Naturals, Sequences, SequencesExt, SequenceTheorems,
        FiniteSetTheorems, WellFoundedInduction, TLAPS

\* IsInjective(list): no element of the list is at two places.
-----------------------------------------------------------------------------
\* Induction over the naturals for a set: the proof takes a least number
\* outside the set as a minimal one among finite initial segments.
LEMMA NatSetInduction ==
    ASSUME NEW S, 0 \in S, \A n \in Nat : n \in S => n + 1 \in S
    PROVE  Nat \subseteq S
<1> SUFFICES ASSUME NEW m \in Nat, m \notin S PROVE FALSE
    OBVIOUS
<1> DEFINE U == {n \in 0 .. m : n \notin S}
           T == {0 .. n : n \in U}
<1>1. IsFiniteSet(0 .. m)
    BY FS_Interval
<1>2. T # {} /\ T \subseteq SUBSET (0 .. m)
    <2>1. 0 .. m \in T
        OBVIOUS
    <2> QED BY <2>1
<1>3. IsWellFoundedOn(StrictSubsetOrdering(0 .. m), SUBSET (0 .. m))
    BY <1>1, FS_StrictSubsetOrderingWellFounded, FS_FiniteSubsetsOfFinite
<1>4. PICK x \in T : \A y \in T : ~(<<y, x>> \in StrictSubsetOrdering(0 .. m))
    <2> HIDE DEF T
    <2> QED BY <1>2, <1>3, WFMin, Zenon
<1>5. PICK k \in U : x = 0 .. k
    BY <1>4
<1>6. k \in Nat /\ k # 0 /\ k - 1 \in 0 .. m /\ (k - 1) + 1 = k /\ k \notin S
    OBVIOUS
<1>7. 0 .. (k - 1) \in T
    BY <1>6
<1>8. <<0 .. (k - 1), 0 .. k>> \in StrictSubsetOrdering(0 .. m)
    <2>1. k \in 0 .. k /\ k \notin 0 .. (k - 1)
        BY <1>6
    <2>2. /\ 0 .. (k - 1) \subseteq 0 .. k /\ 0 .. (k - 1) # 0 .. k
          /\ 0 .. k \in SUBSET (0 .. m) /\ 0 .. (k - 1) \in SUBSET (0 .. m)
        BY <1>6, <2>1
    <2> QED BY <2>2 DEF StrictSubsetOrdering
<1> QED BY <1>4, <1>5, <1>7, <1>8

\* A set of natural numbers that is not empty has a least element.
LEMMA LeastOfNat ==
    ASSUME NEW S, S \subseteq Nat, S # {}
    PROVE  \E m \in S : \A n \in S : m <= n
<1> SUFFICES ASSUME \A m \in S : \E n \in S : n < m PROVE FALSE
    OBVIOUS
<1> DEFINE B == {m \in Nat : \A n \in S : n > m}
<1>1. 0 \in B
    <2> SUFFICES ASSUME 0 \in S PROVE FALSE
        OBVIOUS
    <2> QED OBVIOUS
<1>2. \A m \in Nat : m \in B => m + 1 \in B
    <2> SUFFICES ASSUME NEW m \in Nat, m \in B, NEW n \in S, n <= m + 1 PROVE FALSE
        OBVIOUS
    <2>1. n = m + 1
        OBVIOUS
    <2>2. PICK l \in S : l < n
        OBVIOUS
    <2> QED BY <2>1, <2>2
<1>3. Nat \subseteq B
    <2> HIDE DEF B
    <2> QED BY <1>1, <1>2, NatSetInduction
<1>4. PICK n \in S : TRUE
    OBVIOUS
<1>5. n \in Nat /\ n > n
    BY <1>3, <1>4
<1> QED BY <1>5

\* A set of naturals up to some bound that is not empty has a greatest one.
LEMMA GreatestOfNat ==
    ASSUME NEW N \in Nat, NEW S, S \subseteq 0 .. N, S # {}
    PROVE  \E m \in S : \A n \in S : n <= m
<1> DEFINE D == {N - n : n \in S}
<1>1. D \subseteq Nat /\ D # {}
    <2>1. \A n \in S : N - n \in Nat
        OBVIOUS
    <2>2. PICK n \in S : TRUE
        OBVIOUS
    <2>3. N - n \in D
        BY <2>2
    <2> QED BY <2>1, <2>3
<1>2. PICK d \in D : \A e \in D : d <= e
    <2> HIDE DEF D
    <2> QED BY <1>1, LeastOfNat
<1>3. PICK m \in S : d = N - m
    BY <1>2
<1>4. ASSUME NEW n \in S PROVE n <= m
    <2>1. N - m <= N - n
        BY <1>2, <1>3
    <2> QED BY <2>1
<1> QED BY <1>4
-----------------------------------------------------------------------------
\* Linking an element behind the last one.
LEMMA AppendFacts ==
    ASSUME NEW P, NEW L \in Seq(P), NEW p \in P
    PROVE  /\ Append(L, p) \in Seq(P)
           /\ Append(L, p) # <<>>
           /\ \A x : Contains(Append(L, p), x) <=> Contains(L, x) \/ x = p
           /\ IsInjective(L) /\ ~Contains(L, p) => IsInjective(Append(L, p))
<1> DEFINE A == Append(L, p)
<1>1. /\ A \in Seq(P) /\ Len(A) = Len(L) + 1 /\ A[Len(L) + 1] = p
      /\ \A i \in 1 .. Len(L) : A[i] = L[i]
    OBVIOUS
<1>2. DOMAIN A = 1 .. Len(L) + 1 /\ DOMAIN L = 1 .. Len(L) /\ Len(L) \in Nat
    BY <1>1
<1> HIDE DEF A
<1>3. A # <<>>
    BY <1>1
<1>4. ASSUME NEW x PROVE Contains(A, x) <=> Contains(L, x) \/ x = p
    BY <1>1, <1>2 DEF Contains
<1>5. ASSUME IsInjective(L), ~Contains(L, p) PROVE IsInjective(A)
    BY <1>1, <1>2, <1>5 DEF Contains, IsInjective
<1> QED BY <1>1, <1>3, <1>4, <1>5 DEF A

\* Taking the first element off a list.
LEMMA TailFacts ==
    ASSUME NEW P, NEW L \in Seq(P), L # <<>>
    PROVE  /\ Head(L) \in P /\ Contains(L, Head(L))
           /\ Tail(L) \in Seq(P)
           /\ IsInjective(L) =>
                /\ IsInjective(Tail(L))
                /\ \A x : Contains(Tail(L), x) <=> Contains(L, x) /\ x # Head(L)
<1> DEFINE T == Tail(L)
<1>1. /\ T \in Seq(P) /\ Len(T) = Len(L) - 1 /\ Head(L) = L[1]
      /\ \A i \in 1 .. Len(T) : T[i] = L[i + 1]
    OBVIOUS
<1>2. Len(L) \in Nat \ {0} /\ DOMAIN L = 1 .. Len(L) /\ DOMAIN T = 1 .. Len(T) /\ L[1] \in P
    BY <1>1
<1> HIDE DEF T
<1>3. Head(L) \in P /\ Contains(L, Head(L))
    BY <1>1, <1>2 DEF Contains
<1>4. ASSUME IsInjective(L) PROVE IsInjective(T)
    BY <1>1, <1>2, <1>4 DEF IsInjective
<1>5. ASSUME IsInjective(L), NEW x PROVE Contains(T, x) <=> Contains(L, x) /\ x # Head(L)
    <2>1. ASSUME Contains(T, x) PROVE Contains(L, x) /\ x # Head(L)
        BY <1>1, <1>2, <1>5, <2>1 DEF Contains, IsInjective
    <2>2. ASSUME Contains(L, x), x # Head(L) PROVE Contains(T, x)
        <3>1. PICK i \in 1 .. Len(L) : L[i] = x
            BY <2>2 DEF Contains
        <3>2. i - 1 \in 1 .. Len(T) /\ T[i - 1] = x
            BY <1>1, <1>2, <2>2, <3>1
        <3> QED BY <3>2 DEF Contains
    <2> QED BY <2>1, <2>2
<1> QED BY <1>1, <1>3, <1>4, <1>5 DEF T

\* The elements of a list after one was taken out of its middle.
LEMMA RemoveAtElements ==
    ASSUME NEW P, NEW L \in Seq(P), NEW i \in DOMAIN L
    PROVE  /\ RemoveAt(L, i) \in Seq(P)
           /\ Len(RemoveAt(L, i)) = Len(L) - 1
           /\ \A j \in 1 .. Len(L) - 1 :
                (j < i => RemoveAt(L, i)[j] = L[j]) /\ (j >= i => RemoveAt(L, i)[j] = L[j + 1])
<1> DEFINE F == SubSeq(L, 1, i - 1)
           G == SubSeq(L, i + 1, Len(L))
<1>1. Len(L) \in Nat /\ i \in 1 .. Len(L)
    OBVIOUS
<1>2. F \in Seq(P) /\ Len(F) = i - 1 /\ \A j \in 1 .. i - 1 : F[j] = L[j]
    BY <1>1
<1>3. G \in Seq(P) /\ Len(G) = Len(L) - i /\ \A j \in 1 .. Len(L) - i : G[j] = L[j + i]
    BY <1>1
<1> HIDE DEF F, G
<1>4. /\ F \o G \in Seq(P) /\ Len(F \o G) = Len(L) - 1
      /\ \A j \in 1 .. Len(L) - 1 : (F \o G)[j] = IF j <= Len(F) THEN F[j] ELSE G[j - Len(F)]
    BY <1>1, <1>2, <1>3
<1>5. \A j \in 1 .. Len(L) - 1 : (j < i => (F \o G)[j] = L[j]) /\ (j >= i => (F \o G)[j] = L[j + 1])
    <2> SUFFICES ASSUME NEW j \in 1 .. Len(L) - 1
                 PROVE  (j < i => (F \o G)[j] = L[j]) /\ (j >= i => (F \o G)[j] = L[j + 1])
        OBVIOUS
    <2>1. ASSUME j < i PROVE (F \o G)[j] = L[j]
        BY <1>1, <1>2, <1>4, <2>1
    <2>2. ASSUME j >= i PROVE (F \o G)[j] = L[j + 1]
        <3>1. j - Len(F) \in 1 .. Len(L) - i /\ (j - Len(F)) + i = j + 1 /\ ~(j <= Len(F))
            BY <1>1, <1>2, <2>2
        <3>2. G[j - Len(F)] = L[j + 1]
            BY <1>3, <3>1
        <3> QED BY <1>4, <3>1, <3>2
    <2> QED BY <2>1, <2>2
<1>6. RemoveAt(L, i) = F \o G
    BY DEF RemoveAt, F, G
<1> QED BY <1>4, <1>5, <1>6

\* Taking an element out of a list that holds it once.
LEMMA RemoveAtFacts ==
    ASSUME NEW P, NEW L \in Seq(P), NEW i \in DOMAIN L, IsInjective(L)
    PROVE  /\ RemoveAt(L, i) \in Seq(P)
           /\ IsInjective(RemoveAt(L, i))
           /\ \A x : Contains(RemoveAt(L, i), x) <=> Contains(L, x) /\ x # L[i]
<1> DEFINE R == RemoveAt(L, i)
<1>1. Len(L) \in Nat /\ i \in 1 .. Len(L) /\ DOMAIN L = 1 .. Len(L)
    OBVIOUS
<1>2. /\ R \in Seq(P) /\ Len(R) = Len(L) - 1
      /\ \A j \in 1 .. Len(L) - 1 : (j < i => R[j] = L[j]) /\ (j >= i => R[j] = L[j + 1])
    BY RemoveAtElements
<1> HIDE DEF R
<1>3. DOMAIN R = 1 .. Len(L) - 1
    BY <1>1, <1>2
<1>4. IsInjective(R)
    BY <1>1, <1>2, <1>3 DEF IsInjective
<1>5. ASSUME NEW x PROVE Contains(R, x) <=> Contains(L, x) /\ x # L[i]
    <2>1. ASSUME Contains(R, x) PROVE Contains(L, x) /\ x # L[i]
        BY <1>1, <1>2, <1>3, <2>1 DEF Contains, IsInjective
    <2>2. ASSUME Contains(L, x), x # L[i] PROVE Contains(R, x)
        <3>1. PICK j \in 1 .. Len(L) : L[j] = x
            BY <2>2 DEF Contains
        <3>2. CASE j < i
            <4>1. j \in 1 .. Len(R) /\ R[j] = x
                BY <1>1, <1>2, <3>1, <3>2
            <4> QED BY <4>1 DEF Contains
        <3>3. CASE j > i
            <4>1. j - 1 \in 1 .. Len(R) /\ R[j - 1] = x
                BY <1>1, <1>2, <3>1, <3>3
            <4> QED BY <4>1 DEF Contains
        <3> QED BY <1>1, <2>2, <3>1, <3>2, <3>3
    <2> QED BY <2>1, <2>2
<1> QED BY <1>2, <1>4, <1>5 DEF R

\* Linking an element into a list at any place.
LEMMA InsertAtElements ==
    ASSUME NEW P, NEW L \in Seq(P), NEW i \in 1 .. Len(L) + 1, NEW p \in P
    PROVE  /\ InsertAt(L, i, p) \in Seq(P)
           /\ Len(InsertAt(L, i, p)) = Len(L) + 1
           /\ \A j \in 1 .. Len(L) + 1 :
                (j < i => InsertAt(L, i, p)[j] = L[j]) /\ (j = i => InsertAt(L, i, p)[j] = p) /\ (j > i => InsertAt(L, i, p)[j] = L[j - 1])
<1> DEFINE F == SubSeq(L, 1, i - 1)
           G == SubSeq(L, i, Len(L))
           H == F \o <<p>>
<1>1. Len(L) \in Nat /\ i \in Nat
    OBVIOUS
<1>2. F \in Seq(P) /\ Len(F) = i - 1 /\ \A j \in 1 .. i - 1 : F[j] = L[j]
    BY <1>1
<1>3. G \in Seq(P) /\ Len(G) = Len(L) - i + 1 /\ \A j \in 1 .. Len(L) - i + 1 : G[j] = L[j + i - 1]
    BY <1>1
<1> HIDE DEF F, G
<1>4. /\ H \in Seq(P) /\ Len(H) = i
      /\ \A j \in 1 .. i : H[j] = IF j < i THEN L[j] ELSE p
    BY <1>1, <1>2
<1> HIDE DEF H
<1>5. /\ H \o G \in Seq(P) /\ Len(H \o G) = Len(L) + 1
      /\ \A j \in 1 .. Len(L) + 1 : (H \o G)[j] = IF j <= Len(H) THEN H[j] ELSE G[j - Len(H)]
    <2>1. H \o G \in Seq(P) /\ Len(H \o G) = Len(H) + Len(G)
        BY <1>3, <1>4
    <2>2. Len(H) + Len(G) = Len(L) + 1
        BY <1>1, <1>3, <1>4
    <2>3. \A j \in 1 .. Len(H) + Len(G) :
             (H \o G)[j] = IF j <= Len(H) THEN H[j] ELSE G[j - Len(H)]
        BY <1>3, <1>4
    <2> QED BY <2>1, <2>2, <2>3
<1>6. \A j \in 1 .. Len(L) + 1 :
         (j < i => (H \o G)[j] = L[j]) /\ (j = i => (H \o G)[j] = p) /\ (j > i => (H \o G)[j] = L[j - 1])
    BY <1>1, <1>3, <1>4, <1>5
<1>7. InsertAt(L, i, p) = H \o G
    BY DEF InsertAt, F, G, H
<1> QED BY <1>5, <1>6, <1>7

LEMMA InsertAtFacts ==
    ASSUME NEW P, NEW L \in Seq(P), NEW i \in 1 .. Len(L) + 1, NEW p \in P,
           IsInjective(L), ~Contains(L, p)
    PROVE  /\ InsertAt(L, i, p) \in Seq(P)
           /\ IsInjective(InsertAt(L, i, p))
           /\ \A x : Contains(InsertAt(L, i, p), x) <=> Contains(L, x) \/ x = p
<1> DEFINE R == InsertAt(L, i, p)
<1>1. Len(L) \in Nat /\ DOMAIN L = 1 .. Len(L) /\ i \in Nat
    OBVIOUS
<1>2. /\ R \in Seq(P) /\ Len(R) = Len(L) + 1
      /\ \A j \in 1 .. Len(L) + 1 : (j < i => R[j] = L[j]) /\ (j = i => R[j] = p) /\ (j > i => R[j] = L[j - 1])
    BY InsertAtElements, SMTT(30)
<1> HIDE DEF R
<1>3. DOMAIN R = 1 .. Len(L) + 1
    BY <1>1, <1>2
<1>4. IsInjective(R)
    <2>1. \A j \in 1 .. Len(L) : L[j] # p
        BY DEF Contains
    <2>2. \A j, l \in 1 .. Len(L) : L[j] = L[l] => j = l
        BY <1>1 DEF IsInjective
    <2> SUFFICES ASSUME NEW j \in 1 .. Len(L) + 1, NEW l \in 1 .. Len(L) + 1, R[j] = R[l]
                 PROVE  j = l
        BY <1>3 DEF IsInjective
    <2>3. CASE j < i
        BY <1>1, <1>2, <2>1, <2>2, <2>3
    <2>4. CASE j = i
        BY <1>1, <1>2, <2>1, <2>4
    <2>5. CASE j > i
        BY <1>1, <1>2, <2>1, <2>2, <2>5
    <2> QED BY <1>1, <2>3, <2>4, <2>5
<1>5. ASSUME NEW x PROVE Contains(R, x) <=> Contains(L, x) \/ x = p
    <2>1. ASSUME Contains(R, x) PROVE Contains(L, x) \/ x = p
        BY <1>1, <1>2, <1>3, <2>1 DEF Contains
    <2>2. ASSUME Contains(L, x) PROVE Contains(R, x)
        <3>1. PICK j \in 1 .. Len(L) : L[j] = x
            BY <2>2 DEF Contains
        <3>2. CASE j < i
            BY <1>1, <1>2, <3>1, <3>2 DEF Contains
        <3>3. CASE j >= i
            <4>1. j + 1 \in 1 .. Len(R) /\ R[j + 1] = x
                BY <1>1, <1>2, <3>1, <3>3
            <4> QED BY <4>1 DEF Contains
        <3> QED BY <1>1, <3>1, <3>2, <3>3
    <2>3. Contains(R, p)
        <3>1. i \in 1 .. Len(R) /\ R[i] = p
            BY <1>1, <1>2
        <3> QED BY <3>1 DEF Contains
    <2> QED BY <2>1, <2>2, <2>3
<1> QED BY <1>2, <1>4, <1>5 DEF R
-----------------------------------------------------------------------------
\* Functions on a set, one for each iteration, can be iterated from any element
\* of the set.
IsIteration(f, S, a, G) ==
    f \in [Nat -> S] /\ f[0] = a /\ \A n \in Nat : f[n + 1] = G[n][f[n]]

LEMMA IterateExists ==
    ASSUME NEW S, NEW a \in S, NEW G \in [Nat -> [S -> S]]
    PROVE  \E f : IsIteration(f, S, a, G)
<1> DEFINE Apx(n, g) == /\ g \in [0 .. n -> S] /\ g[0] = a
                        /\ \A i \in 0 .. n - 1 : g[i + 1] = G[i][g[i]]
           D == {n \in Nat : \E g : Apx(n, g)}
<1>1. 0 \in D
    <2>1. Apx(0, [i \in 0 .. 0 |-> a])
        OBVIOUS
    <2> QED BY <2>1
<1>2. ASSUME NEW n \in Nat, n \in D PROVE n + 1 \in D
    <2>1. PICK g : Apx(n, g)
        BY <1>2
    <2> DEFINE h == [i \in 0 .. n + 1 |-> IF i <= n THEN g[i] ELSE G[n][g[n]]]
    <2>2. n \in 0 .. n /\ g[n] \in S /\ G[n][g[n]] \in S
        BY <2>1
    <2>3. h \in [0 .. n + 1 -> S] /\ h[0] = a
        BY <2>1, <2>2
    <2>4. ASSUME NEW i \in 0 .. (n + 1) - 1 PROVE h[i + 1] = G[i][h[i]]
        <3>1. CASE i < n
            BY <2>1, <3>1
        <3>2. CASE i = n
            BY <2>1, <3>2
        <3> QED BY <3>1, <3>2
    <2>5. Apx(n + 1, h)
        BY <2>3, <2>4
    <2>6. \E l : Apx(n + 1, l)
        <3> HIDE DEF Apx, h
        <3> QED BY <2>5
    <2> HIDE DEF Apx
    <2> QED BY <2>6
<1>3. Nat \subseteq D
    <2> HIDE DEF D
    <2> QED BY <1>1, <1>2, NatSetInduction
<1>4. ASSUME NEW n \in Nat, NEW m \in Nat, n <= m, NEW g, Apx(n, g), NEW h, Apx(m, h)
      PROVE  g[n] = h[n]
    <2> DEFINE E == {i \in Nat : i <= n => g[i] = h[i]}
    <2>1. 0 \in E
        BY <1>4
    <2>2. ASSUME NEW i \in Nat, i \in E PROVE i + 1 \in E
        <3> SUFFICES ASSUME i + 1 <= n PROVE g[i + 1] = h[i + 1]
            OBVIOUS
        <3>1. i \in 0 .. n - 1 /\ i \in 0 .. m - 1 /\ g[i] = h[i]
            BY <1>4, <2>2
        <3> QED BY <1>4, <3>1
    <2>3. Nat \subseteq E
        <3> HIDE DEF E
        <3> QED BY <2>1, <2>2, NatSetInduction
    <2> QED BY <2>3
<1> DEFINE g(n) == CHOOSE h : Apx(n, h)
           f == [n \in Nat |-> g(n)[n]]
<1>5. ASSUME NEW n \in Nat PROVE Apx(n, g(n))
    <2>1. \E h : Apx(n, h)
        BY <1>3
    <2> HIDE DEF Apx
    <2> QED BY <2>1
<1>6. f \in [Nat -> S]
    <2> SUFFICES ASSUME NEW n \in Nat PROVE g(n)[n] \in S
        OBVIOUS
    <2> HIDE DEF g
    <2>1. n \in 0 .. n
        OBVIOUS
    <2> QED BY <1>5, <2>1
<1>7. f[0] = a
    <2>1. Apx(0, g(0))
        BY <1>5
    <2> HIDE DEF g
    <2> QED BY <2>1
<1>8. ASSUME NEW n \in Nat PROVE f[n + 1] = G[n][f[n]]
    <2>1. Apx(n, g(n)) /\ Apx(n + 1, g(n + 1))
        <3> HIDE DEF Apx, g
        <3>1. n + 1 \in Nat
            OBVIOUS
        <3> QED BY <1>5, <3>1
    <2> HIDE DEF g
    <2>2. g(n)[n] = g(n + 1)[n]
        <3> HIDE DEF Apx
        <3>1. n <= n + 1 /\ n + 1 \in Nat
            OBVIOUS
        <3> QED BY <1>4, <2>1, <3>1
    <2>3. g(n + 1)[n + 1] = G[n][g(n + 1)[n]]
        <3>1. n \in 0 .. (n + 1) - 1
            OBVIOUS
        <3> QED BY <2>1, <3>1
    <2> QED BY <2>2, <2>3
<1>9. IsIteration(f, S, a, G)
    <2> HIDE DEF f
    <2> QED BY <1>6, <1>7, <1>8 DEF IsIteration
<1> QED BY <1>9

\* A list with an element linked in front of it.
LEMMA PrependFacts ==
    ASSUME NEW P, NEW L \in Seq(P), NEW p \in P, IsInjective(L), ~Contains(L, p)
    PROVE  /\ <<p>> \o L \in Seq(P)
           /\ IsInjective(<<p>> \o L)
           /\ \A x : Contains(<<p>> \o L, x) <=> Contains(L, x) \/ x = p
<1> DEFINE R == <<p>> \o L
<1>1. Len(L) \in Nat /\ DOMAIN L = 1 .. Len(L)
    OBVIOUS
<1>2. /\ R \in Seq(P) /\ Len(R) = Len(L) + 1
      /\ R[1] = p
      /\ \A j \in 2 .. Len(L) + 1 : R[j] = L[j - 1]
    OBVIOUS
<1> HIDE DEF R
<1>3. DOMAIN R = 1 .. Len(L) + 1
    BY <1>1, <1>2
<1>4. \A j \in DOMAIN R : j # 1 => j - 1 \in DOMAIN L /\ R[j] = L[j - 1]
    BY <1>1, <1>2, <1>3
<1>5. ASSUME NEW j \in DOMAIN L PROVE j + 1 \in DOMAIN R /\ R[j + 1] = L[j]
    <2>1. j + 1 \in 2 .. Len(L) + 1 /\ (j + 1) - 1 = j
        BY <1>1, <1>5
    <2>2. R[j + 1] = L[(j + 1) - 1]
        BY <1>2, <2>1
    <2> QED BY <1>1, <1>3, <2>1, <2>2
<1>6. 1 \in DOMAIN R
    BY <1>1, <1>3
<1>7. ASSUME NEW x PROVE Contains(R, x) <=> Contains(L, x) \/ x = p
    <2>1. ASSUME Contains(L, x) PROVE Contains(R, x)
        <3>1. PICK j \in DOMAIN L : L[j] = x
            BY <1>1, <2>1 DEF Contains
        <3>2. j + 1 \in DOMAIN R /\ R[j + 1] = x
            BY <1>5, <3>1
        <3> QED BY <1>3, <3>2 DEF Contains
    <2>2. ASSUME Contains(R, x), x # p PROVE Contains(L, x)
        <3>1. PICK i \in DOMAIN R : R[i] = x
            BY <1>3, <2>2 DEF Contains
        <3>2. i - 1 \in DOMAIN L /\ L[i - 1] = x
            BY <1>2, <1>4, <2>2, <3>1
        <3> QED BY <1>1, <3>2 DEF Contains
    <2>3. Contains(R, p)
        BY <1>2, <1>3, <1>6 DEF Contains
    <2> QED BY <2>1, <2>2, <2>3
<1>8. IsInjective(R)
    <2> SUFFICES ASSUME NEW i \in DOMAIN R, NEW j \in DOMAIN R, R[i] = R[j] PROVE i = j
        BY DEF IsInjective
    <2>1. \A m \in DOMAIN R : R[m] = p => m = 1
        BY <1>4 DEF Contains
    <2>2. CASE R[i] = p
        BY <2>1, <2>2
    <2>3. CASE R[i] # p
        <3>1. i - 1 \in DOMAIN L /\ j - 1 \in DOMAIN L /\ L[i - 1] = L[j - 1]
            BY <1>2, <1>4, <2>3
        <3>2. i - 1 = j - 1
            BY <3>1 DEF IsInjective
        <3> QED BY <1>1, <1>3, <3>2
    <2> QED BY <2>2, <2>3
<1> QED BY <1>2, <1>7, <1>8 DEF R
\* Induction over a rank: what holds of an element whenever it holds of those
\* below it holds of all.
LEMMA RankInduction ==
    ASSUME NEW S, NEW rank \in [S -> Nat], NEW T,
           \A x \in S : (\A y \in S : rank[y] < rank[x] => y \in T) => x \in T
    PROVE  S \subseteq T
<1> DEFINE U == {n \in Nat : \A x \in S : rank[x] < n => x \in T}
<1>1. 0 \in U
    OBVIOUS
<1>2. ASSUME NEW n \in Nat, n \in U PROVE n + 1 \in U
    <2>1. ASSUME NEW x \in S, rank[x] < n + 1 PROVE x \in T
        <3>1. \A y \in S : rank[y] < rank[x] => rank[y] < n
            BY <2>1
        <3> QED BY <1>2, <3>1
    <2> QED BY <2>1
<1>3. Nat \subseteq U
    <2> HIDE DEF U
    <2> QED BY <1>1, <1>2, NatSetInduction
<1>4. ASSUME NEW x \in S PROVE x \in T
    <2>1. rank[x] + 1 \in U /\ rank[x] < rank[x] + 1
        BY <1>3
    <2> QED BY <2>1
<1> QED BY <1>4

\* A function defined by recursion exists if each of its values depends on those
\* at elements of lower rank alone: apply the definition again and again.
IsRecursion(F, S, V, rank) ==
    /\ V # {} /\ rank \in [S -> Nat] /\ F \in [[S -> V] -> [S -> V]]
    /\ \A g, h \in [S -> V] : \A x \in S :
          (\A y \in S : rank[y] < rank[x] => g[y] = h[y]) => F[g][x] = F[h][x]

IsRecursive(f, F, S, V) == f \in [S -> V] /\ f = F[f]

LEMMA RecursionExists ==
    ASSUME NEW S, NEW V, NEW rank, NEW F, IsRecursion(F, S, V, rank)
    PROVE  \E f : IsRecursive(f, F, S, V)
<1> SUFFICES ASSUME V # {}, rank \in [S -> Nat], F \in [[S -> V] -> [S -> V]],
                    \A g, h \in [S -> V] : \A x \in S :
                       (\A y \in S : rank[y] < rank[x] => g[y] = h[y]) => F[g][x] = F[h][x]
             PROVE  \E f : IsRecursive(f, F, S, V)
    BY DEF IsRecursion
<1> DEFINE W == [S -> V]
           G == [n \in Nat |-> F]
<1>0. \A m, n \in Nat : m < n => \E k \in Nat : (m + 1) + k = n
    <2>1. \A m, n \in Nat : m < n => n - (m + 1) \in Nat /\ (m + 1) + (n - (m + 1)) = n
        OBVIOUS
    <2> QED BY <2>1
<1>1. PICK v \in V : TRUE
    OBVIOUS
<1> DEFINE start == [x \in S |-> v]
<1>2. start \in W /\ G \in [Nat -> [W -> W]]
    OBVIOUS
<1>3. PICK it : IsIteration(it, W, start, G)
    <2> HIDE DEF W, start, G
    <2> QED BY <1>2, IterateExists
<1>4. \A n \in Nat : it[n] \in W /\ it[n + 1] = F[it[n]]
    BY <1>3 DEF IsIteration
<1> DEFINE Settles(n) == \A x \in S : rank[x] < n => it[n + 1][x] = it[n][x]
           U == {n \in Nat : Settles(n)}
<1>5. 0 \in U
    OBVIOUS
<1>6. ASSUME NEW n \in Nat, n \in U PROVE n + 1 \in U
    <2>1. ASSUME NEW x \in S, rank[x] < n + 1 PROVE it[(n + 1) + 1][x] = it[n + 1][x]
        <3>1. \A y \in S : rank[y] < rank[x] => it[n + 1][y] = it[n][y]
            <4>1. \A y \in S : rank[y] < rank[x] => rank[y] < n
                BY <2>1
            <4> QED BY <1>6, <4>1
        <3>2. it[n] \in W /\ it[n + 1] \in W
            BY <1>4
        <3>3. F[it[n + 1]][x] = F[it[n]][x]
            BY <3>1, <3>2
        <3> QED BY <1>4, <3>3
    <2> QED BY <2>1
<1>7. Nat \subseteq U
    <2> HIDE DEF U
    <2> QED BY <1>5, <1>6, NatSetInduction
<1> DEFINE Stays(k) == \A n \in Nat, x \in S : rank[x] < n => it[n + k][x] = it[n][x]
           Z == {k \in Nat : Stays(k)}
<1>8. 0 \in Z
    OBVIOUS
<1>9. ASSUME NEW k \in Nat, k \in Z PROVE k + 1 \in Z
    <2>1. ASSUME NEW n \in Nat, NEW x \in S, rank[x] < n PROVE it[n + (k + 1)][x] = it[n][x]
        <3>1. n + k \in Nat /\ (n + k) + 1 = n + (k + 1) /\ rank[x] < n + k
            BY <2>1
        <3>2. it[(n + k) + 1][x] = it[n + k][x]
            BY <1>7, <3>1
        <3> QED BY <1>9, <2>1, <3>1, <3>2
    <2> QED BY <2>1
<1>10. Nat \subseteq Z
    <2> HIDE DEF Z
    <2> QED BY <1>8, <1>9, NatSetInduction
<1> DEFINE f == [x \in S |-> it[rank[x] + 1][x]]
<1>11. f \in W
    <2>1. \A x \in S : it[rank[x] + 1] \in W
        BY <1>4
    <2> QED BY <2>1
<1>12. ASSUME NEW x \in S PROVE f[x] = F[f][x]
    <2>1. ASSUME NEW y \in S, rank[y] < rank[x] PROVE f[y] = it[rank[x]][y]
        <3>1. PICK k \in Nat : (rank[y] + 1) + k = rank[x]
            <4>1. rank[x] \in Nat /\ rank[y] \in Nat
                OBVIOUS
            <4> HIDE DEF Settles, Stays, U, Z, f, start, W, G
            <4> QED BY <1>0, <2>1, <4>1
        <3>2. Stays(k)
            <4> HIDE DEF Stays
            <4> QED BY <1>10
        <3>3. rank[y] + 1 \in Nat /\ rank[y] < rank[y] + 1
            OBVIOUS
        <3>4. it[(rank[y] + 1) + k][y] = it[rank[y] + 1][y]
            BY <3>2, <3>3
        <3> QED BY <3>1, <3>4
    <2>2. it[rank[x]] \in W /\ f[x] = F[it[rank[x]]][x]
        BY <1>4
    <2> HIDE DEF f
    <2>3. F[f][x] = F[it[rank[x]]][x]
        BY <1>11, <2>1, <2>2
    <2> QED BY <2>2, <2>3
<1>13. F[f] \in W
    BY <1>11
<1>14. f = F[f]
    <2> HIDE DEF f
    <2> QED BY <1>11, <1>12, <1>13
<1> HIDE DEF f
<1> QED BY <1>11, <1>14 DEF IsRecursive
-----------------------------------------------------------------------------
\* FlattenSeq(L) is the last of the lists that come of joining one element of L
\* after the other.
IsJoining(g, L, C) ==
    /\ g \in [1 .. Len(L) -> Seq(C)]
    /\ g[1] = L[1]
    /\ \A i \in 1 .. Len(L) : i # 1 => g[i] = g[i - 1] \o L[i]

LEMMA FlattenJoins ==
    ASSUME NEW C, NEW L \in Seq(Seq(C)), L # <<>>
    PROVE  \E g : IsJoining(g, L, C) /\ FlattenSeq(L) = g[Len(L)]
<1> DEFINE Def(f) == [i \in 1 .. Len(L) |-> IF i = 1 THEN L[i] ELSE f[i - 1] \o L[i]]
           g == CHOOSE f : f = Def(f)
           S == Seq(C)
           Go(n, x) == IF n + 2 <= Len(L) THEN x \o L[n + 2] ELSE x
<1>1. Len(L) \in Nat /\ Len(L) >= 1 /\ \A i \in 1 .. Len(L) : L[i] \in S
    OBVIOUS
<1>2. \E f : f = Def(f)
    <2>1. ASSUME NEW n \in Nat, NEW x \in S PROVE Go(n, x) \in S
        <3>1. CASE n + 2 <= Len(L)
            <4>1. n + 2 \in 1 .. Len(L)
                BY <1>1, <3>1
            <4> QED BY <1>1, <4>1, ConcatProperties
        <3> QED BY <3>1
    <2> HIDE DEF S, Go
    <2>2. PICK G \in [Nat -> [S -> S]] : \A n \in Nat : \A x \in S : G[n][x] = Go(n, x)
        <3>1. [n \in Nat |-> [x \in S |-> Go(n, x)]] \in [Nat -> [S -> S]]
            BY <2>1
        <3> QED BY <3>1
    <2>3. L[1] \in S
        BY <1>1
    <2>4. PICK f : IsIteration(f, S, L[1], G)
        BY <2>3, IterateExists
    <2>5. f[0] = L[1]
        BY <2>4 DEF IsIteration
    <2>6. ASSUME NEW n \in Nat PROVE f[n + 1] = Go(n, f[n])
        <3>1. f[n] \in S /\ f[n + 1] = G[n][f[n]]
            BY <2>4 DEF IsIteration
        <3> QED BY <2>2, <3>1
    <2> DEFINE a == [i \in 1 .. Len(L) |-> f[i - 1]]
    <2>7. ASSUME NEW i \in 1 .. Len(L) PROVE a[i] = Def(a)[i]
        <3>1. CASE i = 1
            BY <2>5, <3>1
        <3>2. CASE i # 1
            <4>1. i - 2 \in Nat /\ (i - 2) + 1 = i - 1 /\ (i - 2) + 2 = i /\ i - 1 \in 1 .. Len(L)
                BY <1>1, <3>2
            <4>2. f[(i - 2) + 1] = Go(i - 2, f[i - 2])
                BY <2>6, <4>1
            <4>3. Go(i - 2, f[i - 2]) = f[i - 2] \o L[i]
                <5>1. \A x : Go(i - 2, x) = x \o L[(i - 2) + 2]
                    BY <4>1 DEF Go
                <5> QED BY <4>1, <5>1
            <4>4. f[i - 1] = f[i - 2] \o L[i]
                BY <4>1, <4>2, <4>3
            <4>5. a[i - 1] = f[i - 2] /\ a[i] = f[i - 1]
                BY <4>1
            <4> QED BY <3>2, <4>5, <4>4
        <3> QED BY <3>1, <3>2
    <2>8. a = [i \in 1 .. Len(L) |-> a[i]] /\ Def(a) = [i \in 1 .. Len(L) |-> Def(a)[i]]
        OBVIOUS
    <2> HIDE DEF a, Def
    <2>9. a = Def(a)
        BY <2>7, <2>8
    <2> QED BY <2>9
<1>3. g = Def(g)
    <2> HIDE DEF Def
    <2> QED BY <1>2
<1>4. FlattenSeq(L) = g[Len(L)]
    <2>1. Len(L) # 0
        BY <1>1
    <2> QED BY <2>1, Zenon DEF FlattenSeq
<1> HIDE DEF g
<1>5. \A i \in 1 .. Len(L) : g[i] = IF i = 1 THEN L[i] ELSE g[i - 1] \o L[i]
    BY <1>3, Zenon
<1>6. DOMAIN g = 1 .. Len(L) /\ g = [i \in 1 .. Len(L) |-> g[i]]
    BY <1>3, Zenon
<1> HIDE DEF Def
<1>7. \A i \in 1 .. Len(L) : g[i] \in Seq(C)
    <2> DEFINE E == {n \in Nat : n + 1 <= Len(L) => g[n + 1] \in S}
    <2>1. 0 \in E
        <3>1. 1 \in 1 .. Len(L) /\ 0 + 1 = 1
            BY <1>1
        <3> QED BY <1>1, <1>5, <3>1
    <2>2. ASSUME NEW n \in Nat, n \in E PROVE n + 1 \in E
        <3> SUFFICES ASSUME n + 2 <= Len(L) PROVE g[n + 2] \in S
            <4>1. (n + 1) + 1 = n + 2
                OBVIOUS
            <4> QED BY <4>1
        <3>1. n + 2 \in 1 .. Len(L) /\ n + 2 # 1 /\ (n + 2) - 1 = n + 1 /\ n + 1 <= Len(L)
            BY <1>1
        <3>2. g[n + 1] \in S /\ L[n + 2] \in S
            BY <1>1, <2>2, <3>1
        <3>3. g[n + 2] = g[n + 1] \o L[n + 2]
            BY <1>5, <3>1
        <3> QED BY <3>2, <3>3, ConcatProperties
    <2>3. Nat \subseteq E
        <3> HIDE DEF E
        <3> QED BY <2>1, <2>2, NatSetInduction
    <2> SUFFICES ASSUME NEW i \in 1 .. Len(L) PROVE g[i] \in S
        OBVIOUS
    <2>4. \A n \in Nat : n + 1 <= Len(L) => g[n + 1] \in S
        BY <2>3
    <2>5. PICK n \in Nat : i = n + 1
        <3>1. i - 1 \in Nat /\ i = (i - 1) + 1
            OBVIOUS
        <3> QED BY <3>1
    <2>6. n + 1 <= Len(L)
        BY <1>1, <2>5
    <2> QED BY <2>4, <2>5, <2>6
<1>8. IsJoining(g, L, C)
    <2>1. g \in [1 .. Len(L) -> Seq(C)]
        BY <1>6, <1>7
    <2>2. 1 \in 1 .. Len(L)
        BY <1>1
    <2>3. \A i \in 1 .. Len(L) : i # 1 => g[i] = g[i - 1] \o L[i]
        BY <1>5, Zenon
    <2> QED BY <1>5, <2>1, <2>2, <2>3, Zenon DEF IsJoining
<1> QED BY <1>4, <1>8

\* What joining leaves is a list; joining nothing leaves nothing.
LEMMA FlattenType ==
    ASSUME NEW C, NEW L \in Seq(Seq(C))
    PROVE  FlattenSeq(L) \in Seq(C) /\ (L = <<>> => FlattenSeq(L) = <<>>)
<1>1. ASSUME L = <<>> PROVE FlattenSeq(L) = <<>>
    BY <1>1 DEF FlattenSeq
<1>2. ASSUME L # <<>> PROVE FlattenSeq(L) \in Seq(C)
    <2>1. PICK g : IsJoining(g, L, C) /\ FlattenSeq(L) = g[Len(L)]
        BY <1>2, FlattenJoins
    <2>2. Len(L) \in 1 .. Len(L)
        BY <1>2
    <2> QED BY <2>1, <2>2 DEF IsJoining
<1> QED BY <1>1, <1>2

\* Joining with one more list behind.
LEMMA FlattenAppend ==
    ASSUME NEW C, NEW L \in Seq(Seq(C)), NEW t \in Seq(C)
    PROVE  FlattenSeq(Append(L, t)) = FlattenSeq(L) \o t
<1> DEFINE M == Append(L, t)
           N == Len(L)
<1>1. /\ M \in Seq(Seq(C)) /\ M # <<>> /\ Len(M) = N + 1 /\ N \in Nat
      /\ M[N + 1] = t /\ \A i \in 1 .. N : M[i] = L[i]
    <2>1. PICK D : D = Seq(C)
        OBVIOUS
    <2>2. L \in Seq(D) /\ t \in D
        BY <2>1
    <2>3. M \in Seq(D) /\ M # <<>>
        BY <2>2, AppendFacts
    <2>4. Len(M) = N + 1 /\ N \in Nat /\ M[N + 1] = t /\ \A i \in 1 .. N : M[i] = L[i]
        BY <2>2
    <2> QED BY <2>1, <2>3, <2>4
<1> HIDE DEF M
<1>2. PICK h : IsJoining(h, M, C) /\ FlattenSeq(M) = h[N + 1]
    BY <1>1, FlattenJoins
<1>3. CASE L = <<>>
    <2>1. FlattenSeq(M) = t
        BY <1>1, <1>2, <1>3 DEF IsJoining
    <2> QED BY <1>3, <2>1, FlattenType, ConcatEmptySeq DEF M
<1>4. CASE L # <<>>
    <2>1. PICK g : IsJoining(g, L, C) /\ FlattenSeq(L) = g[N]
        BY <1>4, FlattenJoins
    <2> DEFINE E == {n \in Nat : n + 1 <= N => h[n + 1] = g[n + 1]}
    <2>2. N >= 1
        BY <1>1, <1>4
    <2>3. 0 \in E
        BY <1>1, <1>2, <2>1, <2>2 DEF IsJoining
    <2>4. ASSUME NEW n \in Nat, n \in E PROVE n + 1 \in E
        <3> SUFFICES ASSUME n + 2 <= N PROVE h[n + 2] = g[n + 2]
            <4>1. (n + 1) + 1 = n + 2
                OBVIOUS
            <4> QED BY <4>1
        <3>1. n + 2 \in 1 .. N /\ n + 2 \in 1 .. Len(M) /\ n + 2 # 1 /\ (n + 2) - 1 = n + 1 /\ n + 1 <= N
            BY <1>1
        <3>2. h[n + 2] = h[n + 1] \o M[n + 2] /\ g[n + 2] = g[n + 1] \o L[n + 2]
            BY <1>2, <2>1, <3>1 DEF IsJoining
        <3> QED BY <1>1, <2>4, <3>1, <3>2
    <2>5. Nat \subseteq E
        <3> HIDE DEF E
        <3> QED BY <2>3, <2>4, NatSetInduction
    <2>6. h[N] = g[N]
        <3>1. \A n \in Nat : n + 1 <= N => h[n + 1] = g[n + 1]
            BY <2>5
        <3>2. N - 1 \in Nat /\ (N - 1) + 1 <= N /\ (N - 1) + 1 = N
            BY <1>1, <2>2
        <3> QED BY <3>1, <3>2
    <2>7. h[N + 1] = h[N] \o M[N + 1]
        <3>1. N + 1 \in 1 .. Len(M) /\ N + 1 # 1 /\ (N + 1) - 1 = N
            BY <1>1, <2>2
        <3> QED BY <1>2, <3>1 DEF IsJoining
    <2> QED BY <1>1, <1>2, <2>1, <2>6, <2>7 DEF M
<1> QED BY <1>3, <1>4

\* The first list of those that are joined comes first.
LEMMA FlattenHead ==
    ASSUME NEW C, NEW L \in Seq(Seq(C)), L # <<>>
    PROVE  FlattenSeq(L) = Head(L) \o FlattenSeq(Tail(L))
<1> DEFINE T == Tail(L)
           N == Len(L)
<1>1. ASSUME NEW a \in Seq(C), NEW b \in Seq(C), NEW c \in Seq(C)
      PROVE  (a \o b) \o c = a \o (b \o c)
    OBVIOUS
<1>2. /\ T \in Seq(Seq(C)) /\ Len(T) = N - 1 /\ N \in Nat /\ N >= 1 /\ Head(L) = L[1]
      /\ \A i \in 1 .. N - 1 : T[i] = L[i + 1]
      /\ \A i \in 1 .. N : L[i] \in Seq(C)
    OBVIOUS
<1> HIDE DEF T
<1>3. PICK g : IsJoining(g, L, C) /\ FlattenSeq(L) = g[N]
    BY FlattenJoins
<1>4. CASE N = 1
    <2>1. T = <<>>
        BY <1>2, <1>4
    <2>2. FlattenSeq(T) = <<>>
        BY <1>2, <2>1, FlattenType
    <2>3. FlattenSeq(L) = L[1] /\ L[1] \in Seq(C)
        BY <1>2, <1>3, <1>4 DEF IsJoining
    <2> QED BY <1>2, <2>2, <2>3, ConcatEmptySeq DEF T
<1>5. CASE N # 1
    <2>1. T # <<>> /\ N - 1 \in Nat /\ N - 1 >= 1
        BY <1>2, <1>5
    <2>2. PICK h : IsJoining(h, T, C) /\ FlattenSeq(T) = h[N - 1]
        BY <1>2, <2>1, FlattenJoins
    <2> DEFINE J(i) == L[1] \o h[i]
               E == {n \in Nat : \A i \in 1 .. N - 1 : i <= n => g[i + 1] = J(i)}
    <2>3. \A i \in 1 .. N - 1 : J(i) = L[1] \o h[i]
        OBVIOUS
    <2> HIDE DEF J
    <2>4. 0 \in E
        OBVIOUS
    <2>5. ASSUME NEW n \in Nat, n \in E PROVE n + 1 \in E
        <3> SUFFICES ASSUME NEW i \in 1 .. N - 1, i <= n + 1 PROVE g[i + 1] = J(i)
            OBVIOUS
        <3>1. i + 1 \in 1 .. N /\ i + 1 # 1 /\ (i + 1) - 1 = i /\ i \in 1 .. N
            BY <1>2
        <3>2. g[i + 1] = g[i] \o L[i + 1] /\ T[i] = L[i + 1] /\ L[i + 1] \in Seq(C)
            BY <1>2, <1>3, <3>1 DEF IsJoining
        <3>3. CASE i = 1
            <4>1. g[i] = L[1] /\ h[i] = T[i]
                BY <1>3, <2>2, <3>3 DEF IsJoining
            <4> QED BY <2>3, <3>2, <4>1
        <3>4. CASE i # 1
            <4>1. PICK j \in 1 .. N - 1 : j = i - 1
                BY <1>2, <3>4
            <4>2. j <= n /\ j + 1 = i
                BY <4>1
            <4>3. g[i] = L[1] \o h[j]
                BY <2>5, <2>3, <4>2
            <4>4. h[i] = h[j] \o L[i + 1] /\ h[j] \in Seq(C)
                BY <1>2, <2>2, <3>2, <3>4, <4>1 DEF IsJoining
            <4>5. (L[1] \o h[j]) \o L[i + 1] = L[1] \o (h[j] \o L[i + 1])
                <5>1. L[1] \in Seq(C)
                    BY <1>2
                <5> QED BY <1>1, <3>2, <4>4, <5>1, Zenon
            <4> QED BY <2>3, <3>2, <4>3, <4>4, <4>5, Zenon
        <3> QED BY <3>3, <3>4
    <2>6. Nat \subseteq E
        <3> HIDE DEF E
        <3> QED BY <2>4, <2>5, NatSetInduction
    <2>7. g[N] = L[1] \o h[N - 1]
        <3>1. PICK i \in 1 .. N - 1 : i = N - 1
            BY <1>2, <2>1
        <3>2. i + 1 = N /\ i \in Nat
            BY <1>2, <3>1
        <3>3. i \in E
            <4> HIDE DEF E
            <4> QED BY <2>6, <3>2
        <3>4. g[i + 1] = J(i)
            BY <3>2, <3>3
        <3> QED BY <2>3, <3>1, <3>2, <3>4
    <2> QED BY <1>2, <1>3, <2>2, <2>7 DEF T
<1> QED BY <1>4, <1>5

\* What is left of two lists joined when something is taken off the first.
LEMMA SubSeqJoined ==
    ASSUME NEW C, NEW s \in Seq(C), NEW t \in Seq(C), NEW m \in 1 .. Len(s) + 1
    PROVE  SubSeq(s \o t, m, Len(s \o t)) = SubSeq(s, m, Len(s)) \o t
<1> DEFINE J == s \o t
           A == SubSeq(J, m, Len(J))
           S == SubSeq(s, m, Len(s))
           B == S \o t
<1>1. Len(s) \in Nat /\ Len(t) \in Nat /\ m \in Nat /\ m >= 1 /\ m <= Len(s) + 1
    OBVIOUS
<1>2. /\ J \in Seq(C) /\ Len(J) = Len(s) + Len(t)
      /\ \A i \in 1 .. Len(s) + Len(t) : J[i] = IF i <= Len(s) THEN s[i] ELSE t[i - Len(s)]
    OBVIOUS
<1>3. /\ S \in Seq(C) /\ Len(S) = Len(s) + 1 - m
      /\ \A i \in 1 .. Len(s) + 1 - m : S[i] = s[i + m - 1]
    OBVIOUS
<1> HIDE DEF J, S
<1>4. /\ A \in Seq(C) /\ Len(A) = Len(s) + Len(t) + 1 - m
      /\ \A i \in 1 .. Len(s) + Len(t) + 1 - m : A[i] = J[i + m - 1]
    BY <1>1, <1>2
<1>5. /\ B \in Seq(C) /\ Len(B) = Len(S) + Len(t)
      /\ \A i \in 1 .. Len(S) + Len(t) : B[i] = IF i <= Len(S) THEN S[i] ELSE t[i - Len(S)]
    <2>1. S \in Seq(C)
        BY <1>3
    <2> QED BY <2>1
<1> HIDE DEF A, B
<1>6. Len(A) = Len(B)
    BY <1>1, <1>3, <1>4, <1>5
<1>7. ASSUME NEW i \in 1 .. Len(A) PROVE A[i] = B[i]
    <2>1. i + m - 1 \in 1 .. Len(s) + Len(t) /\ A[i] = J[i + m - 1]
        BY <1>1, <1>4
    <2>2. CASE i <= Len(S)
        <3>1. i \in 1 .. Len(s) + 1 - m /\ i + m - 1 <= Len(s)
            BY <1>1, <1>3, <2>2
        <3>2. J[i + m - 1] = s[i + m - 1] /\ S[i] = s[i + m - 1]
            BY <1>2, <1>3, <2>1, <3>1
        <3>3. B[i] = S[i]
            BY <1>4, <1>5, <1>6, <2>2
        <3> QED BY <2>1, <3>2, <3>3
    <2>3. CASE ~(i <= Len(S))
        <3>1. ~(i + m - 1 <= Len(s)) /\ i + m - 1 - Len(s) = i - Len(S)
            BY <1>1, <1>3, <1>4, <2>3
        <3>2. J[i + m - 1] = t[i - Len(S)]
            BY <1>2, <2>1, <3>1
        <3>3. B[i] = t[i - Len(S)]
            BY <1>4, <1>5, <1>6, <2>3
        <3> QED BY <2>1, <3>2, <3>3
    <2> QED BY <2>2, <2>3
<1> QED BY <1>4, <1>5, <1>6, <1>7, SeqEqual DEF A, B, J, S

\* What is left of two lists joined when the first was taken off.
LEMMA SubSeqBehind ==
    ASSUME NEW C, NEW s \in Seq(C), NEW t \in Seq(C)
    PROVE  SubSeq(s \o t, Len(s) + 1, Len(s \o t)) = t
<1>1. Len(s) + 1 \in 1 .. Len(s) + 1 /\ SubSeq(s, Len(s) + 1, Len(s)) = <<>>
    BY SubSeqEmpty
<1>2. <<>> \o t = t
    BY ConcatEmptySeq
<1> QED BY <1>1, <1>2, SubSeqJoined
=============================================================================
