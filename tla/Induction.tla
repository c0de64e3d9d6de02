----------------------------- MODULE Induction -----------------------------
(***************************************************************************)
(* Induction over the natural numbers as a statement about sets, and what  *)
(* it says about functions that are defined by recursion: the proofs about *)
(* the sequences of cells and packets rest on it.                          *)
(***************************************************************************)
EXTENDS Integers, Sequences, SequencesExt, SequenceTheorems, WellFoundedInduction, TLAPS

\* Every set of natural numbers that is not empty has a least element.
LEMMA LeastElement ==
    ASSUME NEW T \in SUBSET Nat, T # {}
    PROVE  \E x \in T : \A y \in T : x <= y
<1> DEFINE R == {ss \in Nat \X Nat : ss[1] < ss[2]}
<1>1. IsWellFoundedOn(R, Nat)
    BY NatLessThanWellFounded DEF OpToRel
<1>2. \A x, y \in Nat : <<y, x>> \in R <=> y < x
    OBVIOUS
<1> HIDE DEF R
<1>3. PICK x \in T : \A y \in T : ~(<<y, x>> \in R)
    BY <1>1, WFMin
<1>4. x \in Nat /\ \A y \in T : y \in Nat /\ ~(y < x)
    BY <1>2, <1>3
<1>5. \A y \in T : x <= y
    BY <1>4
<1> QED BY <1>5

\* A set that has 0 and with every number its successor has all numbers.
LEMMA SetInduction ==
    ASSUME NEW S \in SUBSET Nat, 0 \in S, \A k \in S : k + 1 \in S
    PROVE  S = Nat
<1> SUFFICES ASSUME Nat \ S # {} PROVE FALSE
    OBVIOUS
<1>1. PICK m \in Nat \ S : \A y \in Nat \ S : m <= y
    BY LeastElement
<1>2. m # 0 /\ m - 1 \in Nat
    BY <1>1
<1>3. m - 1 \in S
    BY <1>1, <1>2
<1> QED BY <1>1, <1>2, <1>3

\* The same up to a bound.
LEMMA BoundedInduction ==
    ASSUME NEW N \in Nat, NEW S \in SUBSET (0..N), 0 \in S,
           \A k \in S : k < N => k + 1 \in S
    PROVE  S = 0..N
<1> DEFINE M == {k \in Nat : k <= N => k \in S}
<1>1. 0 \in M
    OBVIOUS
<1>2. ASSUME NEW k \in M PROVE k + 1 \in M
    BY <1>2
<1> HIDE DEF M
<1>3. M \in SUBSET Nat
    BY DEF M
<1>4. M = Nat
    BY <1>1, <1>2, <1>3, SetInduction
<1>5. \A k \in 0..N : k \in M /\ k <= N
    BY <1>4
<1>6. \A k \in 0..N : k \in S
    BY <1>5 DEF M
<1> QED BY <1>6

\* A function defined by recursion over 0..N exists.
Recurs(f, N, b, step) == f[0] = b /\ \A k \in 1..N : f[k] = step[k][f[k - 1]]

LEMMA Recursion ==
    ASSUME NEW N \in Nat, NEW T, NEW b \in T, NEW step \in [1..N -> [T -> T]]
    PROVE  \E f \in [0..N -> T] : Recurs(f, N, b, step)
<1> DEFINE Upto(m, f) == f[0] = b /\ \A k \in 1..m : f[k] = step[k][f[k - 1]]
           M == {m \in 0..N : \E f \in [0..m -> T] : Upto(m, f)}
<1>1. 0 \in M
    <2> DEFINE g == [k \in 0..0 |-> b]
    <2>1. g \in [0..0 -> T] /\ g[0] = b
        OBVIOUS
    <2>2. \A k \in 1..0 : FALSE
        OBVIOUS
    <2> HIDE DEF g
    <2> QED BY <2>1, <2>2
<1>2. ASSUME NEW m \in M, m < N PROVE m + 1 \in M
    <2>1. PICK f \in [0..m -> T] : Upto(m, f)
        BY <1>2
    <2> DEFINE g == [k \in 0..(m + 1) |-> IF k = m + 1 THEN step[m + 1][f[m]] ELSE f[k]]
    <2>2. m \in 0..N /\ m + 1 \in 1..N /\ f[m] \in T /\ step[m + 1][f[m]] \in T
        BY <1>2
    <2>3. g \in [0..(m + 1) -> T]
        BY <2>2
    <2>4. g[m + 1] = step[m + 1][f[m]] /\ \A k \in 0..m : g[k] = f[k]
        BY <2>2
    <2> HIDE DEF g
    <2>5. Upto(m + 1, g)
        <3>1. g[0] = b
            BY <2>1, <2>2, <2>4
        <3>2. ASSUME NEW k \in 1..(m + 1) PROVE g[k] = step[k][g[k - 1]]
            <4>1. CASE k = m + 1
                <5>1. g[k - 1] = f[m]
                    BY <2>2, <2>4, <4>1
                <5> QED BY <2>4, <4>1, <5>1
            <4>2. CASE k # m + 1
                <5>1. k \in 1..m /\ k \in 0..m /\ k - 1 \in 0..m
                    BY <2>2, <4>2
                <5>2. g[k] = f[k] /\ g[k - 1] = f[k - 1]
                    BY <2>4, <5>1
                <5>3. f[k] = step[k][f[k - 1]]
                    BY <2>1, <5>1
                <5> QED BY <5>2, <5>3
            <4> QED BY <4>1, <4>2
        <3> QED BY <3>1, <3>2
    <2> HIDE DEF Upto
    <2>6. \E h \in [0..(m + 1) -> T] : Upto(m + 1, h)
        BY <2>3, <2>5
    <2>7. m + 1 \in 0..N
        BY <2>2
    <2> QED BY <2>6, <2>7
<1> HIDE DEF M
<1>3. M \in SUBSET (0..N)
    BY DEF M
<1>4. M = 0..N
    BY <1>1, <1>2, <1>3, BoundedInduction
<1>5. N \in M
    BY <1>4
<1> QED BY <1>5 DEF M, Recurs

\* Sequences that are put together one after the other.
LEMMA Concatenation ==
    ASSUME NEW N \in Nat, NEW S, NEW e \in [1..N -> Seq(S)]
    PROVE  \E f \in [0..N -> Seq(S)] : f[0] = <<>> /\ \A k \in 1..N : f[k] = f[k - 1] \o e[k]
<1> DEFINE step == [k \in 1..N |-> [s \in Seq(S) |-> s \o e[k]]]
<1>1. step \in [1..N -> [Seq(S) -> Seq(S)]]
    OBVIOUS
<1>2. ASSUME NEW k \in 1..N, NEW s \in Seq(S) PROVE step[k][s] = s \o e[k]
    <2>1. step[k] = [t \in Seq(S) |-> t \o e[k]]
        OBVIOUS
    <2> QED BY <2>1
<1>3. <<>> \in Seq(S)
    OBVIOUS
<1> DEFINE T == Seq(S)
           b == <<>>
<1> HIDE DEF step, T, b
<1>4. PICK f \in [0..N -> Seq(S)] : f[0] = <<>> /\ \A k \in 1..N : f[k] = step[k][f[k - 1]]
    <2>1. b \in T /\ step \in [1..N -> [T -> T]]
        BY <1>1, <1>3 DEF b, T
    <2>2. \E f \in [0..N -> T] : Recurs(f, N, b, step)
        BY <2>1, Recursion
    <2> QED BY <2>2 DEF b, T, Recurs
<1>5. \A k \in 1..N : f[k - 1] \in Seq(S)
    OBVIOUS
<1> QED BY <1>2, <1>4, <1>5

\* Where the elements of a concatenation are.
LEMMA ConcatAt ==
    ASSUME NEW S, NEW s \in Seq(S), NEW t \in Seq(S)
    PROVE  /\ s \o t \in Seq(S) /\ Len(s \o t) = Len(s) + Len(t)
           /\ Len(s) \in Nat /\ Len(t) \in Nat
           /\ \A k \in 1..Len(s) : (s \o t)[k] = s[k]
           /\ \A k \in 1..Len(t) : (s \o t)[Len(s) + k] = t[k]
<1>1. /\ s \o t \in Seq(S) /\ Len(s \o t) = Len(s) + Len(t)
      /\ Len(s) \in Nat /\ Len(t) \in Nat
      /\ \A k \in 1..(Len(s) + Len(t)) :
            (s \o t)[k] = IF k <= Len(s) THEN s[k] ELSE t[k - Len(s)]
    BY ConcatProperties, LenProperties
<1>2. \A k \in 1..Len(s) : (s \o t)[k] = s[k]
    BY <1>1
<1>3. ASSUME NEW k \in 1..Len(t) PROVE (s \o t)[Len(s) + k] = t[k]
    <2>1. PICK m \in 1..(Len(s) + Len(t)) : m = Len(s) + k /\ ~(m <= Len(s)) /\ m - Len(s) = k
        BY <1>1
    <2>2. (s \o t)[m] = t[m - Len(s)]
        BY <1>1, <2>1
    <2> QED BY <2>1, <2>2
<1> QED BY <1>1, <1>2, <1>3

\* FlattenSeq puts the sequences of a sequence one after the other.
LEMMA Flattened ==
    ASSUME NEW S, NEW seqs \in Seq(Seq(S)), Len(seqs) > 0
    PROVE  \E f : /\ \A k \in 1..Len(seqs) : f[k] \in Seq(S)
                  /\ f[1] = seqs[1]
                  /\ \A k \in 2..Len(seqs) : f[k] = f[k - 1] \o seqs[k]
                  /\ FlattenSeq(seqs) = f[Len(seqs)]
<1> DEFINE N == Len(seqs)
           F == CHOOSE f : f = [i \in 1..N |-> IF i = 1 THEN seqs[i] ELSE f[i - 1] \o seqs[i]]
<1>0. N \in Nat /\ N > 0 /\ seqs \in [1..N -> Seq(S)]
    OBVIOUS
<1>1. FlattenSeq(seqs) = F[N]
    BY <1>0 DEF FlattenSeq
<1> HIDE DEF N
<1>2. PICK g \in [0..N -> Seq(S)] : g[0] = <<>> /\ \A k \in 1..N : g[k] = g[k - 1] \o seqs[k]
    BY <1>0, Concatenation
<1>3. g[1] = seqs[1]
    <2>1. 1 \in 1..N /\ 1 - 1 = 0
        BY <1>0
    <2>2. g[1] = g[1 - 1] \o seqs[1] /\ seqs[1] \in Seq(S)
        BY <1>0, <1>2, <2>1
    <2>3. g[1] = <<>> \o seqs[1]
        BY <1>2, <2>1, <2>2
    <2> QED BY <2>2, <2>3, ConcatEmptySeq
<1> DEFINE h == [k \in 1..N |-> g[k]]
<1>4. \A k \in 1..N : h[k] = IF k = 1 THEN seqs[k] ELSE h[k - 1] \o seqs[k]
    <2> SUFFICES ASSUME NEW k \in 1..N PROVE h[k] = IF k = 1 THEN seqs[k] ELSE h[k - 1] \o seqs[k]
        OBVIOUS
    <2>1. CASE k = 1
        BY <1>3, <2>1
    <2>2. CASE k # 1
        <3>1. k - 1 \in 1..N
            BY <1>0, <2>2
        <3> QED BY <1>2, <2>2, <3>1
    <2> QED BY <2>1, <2>2
<1>5. h = [k \in 1..N |-> IF k = 1 THEN seqs[k] ELSE h[k - 1] \o seqs[k]]
    BY <1>4
<1> HIDE DEF h
<1>6. \E f : f = [i \in 1..N |-> IF i = 1 THEN seqs[i] ELSE f[i - 1] \o seqs[i]]
    BY <1>5
<1>7. F = [i \in 1..N |-> IF i = 1 THEN seqs[i] ELSE F[i - 1] \o seqs[i]]
    BY <1>6
<1> HIDE DEF F
<1>8. F[1] = seqs[1] /\ \A k \in 2..N : F[k] = F[k - 1] \o seqs[k]
    <2>1. \A k \in 1..N : F[k] = IF k = 1 THEN seqs[k] ELSE F[k - 1] \o seqs[k]
        BY <1>7
    <2>2. 1 \in 1..N /\ \A k \in 2..N : k \in 1..N /\ k # 1
        BY <1>0
    <2> QED BY <2>1, <2>2
<1> DEFINE M == {k \in 0..N : k > 0 => F[k] \in Seq(S)}
<1>9. M = 0..N
    <2>1. M \in SUBSET (0..N) /\ 0 \in M
        BY <1>0
    <2>2. ASSUME NEW k \in M, k < N PROVE k + 1 \in M
        <3>1. CASE k = 0
            BY <1>0, <1>8, <3>1
        <3>2. CASE k # 0
            <4>1. k + 1 \in 2..N /\ F[k] \in Seq(S) /\ seqs[k + 1] \in Seq(S)
                BY <1>0, <2>2, <3>2
            <4>2. F[k + 1] = F[k] \o seqs[k + 1]
                <5>1. (k + 1) - 1 = k
                    BY <2>2
                <5>2. F[k + 1] = F[(k + 1) - 1] \o seqs[k + 1]
                    BY <1>8, <4>1
                <5> QED BY <5>1, <5>2
            <4>3. F[k + 1] \in Seq(S)
                BY <4>1, <4>2
            <4> QED BY <1>0, <4>1, <4>3
        <3> QED BY <3>1, <3>2
    <2> HIDE DEF M
    <2> QED BY <1>0, <2>1, <2>2, BoundedInduction
<1>10. ASSUME NEW k \in 1..N PROVE F[k] \in Seq(S)
    <2>1. k \in 0..N /\ k > 0
        BY <1>0
    <2>2. k \in M
        BY <1>9, <2>1
    <2> QED BY <2>1, <2>2
<1> QED BY <1>1, <1>8, <1>10 DEF N
=============================================================================
