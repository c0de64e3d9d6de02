--------------------------- MODULE Listener_proof ---------------------------
(***************************************************************************)
(* Proofs about the packet loop (Listener), for buffers of any size, any   *)
(* packet sizes that fit them and any writes of the traced process,        *)
(* wherever the reads cut the stream and SIGINT interrupts the loop, as    *)
(* long as the packets are buffered and the output can be written to.      *)
(*                                                                         *)
(* What has not been handled, in the input buffer and in the pipe, is a    *)
(* sequence of whole packets.  Therefore the loop leaves less than one     *)
(* packet in the buffer, and none when the pipe is empty: only then can a  *)
(* read wait and be interrupted, and ptr_in not matter.                    *)
(***************************************************************************)
EXTENDS Listener, Induction

Mapping == [from : Nat, to : Nat, module : STRING] \cup {NoMap}
Cell == [kind : Kinds, p : Nat \X Nat, i : Nat, map : Mapping]

\* Cells of whole packets: a cell that is a packet's first is followed by the
\* others, and those by the next packet's first.
Aligned(s) ==
    /\ s # <<>> => s[1].i = 1
    /\ \A k \in 1..Len(s) :
          s[k].i = 1 => /\ k + Size[s[k].kind] <= Len(s) + 1
                        /\ \A j \in k..(k + Size[s[k].kind] - 1) : s[j].kind = s[k].kind
                        /\ k + Size[s[k].kind] <= Len(s) => s[k + Size[s[k].kind]].i = 1

LEMMA Sizes ==
    /\ BufferSize \in Nat /\ BufferSize > 0
    /\ \A k \in Kinds : Size[k] \in Nat /\ Size[k] > 0 /\ Size[k] <= BufferSize
    /\ Size["HS"] < BufferSize
BY SizeAssumption

LEMMA KindNames == "HS" \in Kinds /\ "OS" \in Kinds /\ "NL" \in Kinds /\ "MM" \in Kinds
BY DEF Kinds

LEMMA NoMapping == NoMap \in Mapping
BY DEF Mapping

\* The cells of a packet.
LEMMA CellsOfPacket ==
    ASSUME NEW kind \in Kinds, NEW p \in Nat \X Nat, NEW map \in Mapping
    PROVE  /\ Cells(kind, p, map) \in Seq(Cell) /\ Len(Cells(kind, p, map)) = Size[kind]
           /\ \A k \in 1..Size[kind] : Cells(kind, p, map)[k].kind = kind
           /\ Aligned(Cells(kind, p, map))
<1> DEFINE s == Cells(kind, p, map)
<1>0. Size[kind] \in Nat /\ Size[kind] > 0
    BY Sizes
<1>1. \A k \in 1..Size[kind] : [kind |-> kind, p |-> p, i |-> k, map |-> map] \in Cell
    BY <1>0 DEF Cell
<1>2. s \in Seq(Cell) /\ Len(s) = Size[kind]
    BY <1>0, <1>1 DEF Cells
<1>3. \A k \in 1..Size[kind] : s[k].kind = kind /\ s[k].i = k
    BY DEF Cells
<1> HIDE DEF s
<1>4. Aligned(s)
    BY <1>0, <1>2, <1>3 DEF Aligned
<1> QED BY <1>2, <1>3, <1>4 DEF s

LEMMA CellAt ==
    ASSUME NEW s \in Seq(Cell), NEW k \in 1..Len(s)
    PROVE  s[k].kind \in Kinds /\ Size[s[k].kind] \in Nat /\ Size[s[k].kind] > 0
           /\ Size[s[k].kind] <= BufferSize
<1>1. s[k] \in Cell
    OBVIOUS
<1>2. s[k].kind \in Kinds
    BY <1>1 DEF Cell
<1> QED BY <1>2, Sizes

\* Whole packets followed by whole packets.
LEMMA AlignedConcat ==
    ASSUME NEW s \in Seq(Cell), NEW t \in Seq(Cell), Aligned(s), Aligned(t)
    PROVE  Aligned(s \o t)
<1>0. Len(s) \in Nat /\ Len(t) \in Nat /\ Len(s \o t) = Len(s) + Len(t) /\ s \o t \in Seq(Cell)
    OBVIOUS
<1>1. /\ \A k \in 1..Len(s) : (s \o t)[k] = s[k]
      /\ \A k \in 1..Len(t) : (s \o t)[Len(s) + k] = t[k]
    BY ConcatAt
<1>2. /\ \A k \in 1..Len(s) : s[k].kind \in Kinds
      /\ \A k \in 1..Len(t) : t[k].kind \in Kinds
    BY CellAt
<1>3. s \o t # <<>> => (s \o t)[1].i = 1
    <2>1. CASE Len(s) = 0
        <3>1. Len(t) > 0 => (s \o t)[1] = t[1] /\ t # <<>>
            BY <1>0, <1>1, <2>1
        <3>2. s \o t # <<>> => Len(t) > 0
            BY <1>0, <2>1
        <3> QED BY <3>1, <3>2 DEF Aligned
    <2>2. CASE Len(s) > 0
        <3>1. (s \o t)[1] = s[1] /\ s # <<>>
            BY <1>0, <1>1, <2>2
        <3> QED BY <3>1 DEF Aligned
    <2> QED BY <1>0, <2>1, <2>2
<1>4. ASSUME NEW k \in 1..Len(s \o t), (s \o t)[k].i = 1
      PROVE  /\ k + Size[(s \o t)[k].kind] <= Len(s \o t) + 1
             /\ \A j \in k..(k + Size[(s \o t)[k].kind] - 1) : (s \o t)[j].kind = (s \o t)[k].kind
             /\ k + Size[(s \o t)[k].kind] <= Len(s \o t)
                   => (s \o t)[k + Size[(s \o t)[k].kind]].i = 1
    <2>1. CASE k <= Len(s)
        <3> DEFINE len == Size[s[k].kind]
        <3>1. (s \o t)[k] = s[k] /\ k \in 1..Len(s) /\ len \in Nat /\ len > 0
            BY <1>0, <1>1, <1>2, <2>1, Sizes
        <3>2. /\ k + len <= Len(s) + 1
              /\ \A j \in k..(k + len - 1) : s[j].kind = s[k].kind
              /\ k + len <= Len(s) => s[k + len].i = 1
            BY <1>4, <3>1 DEF Aligned
        <3> HIDE DEF len
        <3>3. \A j \in k..(k + len - 1) : (s \o t)[j] = s[j]
            BY <1>0, <1>1, <3>1, <3>2
        <3>4. k + len <= Len(s) => (s \o t)[k + len].i = 1
            BY <1>0, <1>1, <3>1, <3>2
        <3>5. k + len = Len(s) + 1 /\ k + len <= Len(s \o t) => (s \o t)[k + len].i = 1
            <4> SUFFICES ASSUME k + len = Len(s) + 1, k + len <= Len(s \o t)
                         PROVE  (s \o t)[k + len].i = 1
                OBVIOUS
            <4>1. Len(t) > 0 /\ 1 \in 1..Len(t)
                BY <1>0, <3>1
            <4>2. (s \o t)[Len(s) + 1] = t[1] /\ t # <<>>
                BY <1>1, <4>1
            <4> QED BY <4>2 DEF Aligned
        <3>6. k + len <= Len(s \o t) + 1
            BY <1>0, <3>1, <3>2
        <3>7. k + len <= Len(s \o t) => (s \o t)[k + len].i = 1
            BY <1>0, <3>1, <3>2, <3>4, <3>5
        <3> QED BY <3>1, <3>2, <3>3, <3>6, <3>7 DEF len
    <2>2. CASE k > Len(s)
        <3>1. PICK m \in 1..Len(t) : k = Len(s) + m
            <4>1. k \in Nat /\ k <= Len(s) + Len(t)
                BY <1>0
            <4>2. k - Len(s) \in 1..Len(t) /\ k = Len(s) + (k - Len(s))
                BY <1>0, <2>2, <4>1
            <4> QED BY <4>2
        <3> DEFINE len == Size[t[m].kind]
        <3>2. (s \o t)[k] = t[m] /\ len \in Nat /\ len > 0
            BY <1>0, <1>1, <1>2, <3>1, Sizes
        <3>3. /\ m + len <= Len(t) + 1
              /\ \A j \in m..(m + len - 1) : t[j].kind = t[m].kind
              /\ m + len <= Len(t) => t[m + len].i = 1
            BY <1>4, <3>2 DEF Aligned
        <3> HIDE DEF len
        <3>4. ASSUME NEW j \in k..(k + len - 1) PROVE (s \o t)[j].kind = t[m].kind
            <4>1. PICK l \in m..(m + len - 1) : j = Len(s) + l
                <5>1. j - Len(s) \in m..(m + len - 1) /\ j = Len(s) + (j - Len(s))
                    BY <1>0, <3>1, <3>2
                <5> QED BY <5>1
            <4>2. l \in 1..Len(t)
                BY <1>0, <3>2, <3>3
            <4>3. (s \o t)[j] = t[l]
                BY <1>1, <4>1, <4>2
            <4> QED BY <3>3, <4>3
        <3>5. k + len <= Len(s \o t) => (s \o t)[k + len].i = 1
            <4> SUFFICES ASSUME k + len <= Len(s \o t) PROVE (s \o t)[k + len].i = 1
                OBVIOUS
            <4>1. m + len \in 1..Len(t) /\ k + len = Len(s) + (m + len)
                BY <1>0, <3>1, <3>2
            <4>2. (s \o t)[k + len] = t[m + len]
                BY <1>1, <4>1
            <4>3. m + len <= Len(t)
                BY <1>0, <4>1
            <4> QED BY <3>3, <4>2, <4>3
        <3>6. k + len <= Len(s \o t) + 1
            BY <1>0, <3>1, <3>2, <3>3
        <3> QED BY <3>2, <3>4, <3>5, <3>6 DEF len
    <2>3. k <= Len(s) \/ k > Len(s)
        BY <1>0
    <2> QED BY <2>1, <2>2, <2>3
<1> QED BY <1>3, <1>4 DEF Aligned

\* A sequence is what it begins with and what is left of it.
LEMMA Pieces ==
    ASSUME NEW s \in Seq(Cell), NEW k \in 0..Len(s)
    PROVE  /\ SubSeq(s, 1, k) \in Seq(Cell) /\ Len(SubSeq(s, 1, k)) = k
           /\ Drop(s, k) \in Seq(Cell) /\ Len(Drop(s, k)) = Len(s) - k
           /\ \A j \in 1..k : SubSeq(s, 1, k)[j] = s[j]
           /\ \A j \in 1..(Len(s) - k) : Drop(s, k)[j] = s[k + j]
           /\ SubSeq(s, 1, k) \o Drop(s, k) = s
<1>0. k \in Nat /\ Len(s) \in Nat /\ k <= Len(s)
    OBVIOUS
<1>1. \A j \in 1..Len(s) : s[j] \in Cell
    OBVIOUS
<1>2. SubSeq(s, 1, k) \in Seq(Cell) /\ Len(SubSeq(s, 1, k)) = k
      /\ \A j \in 1..k : SubSeq(s, 1, k)[j] = s[j]
    BY <1>0, <1>1
<1>3. Drop(s, k) \in Seq(Cell) /\ Len(Drop(s, k)) = Len(s) - k
    BY <1>0, <1>1 DEF Drop
<1>4. ASSUME NEW j \in 1..(Len(s) - k) PROVE Drop(s, k)[j] = s[k + j]
    <2>1. (k + 1) + j - 1 = k + j /\ j \in 1..(Len(s) - (k + 1) + 1)
        BY <1>0
    <2> QED BY <1>0, <1>1, <2>1 DEF Drop
<1>5. SubSeq(s, 1, k) \o SubSeq(s, k + 1, Len(s)) = SubSeq(s, 1, Len(s))
    <2>1. 1 \in 1..(Len(s) + 1) /\ k \in (1 - 1)..Len(s) /\ Len(s) \in k..Len(s)
        BY <1>0
    <2> QED BY <2>1, ConcatAdjacentSubSeq
<1>6. SubSeq(s, 1, Len(s)) = s
    BY SubSeqFull
<1> QED BY <1>2, <1>3, <1>4, <1>5, <1>6 DEF Drop

LEMMA Prefix ==
    ASSUME NEW d \in Seq(Cell), NEW r \in Seq(Cell)
    PROVE  SubSeq(d \o r, 1, Len(d)) = d /\ Len(d \o r) - Len(r) = Len(d)
<1> DEFINE s == d \o r
<1>1. s \in Seq(Cell) /\ Len(s) = Len(d) + Len(r) /\ Len(d) \in Nat /\ Len(r) \in Nat
      /\ \A k \in 1..Len(d) : s[k] = d[k]
    BY ConcatAt
<1> HIDE DEF s
<1>2. Len(d) \in 0..Len(s)
    BY <1>1
<1>3. /\ SubSeq(s, 1, Len(d)) \in Seq(Cell) /\ Len(SubSeq(s, 1, Len(d))) = Len(d)
      /\ \A j \in 1..Len(d) : SubSeq(s, 1, Len(d))[j] = s[j]
    BY <1>1, <1>2, Pieces
<1>4. SubSeq(s, 1, Len(d)) = d
    BY <1>1, <1>3, SeqEqual
<1>5. Len(s) - Len(r) = Len(d)
    BY <1>1
<1> QED BY <1>4, <1>5 DEF s

\* The first of several whole packets, and what follows it.
LEMMA AlignedDrop ==
    ASSUME NEW s \in Seq(Cell), Aligned(s), s # <<>>
    PROVE  LET len == Size[s[1].kind]
           IN  /\ s[1].i = 1 /\ s[1].kind \in Kinds
               /\ len \in 1..Len(s) /\ len \in 0..Len(s) /\ len <= BufferSize
               /\ \A j \in 1..len : s[j].kind = s[1].kind
               /\ Aligned(Drop(s, len))
<1> DEFINE len == Size[s[1].kind]
           t == Drop(s, len)
<1>0. Len(s) \in Nat /\ Len(s) > 0 /\ 1 \in 1..Len(s)
    OBVIOUS
<1>1. s[1].kind \in Kinds /\ len \in Nat /\ len > 0 /\ len <= BufferSize
    BY <1>0, CellAt
<1>2. /\ s[1].i = 1 /\ 1 + len <= Len(s) + 1
      /\ \A j \in 1..(1 + len - 1) : s[j].kind = s[1].kind
      /\ (1 + len <= Len(s) => s[1 + len].i = 1)
    BY <1>0 DEF Aligned
<1> HIDE DEF len
<1>3. len \in 1..Len(s) /\ len \in 0..Len(s) /\ 1 + len - 1 = len
    BY <1>0, <1>1, <1>2
<1>4. t \in Seq(Cell) /\ Len(t) = Len(s) - len /\ \A j \in 1..(Len(s) - len) : t[j] = s[len + j]
    BY <1>3, Pieces
<1> HIDE DEF t
<1>5. t # <<>> => t[1].i = 1
    <2> SUFFICES ASSUME t # <<>> PROVE t[1].i = 1
        OBVIOUS
    <2>1. Len(t) > 0 /\ Len(t) \in Nat
        BY <1>4
    <2>2. 1 \in 1..(Len(s) - len) /\ 1 + len <= Len(s) /\ len + 1 = 1 + len
        BY <1>0, <1>1, <1>4, <2>1
    <2>3. t[1] = s[len + 1]
        BY <1>4, <2>2
    <2>4. s[1 + len].i = 1
        BY <1>2, <2>2
    <2> QED BY <2>2, <2>3, <2>4
<1>6. ASSUME NEW k \in 1..Len(t), t[k].i = 1
      PROVE  /\ k + Size[t[k].kind] <= Len(t) + 1
             /\ \A j \in k..(k + Size[t[k].kind] - 1) : t[j].kind = t[k].kind
             /\ k + Size[t[k].kind] <= Len(t) => t[k + Size[t[k].kind]].i = 1
    <2> DEFINE l == Size[t[k].kind]
    <2>1. l \in Nat /\ l > 0
        BY <1>4, CellAt
    <2>2. len + k \in 1..Len(s) /\ t[k] = s[len + k]
        BY <1>0, <1>1, <1>4
    <2>3. /\ (len + k) + l <= Len(s) + 1
          /\ \A j \in (len + k)..((len + k) + l - 1) : s[j].kind = s[len + k].kind
          /\ (len + k) + l <= Len(s) => s[(len + k) + l].i = 1
        BY <1>6, <2>2 DEF Aligned
    <2> HIDE DEF l
    <2>4. k + l <= Len(t) + 1
        BY <1>0, <1>1, <1>4, <2>1, <2>3
    <2>5. ASSUME NEW j \in k..(k + l - 1) PROVE t[j].kind = t[k].kind
        <3>1. j \in 1..(Len(s) - len) /\ len + j \in (len + k)..((len + k) + l - 1)
            BY <1>0, <1>1, <1>4, <2>1, <2>4
        <3> QED BY <1>4, <2>2, <2>3, <3>1
    <2>6. k + l <= Len(t) => t[k + l].i = 1
        <3> SUFFICES ASSUME k + l <= Len(t) PROVE t[k + l].i = 1
            OBVIOUS
        <3>1. k + l \in 1..(Len(s) - len) /\ len + (k + l) = (len + k) + l /\ (len + k) + l <= Len(s)
            BY <1>0, <1>1, <1>4, <2>1
        <3> QED BY <1>4, <2>3, <3>1
    <2> QED BY <2>4, <2>5, <2>6 DEF l
<1>7. Aligned(t)
    BY <1>5, <1>6 DEF Aligned
<1> QED BY <1>1, <1>2, <1>3, <1>7 DEF len, t

LEMMA Associative ==
    \A a, b, c \in Seq(Cell) : (a \o b) \o c = a \o (b \o c)
BY ConcatAssociative

-----------------------------------------------------------------------------
\* What Without keeps of a cell, and of the first cells of a sequence.
Keep(c, kind) == IF c.kind = kind THEN <<>> ELSE <<c>>
Keeping(f, s, kind) ==
    /\ \A k \in 0..Len(s) : f[k] \in Seq(Cell)
    /\ f[0] = <<>>
    /\ \A k \in 1..Len(s) : f[k] = f[k - 1] \o Keep(s[k], kind)

LEMMA KeepCell ==
    ASSUME NEW c \in Cell, NEW kind
    PROVE  Keep(c, kind) \in Seq(Cell)
BY DEF Keep

LEMMA WithoutSteps ==
    ASSUME NEW s \in Seq(Cell), NEW kind
    PROVE  \E f : Keeping(f, s, kind) /\ Without(s, kind) = f[Len(s)]
<1> DEFINE N == Len(s)
           e == [k \in 1..N |-> Keep(s[k], kind)]
           F == CHOOSE f : f = [k \in 0..N |-> IF k = 0 THEN <<>>
                                ELSE f[k - 1] \o (IF s[k].kind = kind THEN <<>> ELSE <<s[k]>>)]
<1>0. N \in Nat /\ \A k \in 1..N : s[k] \in Cell
    OBVIOUS
<1>1. Without(s, kind) = F[N]
    BY DEF Without
<1>2. e \in [1..N -> Seq(Cell)] /\ \A k \in 1..N : e[k] = Keep(s[k], kind)
    BY <1>0, KeepCell
<1> HIDE DEF N, e
<1>3. PICK g \in [0..N -> Seq(Cell)] : g[0] = <<>> /\ \A k \in 1..N : g[k] = g[k - 1] \o e[k]
    BY <1>0, <1>2, Concatenation
<1>4. \A k \in 0..N : g[k] = IF k = 0 THEN <<>>
                             ELSE g[k - 1] \o (IF s[k].kind = kind THEN <<>> ELSE <<s[k]>>)
    <2> SUFFICES ASSUME NEW k \in 0..N
                 PROVE  g[k] = IF k = 0 THEN <<>>
                               ELSE g[k - 1] \o (IF s[k].kind = kind THEN <<>> ELSE <<s[k]>>)
        OBVIOUS
    <2>1. CASE k = 0
        BY <1>3, <2>1
    <2>2. CASE k # 0
        <3>1. k \in 1..N
            BY <1>0, <2>2
        <3>2. g[k] = g[k - 1] \o Keep(s[k], kind)
            BY <1>2, <1>3, <3>1
        <3> QED BY <2>2, <3>2 DEF Keep
    <2> QED BY <2>1, <2>2
<1>5. g = [k \in 0..N |-> IF k = 0 THEN <<>>
                          ELSE g[k - 1] \o (IF s[k].kind = kind THEN <<>> ELSE <<s[k]>>)]
    BY <1>4
<1>6. F = [k \in 0..N |-> IF k = 0 THEN <<>>
                          ELSE F[k - 1] \o (IF s[k].kind = kind THEN <<>> ELSE <<s[k]>>)]
    BY <1>5
<1> HIDE DEF F
<1>7. F[0] = <<>> /\ \A k \in 1..N : F[k] = F[k - 1] \o Keep(s[k], kind)
    <2>1. \A k \in 0..N : F[k] = IF k = 0 THEN <<>>
                                 ELSE F[k - 1] \o (IF s[k].kind = kind THEN <<>> ELSE <<s[k]>>)
        BY <1>6
    <2>2. 0 \in 0..N /\ \A k \in 1..N : k \in 0..N /\ k # 0
        BY <1>0
    <2> QED BY <2>1, <2>2 DEF Keep
<1> DEFINE M == {k \in 0..N : F[k] \in Seq(Cell)}
<1>8. M \in SUBSET (0..N) /\ 0 \in M
    <2>1. 0 \in 0..N /\ F[0] \in Seq(Cell)
        BY <1>0, <1>7
    <2> QED BY <2>1
<1>9. ASSUME NEW k \in M, k < N PROVE k + 1 \in M
    <2>1. k + 1 \in 1..N /\ k + 1 \in 0..N /\ (k + 1) - 1 = k /\ F[k] \in Seq(Cell)
        BY <1>0, <1>9
    <2>2. F[k + 1] = F[(k + 1) - 1] \o Keep(s[k + 1], kind)
        BY <1>7, <2>1
    <2>3. Keep(s[k + 1], kind) \in Seq(Cell)
        BY <1>0, <2>1, KeepCell
    <2>4. F[k + 1] = F[k] \o Keep(s[k + 1], kind)
        BY <2>1, <2>2
    <2>5. F[k + 1] \in Seq(Cell)
        BY <2>1, <2>3, <2>4
    <2> QED BY <2>1, <2>5
<1>10. M = 0..N
    <2> HIDE DEF M
    <2> QED BY <1>0, <1>8, <1>9, BoundedInduction
<1>11. \A k \in 0..N : F[k] \in Seq(Cell)
    BY <1>10
<1> QED BY <1>1, <1>7, <1>11 DEF Keeping, N

LEMMA WithoutTyped ==
    ASSUME NEW s \in Seq(Cell), NEW kind
    PROVE  Without(s, kind) \in Seq(Cell)
<1>1. PICK f : Keeping(f, s, kind) /\ Without(s, kind) = f[Len(s)]
    BY WithoutSteps
<1>2. Len(s) \in 0..Len(s)
    OBVIOUS
<1> QED BY <1>1, <1>2 DEF Keeping

LEMMA WithoutConcat ==
    ASSUME NEW s \in Seq(Cell), NEW t \in Seq(Cell), NEW kind
    PROVE  Without(s \o t, kind) = Without(s, kind) \o Without(t, kind)
<1> DEFINE u == s \o t
<1>0. /\ Len(s) \in Nat /\ Len(t) \in Nat /\ Len(u) = Len(s) + Len(t) /\ u \in Seq(Cell)
      /\ \A k \in 1..Len(s) : u[k] = s[k]
      /\ \A k \in 1..Len(t) : u[Len(s) + k] = t[k]
    BY ConcatAt
<1> HIDE DEF u
<1>1. PICK f : Keeping(f, s, kind) /\ Without(s, kind) = f[Len(s)]
    BY WithoutSteps
<1>2. PICK g : Keeping(g, t, kind) /\ Without(t, kind) = g[Len(t)]
    BY WithoutSteps
<1>3. PICK h : Keeping(h, u, kind) /\ Without(u, kind) = h[Len(u)]
    BY <1>0, WithoutSteps
<1>4. h[Len(s)] = f[Len(s)]
    <2> DEFINE M == {k \in 0..Len(s) : h[k] = f[k]}
    <2>1. M \in SUBSET (0..Len(s)) /\ 0 \in M
        BY <1>0, <1>1, <1>3 DEF Keeping
    <2>2. ASSUME NEW k \in M, k < Len(s) PROVE k + 1 \in M
        <3>1. k + 1 \in 1..Len(s) /\ k + 1 \in 1..Len(u) /\ k + 1 \in 0..Len(s) /\ (k + 1) - 1 = k
            BY <1>0, <2>2
        <3>2. h[k + 1] = h[(k + 1) - 1] \o Keep(u[k + 1], kind)
            BY <1>3, <3>1 DEF Keeping
        <3>3. f[k + 1] = f[(k + 1) - 1] \o Keep(s[k + 1], kind)
            BY <1>1, <3>1 DEF Keeping
        <3>4. u[k + 1] = s[k + 1]
            BY <1>0, <3>1
        <3>5. h[k] = f[k]
            OBVIOUS
        <3> QED BY <3>1, <3>2, <3>3, <3>4, <3>5
    <2> HIDE DEF M
    <2>3. M = 0..Len(s)
        BY <1>0, <2>1, <2>2, BoundedInduction
    <2>4. Len(s) \in M
        BY <1>0, <2>3
    <2> QED BY <2>4 DEF M
<1>5. h[Len(s) + Len(t)] = f[Len(s)] \o g[Len(t)]
    <2> DEFINE M == {k \in 0..Len(t) : h[Len(s) + k] = f[Len(s)] \o g[k]}
    <2>0. f[Len(s)] \in Seq(Cell)
        <3>1. Len(s) \in 0..Len(s)
            BY <1>0
        <3> QED BY <1>1, <3>1 DEF Keeping
    <2>1. M \in SUBSET (0..Len(t)) /\ 0 \in M
        <3>1. Len(s) + 0 = Len(s) /\ 0 \in 0..Len(t)
            BY <1>0
        <3>2. g[0] = <<>> /\ f[Len(s)] \o <<>> = f[Len(s)]
            BY <1>2, <2>0, ConcatEmptySeq DEF Keeping
        <3> QED BY <1>4, <3>1, <3>2
    <2>2. ASSUME NEW k \in M, k < Len(t) PROVE k + 1 \in M
        <3>1. /\ k + 1 \in 1..Len(t) /\ k + 1 \in 0..Len(t) /\ k \in 0..Len(t)
              /\ Len(s) + (k + 1) \in 1..Len(u)
              /\ (k + 1) - 1 = k /\ (Len(s) + (k + 1)) - 1 = Len(s) + k
            BY <1>0, <2>2
        <3>2. h[Len(s) + (k + 1)] = h[Len(s) + k] \o Keep(t[k + 1], kind)
            <4>1. h[Len(s) + (k + 1)] = h[(Len(s) + (k + 1)) - 1] \o Keep(u[Len(s) + (k + 1)], kind)
                BY <1>3, <3>1 DEF Keeping
            <4>2. u[Len(s) + (k + 1)] = t[k + 1]
                BY <1>0, <3>1
            <4> QED BY <3>1, <4>1, <4>2
        <3>3. g[k + 1] = g[k] \o Keep(t[k + 1], kind)
            <4>1. g[k + 1] = g[(k + 1) - 1] \o Keep(t[k + 1], kind)
                BY <1>2, <3>1 DEF Keeping
            <4> QED BY <3>1, <4>1
        <3>4. h[Len(s) + k] = f[Len(s)] \o g[k]
            OBVIOUS
        <3>5. g[k] \in Seq(Cell) /\ Keep(t[k + 1], kind) \in Seq(Cell)
            <4>1. t[k + 1] \in Cell
                BY <3>1
            <4> QED BY <1>2, <3>1, <4>1, KeepCell DEF Keeping
        <3> DEFINE a == f[Len(s)]
                   b == g[k]
                   c == Keep(t[k + 1], kind)
        <3>6. (a \o b) \o c = a \o (b \o c)
            <4> HIDE DEF a, b, c
            <4>1. a \in Seq(Cell) /\ b \in Seq(Cell) /\ c \in Seq(Cell)
                BY <2>0, <3>5 DEF a, b, c
            <4> QED BY <4>1, Associative
        <3>7. h[Len(s) + (k + 1)] = f[Len(s)] \o g[k + 1]
            BY <3>2, <3>3, <3>4, <3>6
        <3> QED BY <3>1, <3>7
    <2> HIDE DEF M
    <2>3. M = 0..Len(t)
        BY <1>0, <2>1, <2>2, BoundedInduction
    <2>4. Len(t) \in M
        BY <1>0, <2>3
    <2> QED BY <2>4 DEF M
<1> QED BY <1>0, <1>1, <1>2, <1>3, <1>5 DEF u

\* Cells that are all of the kind, or none of them.
LEMMA WithoutAll ==
    ASSUME NEW s \in Seq(Cell), NEW kind, \A k \in 1..Len(s) : s[k].kind = kind
    PROVE  Without(s, kind) = <<>>
<1>1. PICK f : Keeping(f, s, kind) /\ Without(s, kind) = f[Len(s)]
    BY WithoutSteps
<1> DEFINE M == {k \in 0..Len(s) : f[k] = <<>>}
<1>2. M \in SUBSET (0..Len(s)) /\ 0 \in M /\ Len(s) \in Nat
    BY <1>1 DEF Keeping
<1>3. ASSUME NEW k \in M, k < Len(s) PROVE k + 1 \in M
    <2>1. k + 1 \in 1..Len(s) /\ k + 1 \in 0..Len(s) /\ (k + 1) - 1 = k /\ f[k] = <<>>
        BY <1>2, <1>3
    <2>2. f[k + 1] = f[(k + 1) - 1] \o Keep(s[k + 1], kind)
        BY <1>1, <2>1 DEF Keeping
    <2>3. Keep(s[k + 1], kind) = <<>>
        BY <2>1 DEF Keep
    <2>4. <<>> \o <<>> = <<>>
        OBVIOUS
    <2> QED BY <2>1, <2>2, <2>3, <2>4
<1> HIDE DEF M
<1>4. M = 0..Len(s)
    BY <1>2, <1>3, BoundedInduction
<1>5. Len(s) \in M
    BY <1>2, <1>4
<1> QED BY <1>1, <1>5 DEF M

LEMMA WithoutNone ==
    ASSUME NEW s \in Seq(Cell), NEW kind, \A k \in 1..Len(s) : s[k].kind # kind
    PROVE  Without(s, kind) = s
<1>1. PICK f : Keeping(f, s, kind) /\ Without(s, kind) = f[Len(s)]
    BY WithoutSteps
<1> DEFINE M == {k \in 0..Len(s) : f[k] = SubSeq(s, 1, k)}
<1>2. M \in SUBSET (0..Len(s)) /\ 0 \in M /\ Len(s) \in Nat
    BY <1>1, SubSeqEmpty DEF Keeping
<1>3. ASSUME NEW k \in M, k < Len(s) PROVE k + 1 \in M
    <2>1. k + 1 \in 1..Len(s) /\ k + 1 \in 0..Len(s) /\ (k + 1) - 1 = k /\ f[k] = SubSeq(s, 1, k)
        BY <1>2, <1>3
    <2>2. f[k + 1] = f[(k + 1) - 1] \o Keep(s[k + 1], kind)
        BY <1>1, <2>1 DEF Keeping
    <2>3. Keep(s[k + 1], kind) = <<s[k + 1]>>
        BY <2>1 DEF Keep
    <2>4. SubSeq(s, 1, k + 1) = SubSeq(s, 1, k) \o <<s[k + 1]>>
        BY <1>2, <2>1
    <2> QED BY <2>1, <2>2, <2>3, <2>4
<1> HIDE DEF M
<1>4. M = 0..Len(s)
    BY <1>2, <1>3, BoundedInduction
<1>5. f[Len(s)] = SubSeq(s, 1, Len(s))
    BY <1>2, <1>4 DEF M
<1> QED BY <1>1, <1>5, SubSeqFull

-----------------------------------------------------------------------------
\* What the process sends: the handshake, the output settings and then
\* neither of these nor a memory mapping packet.
Begins(s) ==
    \A j \in 1..Len(s) :
        /\ s[j].kind = "HS" <=> j <= Size["HS"]
        /\ s[j].kind = "OS" <=> j > Size["HS"] /\ j <= Size["HS"] + Size["OS"]
        /\ s[j].kind # "MM"
Later(s) == \A j \in 1..Len(s) : s[j].kind \notin {"HS", "OS", "MM"}

LEMMA BeginsConcat ==
    ASSUME NEW s \in Seq(Cell), NEW t \in Seq(Cell), Begins(s), Later(t),
           Len(s) >= Size["HS"] + Size["OS"]
    PROVE  Begins(s \o t)
<1> DEFINE u == s \o t
<1>1. /\ Len(s) \in Nat /\ Len(t) \in Nat /\ Len(u) = Len(s) + Len(t)
      /\ \A k \in 1..Len(s) : u[k] = s[k]
      /\ \A k \in 1..Len(t) : u[Len(s) + k] = t[k]
    BY ConcatAt
<1> HIDE DEF u
<1>2. Size["HS"] \in Nat /\ Size["OS"] \in Nat
    BY Sizes, KindNames
<1>3. ASSUME NEW j \in 1..Len(u)
      PROVE  /\ u[j].kind = "HS" <=> j <= Size["HS"]
             /\ u[j].kind = "OS" <=> j > Size["HS"] /\ j <= Size["HS"] + Size["OS"]
             /\ u[j].kind # "MM"
    <2>1. CASE j <= Len(s)
        <3>1. j \in 1..Len(s) /\ u[j] = s[j]
            BY <1>1, <2>1
        <3> QED BY <3>1 DEF Begins
    <2>2. CASE j > Len(s)
        <3>1. PICK m \in 1..Len(t) : j = Len(s) + m
            <4>1. j - Len(s) \in 1..Len(t) /\ j = Len(s) + (j - Len(s))
                BY <1>1, <2>2
            <4> QED BY <4>1
        <3>2. u[j].kind \notin {"HS", "OS", "MM"}
            BY <1>1, <3>1 DEF Later
        <3>3. ~(j <= Size["HS"]) /\ ~(j <= Size["HS"] + Size["OS"])
            BY <1>1, <1>2, <2>2, <3>1
        <3> QED BY <3>2, <3>3
    <2>3. j <= Len(s) \/ j > Len(s)
        BY <1>1
    <2> QED BY <2>1, <2>2, <2>3
<1> QED BY <1>3 DEF Begins, u

LEMMA LaterConcat ==
    ASSUME NEW s \in Seq(Cell), NEW t \in Seq(Cell), Later(s), Later(t)
    PROVE  Later(s \o t)
<1> DEFINE u == s \o t
<1>1. /\ Len(s) \in Nat /\ Len(t) \in Nat /\ Len(u) = Len(s) + Len(t)
      /\ \A k \in 1..Len(s) : u[k] = s[k]
      /\ \A k \in 1..Len(t) : u[Len(s) + k] = t[k]
    BY ConcatAt
<1> HIDE DEF u
<1>2. ASSUME NEW j \in 1..Len(u) PROVE u[j].kind \notin {"HS", "OS", "MM"}
    <2>1. CASE j <= Len(s)
        <3>1. j \in 1..Len(s) /\ u[j] = s[j]
            BY <1>1, <2>1
        <3> QED BY <3>1 DEF Later
    <2>2. CASE j > Len(s)
        <3>1. PICK m \in 1..Len(t) : j = Len(s) + m
            <4>1. j - Len(s) \in 1..Len(t) /\ j = Len(s) + (j - Len(s))
                BY <1>1, <2>2
            <4> QED BY <4>1
        <3> QED BY <1>1, <3>1 DEF Later
    <2>3. j <= Len(s) \/ j > Len(s)
        BY <1>1
    <2> QED BY <2>1, <2>2, <2>3
<1> QED BY <1>2 DEF Later, u

\* The first two packets.
LEMMA BeginsPackets ==
    ASSUME NEW s \in Seq(Cell), NEW t \in Seq(Cell),
           Len(s) = Size["HS"], \A k \in 1..Len(s) : s[k].kind = "HS",
           Len(t) = Size["OS"], \A k \in 1..Len(t) : t[k].kind = "OS"
    PROVE  Begins(s) /\ Begins(s \o t) /\ Len(s \o t) = Size["HS"] + Size["OS"]
<1> DEFINE u == s \o t
<1>1. /\ Len(s) \in Nat /\ Len(t) \in Nat /\ Len(u) = Len(s) + Len(t)
      /\ \A k \in 1..Len(s) : u[k] = s[k]
      /\ \A k \in 1..Len(t) : u[Len(s) + k] = t[k]
    <2>1. s \in Seq(Cell) /\ t \in Seq(Cell)
        OBVIOUS
    <2> QED BY ONLY <2>1, ConcatAt DEF u
<1> HIDE DEF u
<1>2. Size["HS"] \in Nat /\ Size["OS"] \in Nat
    BY Sizes, KindNames
<1>3. Begins(s)
    BY <1>1, <1>2 DEF Begins
<1>4. ASSUME NEW j \in 1..Len(u)
      PROVE  /\ u[j].kind = "HS" <=> j <= Size["HS"]
             /\ u[j].kind = "OS" <=> j > Size["HS"] /\ j <= Size["HS"] + Size["OS"]
             /\ u[j].kind # "MM"
    <2>1. CASE j <= Len(s)
        <3>1. j \in 1..Len(s) /\ u[j] = s[j]
            BY <1>1, <2>1
        <3> QED BY <1>1, <1>2, <2>1, <3>1
    <2>2. CASE j > Len(s)
        <3>1. PICK m \in 1..Len(t) : j = Len(s) + m
            <4>1. j - Len(s) \in 1..Len(t) /\ j = Len(s) + (j - Len(s))
                BY <1>1, <2>2
            <4> QED BY <4>1
        <3>2. u[j].kind = "OS"
            BY <1>1, <3>1
        <3>3. ~(j <= Size["HS"]) /\ j > Size["HS"] /\ j <= Size["HS"] + Size["OS"]
            BY <1>1, <1>2, <2>2, <3>1
        <3> QED BY <3>2, <3>3
    <2>3. j <= Len(s) \/ j > Len(s)
        BY <1>1
    <2> QED BY <2>1, <2>2, <2>3
<1> QED BY <1>1, <1>3, <1>4 DEF Begins, u

\* The cells of a write.
LEMMA WrittenCells ==
    ASSUME NEW w \in 1..Len(Writes)
    PROVE  /\ WriteCells(w) \in Seq(Cell) /\ Aligned(WriteCells(w))
           /\ w = 1 => Begins(WriteCells(w)) /\ Len(WriteCells(w)) >= Size["HS"] + Size["OS"]
           /\ w > 1 => Later(WriteCells(w))
<1> DEFINE ks == Writes[w]
           N == Len(ks)
           seqs == [k \in DOMAIN Writes[w] |-> Cells(Writes[w][k], <<w, k>>, NoMap)]
           packet(k) == Cells(ks[k], <<w, k>>, NoMap)
<1>0. w \in Nat /\ w > 0 /\ Len(Writes) \in Nat
    BY WritesAssumption
<1>1. ks \in Seq(Kinds \ {"MM"}) /\ N \in Nat /\ DOMAIN ks = 1..N
    BY WritesAssumption
<1>2. /\ w = 1 => N > 1
      /\ \A k \in 1..N : /\ ks[k] = "HS" <=> w = 1 /\ k = 1
                         /\ ks[k] = "OS" <=> w = 1 /\ k = 2
                         /\ ks[k] \in Kinds /\ ks[k] # "MM"
    BY <1>0, <1>1, WritesAssumption
<1>3. \A k \in 1..N : <<w, k>> \in Nat \X Nat
    BY <1>0, <1>1
<1>4. \A k \in 1..N : /\ packet(k) \in Seq(Cell) /\ Len(packet(k)) = Size[ks[k]]
                      /\ \A j \in 1..Size[ks[k]] : packet(k)[j].kind = ks[k]
                      /\ Aligned(packet(k))
    <2> HIDE DEF ks
    <2> QED BY <1>2, <1>3, NoMapping, CellsOfPacket
<1>5. seqs \in Seq(Seq(Cell)) /\ Len(seqs) = N /\ \A k \in 1..N : seqs[k] = packet(k)
    BY <1>1, <1>4
<1>6. WriteCells(w) = FlattenSeq(seqs)
    BY DEF WriteCells
<1> HIDE DEF ks, N, seqs
<1>7. CASE N = 0
    <2>1. seqs = <<>> /\ w > 1
        BY <1>0, <1>2, <1>5, <1>7
    <2>2. WriteCells(w) = <<>>
        BY <1>6, <2>1 DEF FlattenSeq
    <2>3. Aligned(<<>>) /\ Later(<<>>)
        BY DEF Aligned, Later
    <2> QED BY <1>0, <2>1, <2>2, <2>3
<1>8. CASE N > 0
    <2>1. PICK f : /\ \A k \in 1..Len(seqs) : f[k] \in Seq(Cell)
                   /\ f[1] = seqs[1]
                   /\ \A k \in 2..Len(seqs) : f[k] = f[k - 1] \o seqs[k]
                   /\ FlattenSeq(seqs) = f[Len(seqs)]
        BY <1>5, <1>8, Flattened
    <2>2. /\ \A k \in 1..N : f[k] \in Seq(Cell)
          /\ f[1] = packet(1)
          /\ \A k \in 2..N : f[k] = f[k - 1] \o packet(k)
          /\ WriteCells(w) = f[N]
        <3>1. \A k \in 2..N : k \in 1..N
            BY <1>1
        <3>2. f[1] = packet(1)
            BY <1>1, <1>5, <1>8, <2>1
        <3>3. \A k \in 2..N : f[k] = f[k - 1] \o packet(k)
            BY <1>5, <2>1, <3>1
        <3>4. WriteCells(w) = f[N] /\ \A k \in 1..N : f[k] \in Seq(Cell)
            BY <1>5, <1>6, <2>1
        <3> QED BY <3>2, <3>3, <3>4
    <2>3. \A k \in 1..N : Len(packet(k)) = Size[ks[k]] /\ \A j \in 1..Len(packet(k)) : packet(k)[j].kind = ks[k]
        BY <1>4
    <2>4. \A k \in 1..N : (w > 1 \/ k > 2) => Later(packet(k))
        <3> SUFFICES ASSUME NEW k \in 1..N, w > 1 \/ k > 2 PROVE Later(packet(k))
            OBVIOUS
        <3>1. ks[k] \notin {"HS", "OS", "MM"}
            BY <1>0, <1>1, <1>2
        <3> HIDE DEF packet
        <3> QED BY <2>3, <3>1 DEF Later
    <2> DEFINE Good(k) ==
                   /\ Aligned(f[k])
                   /\ w = 1 => Begins(f[k]) /\ (k > 1 => Len(f[k]) >= Size["HS"] + Size["OS"])
                   /\ w > 1 => Later(f[k])
               M == {k \in 0..N : k > 0 => Good(k)}
    <2> HIDE DEF packet
    <2>5. w = 1 => Begins(f[1]) /\ Begins(f[1] \o packet(2))
                   /\ Len(f[1] \o packet(2)) = Size["HS"] + Size["OS"]
        <3> SUFFICES ASSUME w = 1 PROVE Begins(f[1]) /\ Begins(f[1] \o packet(2))
                                        /\ Len(f[1] \o packet(2)) = Size["HS"] + Size["OS"]
            OBVIOUS
        <3>1. 1 \in 1..N /\ 2 \in 1..N
            BY <1>1, <1>2
        <3>2. ks[1] = "HS" /\ ks[2] = "OS"
            BY <1>2, <3>1
        <3>3. /\ packet(1) \in Seq(Cell) /\ packet(2) \in Seq(Cell)
              /\ Len(packet(1)) = Size["HS"] /\ Len(packet(2)) = Size["OS"]
              /\ \A k \in 1..Len(packet(1)) : packet(1)[k].kind = "HS"
              /\ \A k \in 1..Len(packet(2)) : packet(2)[k].kind = "OS"
            BY <1>4, <2>3, <3>1, <3>2
        <3> QED BY <2>2, <3>3, BeginsPackets
    <2>6. M \in SUBSET (0..N) /\ 0 \in M
        BY <1>1
    <2>7. ASSUME NEW k \in M, k < N PROVE k + 1 \in M
        <3>1. k \in Nat /\ k + 1 \in 1..N /\ k + 1 \in 0..N /\ (k + 1) - 1 = k
            BY <1>1, <2>7
        <3>2. CASE k = 0
            <4>1. Aligned(f[1]) /\ (w > 1 => Later(f[1]))
                BY <1>4, <2>2, <2>4, <3>1, <3>2
            <4>2. Good(1)
                BY <2>5, <4>1
            <4> QED BY <3>1, <3>2, <4>2
        <3>3. CASE k > 0
            <4>1. k + 1 \in 2..N /\ k \in 1..N /\ Good(k)
                BY <1>1, <3>1, <3>3
            <4> HIDE DEF M
            <4>2. f[k + 1] = f[k] \o packet(k + 1) /\ f[k] \in Seq(Cell) /\ packet(k + 1) \in Seq(Cell)
                <5>1. f[k + 1] = f[(k + 1) - 1] \o packet(k + 1)
                    BY <2>2, <4>1
                <5> QED BY <1>4, <2>2, <3>1, <4>1, <5>1
            <4>3. Aligned(f[k + 1])
                BY <1>4, <3>1, <4>1, <4>2, AlignedConcat
            <4>4. w > 1 => Later(f[k + 1])
                BY <2>4, <3>1, <4>1, <4>2, LaterConcat
            <4>5. w = 1 => Begins(f[k + 1]) /\ Len(f[k + 1]) >= Size["HS"] + Size["OS"]
                <5> SUFFICES ASSUME w = 1
                             PROVE  Begins(f[k + 1]) /\ Len(f[k + 1]) >= Size["HS"] + Size["OS"]
                    OBVIOUS
                <5>0. Size["HS"] \in Nat /\ Size["OS"] \in Nat
                    BY Sizes, KindNames
                <5>1. CASE k = 1
                    BY <2>5, <4>2, <5>0, <5>1
                <5>2. CASE k > 1
                    <6>1. Later(packet(k + 1)) /\ Begins(f[k]) /\ Len(f[k]) >= Size["HS"] + Size["OS"]
                        <7>1. k + 1 > 2
                            BY <3>1, <5>2
                        <7> QED BY <2>4, <3>1, <4>1, <5>2, <7>1
                    <6>2. Len(f[k + 1]) = Len(f[k]) + Len(packet(k + 1)) /\ Len(f[k]) \in Nat
                          /\ Len(packet(k + 1)) \in Nat
                        BY <4>2
                    <6>3. Len(f[k + 1]) >= Size["HS"] + Size["OS"]
                        <7>1. \A a, b, c, d \in Nat : a >= c + d => a + b >= c + d
                            OBVIOUS
                        <7> QED BY <5>0, <6>1, <6>2, <7>1
                    <6>4. Begins(f[k + 1])
                        BY <4>2, <6>1, BeginsConcat
                    <6> QED BY <6>3, <6>4
                <5> QED BY <3>1, <3>3, <5>1, <5>2
            <4>6. Good(k + 1)
                BY <4>3, <4>4, <4>5
            <4> QED BY <3>1, <4>6 DEF M
        <3> QED BY <3>1, <3>2, <3>3
    <2>8. M = 0..N
        <3> HIDE DEF M
        <3> QED BY <1>1, <2>6, <2>7, BoundedInduction
    <2>9. N \in 0..N /\ N \in 1..N
        BY <1>1, <1>8
    <2>10. N \in M
        BY <2>8, <2>9
    <2>11. Good(N)
        BY <1>8, <2>10
    <2>12. w = 1 => N > 1
        BY <1>2
    <2> QED BY <2>2, <2>9, <2>11, <2>12
<1> QED BY <1>1, <1>7, <1>8

\* The cells of all writes up to one.
LEMMA SentIs ==
    ASSUME NEW w \in 0..Len(Writes)
    PROVE  /\ Sent[w] \in Seq(Cell) /\ Begins(Sent[w])
           /\ w > 0 => Len(Sent[w]) >= Size["HS"] + Size["OS"]
           /\ w < Len(Writes) => Sent[w + 1] = Sent[w] \o WriteCells(w + 1)
           /\ Sent[0] = <<>>
<1> DEFINE N == Len(Writes)
           e == [k \in 1..N |-> WriteCells(k)]
<1>0. N \in Nat
    BY WritesAssumption
<1>1. Sent = [k \in 0..N |-> IF k = 0 THEN <<>> ELSE Sent[k - 1] \o WriteCells(k)]
    <2>1. e \in [1..N -> Seq(Cell)]
        BY WrittenCells
    <2> HIDE DEF e, N
    <2>2. PICK g \in [0..N -> Seq(Cell)] : g[0] = <<>> /\ \A k \in 1..N : g[k] = g[k - 1] \o e[k]
        BY <1>0, <2>1, Concatenation
    <2>3. \A k \in 0..N : g[k] = IF k = 0 THEN <<>> ELSE g[k - 1] \o WriteCells(k)
        <3> SUFFICES ASSUME NEW k \in 0..N
                     PROVE  g[k] = IF k = 0 THEN <<>> ELSE g[k - 1] \o WriteCells(k)
            OBVIOUS
        <3>1. CASE k = 0
            BY <2>2, <3>1
        <3>2. CASE k # 0
            <4>1. k \in 1..N
                BY <1>0, <3>2
            <4>2. e[k] = WriteCells(k)
                BY <4>1 DEF e
            <4> QED BY <2>2, <3>2, <4>1, <4>2
        <3> QED BY <3>1, <3>2
    <2>4. g = [k \in 0..N |-> IF k = 0 THEN <<>> ELSE g[k - 1] \o WriteCells(k)]
        BY <2>3
    <2>5. Sent = CHOOSE f : f = [k \in 0..N |-> IF k = 0 THEN <<>> ELSE f[k - 1] \o WriteCells(k)]
        BY DEF Sent, N
    <2> QED BY <2>4, <2>5
<1> HIDE DEF N
<1>2. Sent[0] = <<>> /\ \A k \in 1..N : Sent[k] = Sent[k - 1] \o WriteCells(k)
    <2>1. \A k \in 0..N : Sent[k] = IF k = 0 THEN <<>> ELSE Sent[k - 1] \o WriteCells(k)
        BY <1>1
    <2>2. 0 \in 0..N /\ \A k \in 1..N : k \in 0..N /\ k # 0
        BY <1>0
    <2> QED BY <2>1, <2>2
<1> DEFINE Good(k) == /\ Sent[k] \in Seq(Cell) /\ Begins(Sent[k])
                      /\ k > 0 => Len(Sent[k]) >= Size["HS"] + Size["OS"]
           M == {k \in 0..N : Good(k)}
<1>3. M \in SUBSET (0..N) /\ 0 \in M
    <2>1. Good(0)
        BY <1>2 DEF Begins
    <2> QED BY <1>0, <2>1
<1>4. ASSUME NEW k \in 0..N, k < N PROVE Sent[k + 1] = Sent[k] \o WriteCells(k + 1)
    <2>1. k + 1 \in 1..N /\ (k + 1) - 1 = k
        BY <1>0, <1>4
    <2>2. Sent[k + 1] = Sent[(k + 1) - 1] \o WriteCells(k + 1)
        BY <1>2, <2>1
    <2> QED BY <2>1, <2>2
<1>5. ASSUME NEW k \in M, k < N PROVE k + 1 \in M
    <2>1. k \in 0..N /\ k + 1 \in 1..N /\ k + 1 \in 0..N /\ Good(k)
        BY <1>0, <1>5
    <2>2. Sent[k + 1] = Sent[k] \o WriteCells(k + 1)
        BY <1>4, <1>5, <2>1
    <2>3. /\ WriteCells(k + 1) \in Seq(Cell)
          /\ k + 1 = 1 => Begins(WriteCells(k + 1)) /\ Len(WriteCells(k + 1)) >= Size["HS"] + Size["OS"]
          /\ k + 1 > 1 => Later(WriteCells(k + 1))
        BY <2>1, WrittenCells DEF N
    <2>4. CASE k = 0
        <3>1. Sent[k + 1] = WriteCells(k + 1)
            BY <1>2, <2>2, <2>3, <2>4, ConcatEmptySeq
        <3>2. Good(k + 1)
            BY <2>3, <2>4, <3>1
        <3> QED BY <2>1, <3>2
    <2>5. CASE k > 0
        <3>0. Size["HS"] \in Nat /\ Size["OS"] \in Nat /\ k + 1 > 1
            BY Sizes, KindNames, <1>0, <2>1, <2>5
        <3>1. Begins(Sent[k + 1])
            BY <2>1, <2>2, <2>3, <2>5, <3>0, BeginsConcat
        <3>2. /\ Sent[k + 1] \in Seq(Cell) /\ Len(Sent[k + 1]) = Len(Sent[k]) + Len(WriteCells(k + 1))
              /\ Len(Sent[k]) \in Nat /\ Len(WriteCells(k + 1)) \in Nat
            BY <2>1, <2>2, <2>3
        <3>4. Len(Sent[k]) >= Size["HS"] + Size["OS"]
            BY <2>1, <2>5
        <3>5. Len(Sent[k + 1]) >= Size["HS"] + Size["OS"]
            <4>1. \A a, b, c, d \in Nat : a >= c + d => a + b >= c + d
                OBVIOUS
            <4> QED BY <3>0, <3>2, <3>4, <4>1
        <3>3. Good(k + 1)
            BY <3>1, <3>2, <3>5
        <3> QED BY <2>1, <3>3
    <2> QED BY <1>0, <2>1, <2>4, <2>5
<1>6. M = 0..N
    <2> HIDE DEF M
    <2> QED BY <1>0, <1>3, <1>5, BoundedInduction
<1>7. w \in 0..N
    BY DEF N
<1>8. Good(w)
    BY <1>6, <1>7
<1> QED BY <1>2, <1>4, <1>7, <1>8 DEF N

-----------------------------------------------------------------------------
\* The output when every write succeeds: the output buffer has room for a
\* packet, and it is not used when the packets are not buffered.
OutStates ==
    {w \in [buf : Seq(Cell), out : Seq(Cell), ok : {TRUE}] :
        Len(w.buf) < BufferSize /\ (~Buffered => w.buf = <<>>)}
Passed(w) == w.out \o w.buf

\* Nothing fails but, when the packets are buffered, the creation of the log
\* file: without a buffer that makes the packet loop start over.
Reliable == ~WriteMayFail /\ (Buffered \/ ~OpenMayFail)

LEMMA PassedTyped ==
    ASSUME NEW w \in OutStates
    PROVE  Passed(w) \in Seq(Cell)
<1>1. w.out \in Seq(Cell) /\ w.buf \in Seq(Cell)
    BY DEF OutStates
<1> QED BY <1>1 DEF Passed

LEMMA Flushed ==
    ASSUME NEW w \in [buf : Seq(Cell), out : Seq(Cell), ok : {TRUE}], NEW fd \in {-1, 0, 1}
    PROVE  /\ FlushData(w, fd, TRUE) \in OutStates
           /\ FlushData(w, fd, TRUE).buf = <<>>
           /\ fd = 1 => Passed(FlushData(w, fd, TRUE)) = Passed(w)
<1>0. w.buf \in Seq(Cell) /\ w.out \in Seq(Cell) /\ w.ok = TRUE
    OBVIOUS
<1>1. fd > 0 <=> fd = 1
    OBVIOUS
<1>2. CASE fd = 1 /\ w.buf # <<>>
    <2>1. FlushData(w, fd, TRUE) = [buf |-> <<>>, out |-> w.out \o w.buf, ok |-> TRUE]
        BY <1>1, <1>2 DEF FlushData
    <2>2. w.out \o w.buf \in Seq(Cell) /\ <<>> \in Seq(Cell) /\ Len(<<>>) = 0
        BY <1>0
    <2>3. (w.out \o w.buf) \o <<>> = w.out \o w.buf
        BY <2>2, ConcatEmptySeq
    <2> DEFINE r == FlushData(w, fd, TRUE)
    <2>4. /\ r \in [buf : Seq(Cell), out : Seq(Cell), ok : {TRUE}]
          /\ r.buf = <<>> /\ r.out = w.out \o w.buf
        <3>1. PICK v \in Seq(Cell) : v = w.out \o w.buf
            BY <2>2
        <3>2. r = [buf |-> <<>>, out |-> v, ok |-> TRUE]
            BY <2>1, <3>1
        <3> HIDE DEF r
        <3>3. r.buf = <<>> /\ r.out = v /\ r.ok = TRUE
            BY <3>2
        <3>4. <<>> \in Seq(Cell) /\ v \in Seq(Cell) /\ TRUE \in {TRUE}
            BY <2>2, <3>1
        <3>5. r \in [buf : Seq(Cell), out : Seq(Cell), ok : {TRUE}]
            BY <3>2, <3>4, Zenon
        <3> QED BY <3>1, <3>3, <3>5
    <2> HIDE DEF r
    <2>5. r \in OutStates
        BY <2>2, <2>4, Sizes DEF OutStates
    <2>6. Passed(r) = Passed(w)
        BY <2>3, <2>4 DEF Passed
    <2> QED BY <2>4, <2>5, <2>6 DEF r
<1>3. CASE ~(fd = 1 /\ w.buf # <<>>)
    <2>1. FlushData(w, fd, TRUE) = [w EXCEPT !.buf = <<>>]
        BY <1>1, <1>3 DEF FlushData
    <2>2. <<>> \in Seq(Cell) /\ Len(<<>>) = 0
        OBVIOUS
    <2>3. fd = 1 => w.buf = <<>>
        BY <1>3
    <2> QED BY <1>0, <2>1, <2>2, <2>3, Sizes DEF OutStates, Passed
<1> QED BY <1>2, <1>3

LEMMA Wrote ==
    ASSUME NEW w \in OutStates, NEW data \in Seq(Cell), NEW fd \in {-1, 0, 1},
           Buffered \/ fd = 1
    PROVE  /\ WriteData(w, data, fd, TRUE) \in OutStates
           /\ fd = 1 => Passed(WriteData(w, data, fd, TRUE)) = Passed(w) \o data
<1> DEFINE stored == [w EXCEPT !.buf = @ \o data]
<1>0. /\ w \in [buf : Seq(Cell), out : Seq(Cell), ok : {TRUE}]
      /\ w.buf \in Seq(Cell) /\ w.out \in Seq(Cell) /\ w.ok = TRUE
      /\ Len(w.buf) < BufferSize /\ (~Buffered => w.buf = <<>>)
      /\ Buffered \in BOOLEAN
    BY SizeAssumption DEF OutStates
<1>1. CASE ~Buffered
    <2>1. fd = 1 /\ fd > 0
        BY <1>1
    <2>2. WriteData(w, data, fd, TRUE) = [w EXCEPT !.out = @ \o data]
        BY <1>1, <2>1 DEF WriteData
    <2>3. w.out \o data \in Seq(Cell) /\ w.buf = <<>>
        BY <1>0, <1>1
    <2>4. (w.out \o data) \o <<>> = w.out \o data /\ w.out \o <<>> = w.out
        BY <1>0, <2>3, ConcatEmptySeq
    <2> DEFINE r == WriteData(w, data, fd, TRUE)
    <2>5. r.buf = w.buf /\ r.out = w.out \o data /\ r.ok = TRUE
          /\ r \in [buf : Seq(Cell), out : Seq(Cell), ok : {TRUE}]
        BY <1>0, <2>2, <2>3
    <2> HIDE DEF r
    <2>6. r \in OutStates
        BY <1>0, <2>5 DEF OutStates
    <2>7. Passed(r) = Passed(w) \o data
        BY <2>3, <2>4, <2>5 DEF Passed
    <2> QED BY <2>6, <2>7 DEF r
<1>2. CASE Buffered
    <2>1. /\ stored \in [buf : Seq(Cell), out : Seq(Cell), ok : {TRUE}]
          /\ stored.buf = w.buf \o data /\ stored.out = w.out
        <3>1. w.buf \o data \in Seq(Cell)
            BY <1>0
        <3> QED BY <1>0, <3>1
    <2>2. WriteData(w, data, fd, TRUE) =
             IF Len(stored.buf) >= BufferSize THEN FlushData(stored, fd, TRUE) ELSE stored
        BY <1>2 DEF WriteData
    <2> HIDE DEF stored
    <2>3. Passed(stored) = Passed(w) \o data
        BY <1>0, <2>1, Associative DEF Passed
    <2>4. CASE Len(stored.buf) >= BufferSize
        BY <2>1, <2>2, <2>3, <2>4, Flushed
    <2>5. CASE ~(Len(stored.buf) >= BufferSize)
        <3>1. Len(stored.buf) \in Nat /\ Len(stored.buf) < BufferSize
            BY <2>1, <2>5, Sizes
        <3>2. stored \in OutStates
            BY <1>2, <2>1, <3>1 DEF OutStates
        <3> QED BY <2>2, <2>3, <2>5, <3>2
    <2> QED BY <2>4, <2>5
<1> QED BY <1>0, <1>1, <1>2

-----------------------------------------------------------------------------
\* scan_mmap_data only adds memory mapping packets.
First(maps, map) == SelectInSeq(maps, LAMBDA m : RangeCompare(m, map))

LEMMA FirstMatch ==
    ASSUME NEW maps \in Seq(Mapping), NEW map
    PROVE  /\ First(maps, map) \in 0..Len(maps)
           /\ First(maps, map) # 0 => RangeCompare(maps[First(maps, map)], map)
           /\ First(maps, map) = 0 => \A i \in 1..Len(maps) : ~RangeCompare(maps[i], map)
<1> DEFINE I == {i \in 1..Len(maps) : RangeCompare(maps[i], map)}
<1>0. Len(maps) \in Nat
    OBVIOUS
<1>1. First(maps, map) = IF I # {} THEN Min(I) ELSE 0
    BY DEF First, SelectInSeq
<1>2. /\ I \in SUBSET Nat /\ I \in SUBSET (0..Len(maps)) /\ 0 \notin I
      /\ \A i \in I : RangeCompare(maps[i], map)
      /\ \A i \in 1..Len(maps) : RangeCompare(maps[i], map) => i \in I
    BY <1>0
<1> HIDE DEF I
<1>3. CASE I # {}
    <2>1. \E x \in I : \A y \in I : x <= y
        BY <1>2, <1>3, LeastElement
    <2>2. Min(I) \in I
        BY <2>1 DEF Min
    <2> QED BY <1>1, <1>2, <1>3, <2>2
<1>4. CASE I = {}
    BY <1>0, <1>1, <1>2, <1>4
<1> QED BY <1>3, <1>4

ScanStates(passed) ==
    {s \in [maps : Seq(Mapping), w : OutStates] :
        fd_out = 1 => Without(Passed(s.w), "MM") = passed}

LEMMA ScannedMapping ==
    ASSUME NEW passed, NEW s \in ScanStates(passed), NEW map \in Mapping,
           fd_out \in {-1, 0, 1}, Buffered \/ fd_out = 1
    PROVE  ScanMapping(s, map, TRUE) \in ScanStates(passed)
<1> DEFINE first == First(s.maps, map)
           cells == Cells("MM", <<0, 0>>, map)
           maps == Append(IF first = 0 THEN s.maps ELSE RemoveAt(s.maps, first), map)
           r == WriteData(s.w, cells, fd_out, TRUE)
<1>0. /\ s.maps \in Seq(Mapping) /\ s.w \in OutStates
      /\ fd_out = 1 => Without(Passed(s.w), "MM") = passed
    BY DEF ScanStates
<1>1. first \in 0..Len(s.maps)
    BY <1>0, FirstMatch
<1>2. ScanMapping(s, map, TRUE) = s \/ ScanMapping(s, map, TRUE) = [maps |-> maps, w |-> r]
    BY DEF ScanMapping, First
<1> HIDE DEF first
<1>3. maps \in Seq(Mapping)
    <2>1. CASE first = 0
        BY <1>0, <2>1
    <2>2. CASE first # 0
        <3>1. first \in Nat /\ first > 0 /\ first <= Len(s.maps) /\ Len(s.maps) \in Nat
            BY <1>0, <1>1, <2>2
        <3>2. SubSeq(s.maps, 1, first - 1) \in Seq(Mapping)
            BY <1>0, <3>1
        <3>3. SubSeq(s.maps, first + 1, Len(s.maps)) \in Seq(Mapping)
            BY <1>0, <3>1
        <3>4. RemoveAt(s.maps, first) \in Seq(Mapping)
            BY <3>2, <3>3 DEF RemoveAt
        <3> QED BY <2>2, <3>4
    <2> QED BY <2>1, <2>2
<1>4. cells \in Seq(Cell) /\ \A k \in 1..Len(cells) : cells[k].kind = "MM"
    <2>1. <<0, 0>> \in Nat \X Nat
        OBVIOUS
    <2> QED BY <2>1, KindNames, CellsOfPacket
<1> HIDE DEF cells, maps
<1>5. r \in OutStates /\ (fd_out = 1 => Passed(r) = Passed(s.w) \o cells)
    BY <1>0, <1>4, Wrote
<1> HIDE DEF r
<1>6. fd_out = 1 => Without(Passed(r), "MM") = passed
    <2> SUFFICES ASSUME fd_out = 1 PROVE Without(Passed(r), "MM") = passed
        OBVIOUS
    <2>1. Passed(s.w) \in Seq(Cell)
        BY <1>0, PassedTyped
    <2>2. Without(cells, "MM") = <<>>
        BY <1>4, WithoutAll
    <2>3. Without(Passed(s.w) \o cells, "MM") = Without(Passed(s.w), "MM") \o Without(cells, "MM")
        BY <1>4, <2>1, WithoutConcat
    <2>4. Without(Passed(s.w), "MM") \in Seq(Cell)
        BY <2>1, WithoutTyped
    <2>5. Without(Passed(s.w), "MM") \o <<>> = Without(Passed(s.w), "MM")
        BY <2>4, ConcatEmptySeq
    <2> QED BY <1>0, <1>5, <2>2, <2>3, <2>5
<1>7. [maps |-> maps, w |-> r] \in ScanStates(passed)
    BY <1>3, <1>5, <1>6 DEF ScanStates
<1> QED BY <1>2, <1>7

\* The loop over the lines of /proc/<pid>/maps, line by line.
Found == IF layout = 0 THEN <<>> ELSE Layouts[layout]
ScansTo(f, maps, passed) ==
    /\ f[0] = [maps |-> s_mmaps, w |-> Output]
    /\ \A k \in 1..Len(maps) : f[k] = ScanMapping(f[k - 1], maps[k], TRUE)
    /\ \A k \in 0..Len(maps) : f[k] \in ScanStates(passed)
    /\ ScanMmapData(TRUE) = f[Len(maps)]

LEMMA ScanLoop ==
    ASSUME NEW passed, [maps |-> s_mmaps, w |-> Output] \in ScanStates(passed),
           layout \in {0} \cup DOMAIN Layouts,
           fd_out \in {-1, 0, 1}, Buffered \/ fd_out = 1
    PROVE  \E f : ScansTo(f, Found, passed)
<1> DEFINE maps == Found
           N == Len(maps)
           b == [maps |-> s_mmaps, w |-> Output]
           T == ScanStates(passed)
           step == [k \in 1..N |-> [s \in T |-> ScanMapping(s, maps[k], TRUE)]]
           F == CHOOSE f : f = [k \in 0..N |-> IF k = 0 THEN b
                                               ELSE ScanMapping(f[k - 1], maps[k], TRUE)]
<1>1. ScanMmapData(TRUE) = F[N]
    BY DEF ScanMmapData, Found
<1>2. maps \in Seq(Mapping)
    <2>1. <<>> \in Seq(Mapping)
        OBVIOUS
    <2>2. layout # 0 => Layouts[layout] \in Seq([from : Nat, to : Nat, module : STRING])
        BY SizeAssumption
    <2>3. [from : Nat, to : Nat, module : STRING] \subseteq Mapping
        BY DEF Mapping
    <2>4. layout # 0 => Layouts[layout] \in Seq(Mapping)
        BY <2>2, <2>3, SeqMonotonic
    <2> QED BY <2>1, <2>4 DEF Found
<1>3. N \in Nat /\ \A k \in 1..N : maps[k] \in Mapping
    BY <1>2
<1>4. b \in T
    OBVIOUS
<1>5. \A k \in 1..N : \A s \in T : ScanMapping(s, maps[k], TRUE) \in T
    <2> HIDE DEF maps, N
    <2> QED BY <1>3, ScannedMapping
<1> HIDE DEF T, b, N, maps
<1>6. step \in [1..N -> [T -> T]]
    BY <1>5
<1>7. \A k \in 1..N : \A s \in T : step[k][s] = ScanMapping(s, maps[k], TRUE)
    OBVIOUS
<1> HIDE DEF step
<1>8. PICK g \in [0..N -> T] : Recurs(g, N, b, step)
    BY <1>3, <1>4, <1>6, Recursion
<1>9. \A k \in 0..N : g[k] = IF k = 0 THEN b ELSE ScanMapping(g[k - 1], maps[k], TRUE)
    <2> SUFFICES ASSUME NEW k \in 0..N
                 PROVE  g[k] = IF k = 0 THEN b ELSE ScanMapping(g[k - 1], maps[k], TRUE)
        OBVIOUS
    <2>1. CASE k = 0
        BY <1>8, <2>1 DEF Recurs
    <2>2. CASE k # 0
        <3>1. k \in 1..N /\ k - 1 \in 0..N
            BY <1>3, <2>2
        <3>2. g[k] = step[k][g[k - 1]] /\ g[k - 1] \in T
            BY <1>8, <3>1 DEF Recurs
        <3> QED BY <1>7, <2>2, <3>1, <3>2
    <2> QED BY <2>1, <2>2
<1>10. g = [k \in 0..N |-> IF k = 0 THEN b ELSE ScanMapping(g[k - 1], maps[k], TRUE)]
    BY <1>9
<1>11. F = [k \in 0..N |-> IF k = 0 THEN b ELSE ScanMapping(F[k - 1], maps[k], TRUE)]
    BY <1>10
<1> HIDE DEF F
<1>12. F[0] = b /\ \A k \in 1..N : F[k] = ScanMapping(F[k - 1], maps[k], TRUE)
    <2>1. \A k \in 0..N : F[k] = IF k = 0 THEN b ELSE ScanMapping(F[k - 1], maps[k], TRUE)
        BY <1>11
    <2>2. 0 \in 0..N /\ \A k \in 1..N : k \in 0..N /\ k # 0
        BY <1>3
    <2> QED BY <2>1, <2>2
<1> DEFINE M == {k \in 0..N : F[k] \in T}
<1>13. M \in SUBSET (0..N) /\ 0 \in M
    BY <1>3, <1>4, <1>12
<1>14. ASSUME NEW k \in M, k < N PROVE k + 1 \in M
    <2>1. k + 1 \in 1..N /\ k + 1 \in 0..N /\ (k + 1) - 1 = k /\ F[k] \in T
        BY <1>3, <1>14
    <2>2. F[k + 1] = ScanMapping(F[(k + 1) - 1], maps[k + 1], TRUE)
        BY <1>12, <2>1
    <2>3. F[k + 1] \in T
        BY <1>5, <2>1, <2>2
    <2> QED BY <2>1, <2>3
<1>15. M = 0..N
    <2> HIDE DEF M
    <2> QED BY <1>3, <1>13, <1>14, BoundedInduction
<1>16. \A k \in 0..N : F[k] \in T
    BY <1>15
<1>17. ScansTo(F, maps, passed)
    BY <1>1, <1>12, <1>16 DEF ScansTo, T, b, N
<1> QED BY <1>17 DEF maps

LEMMA Scanned ==
    ASSUME NEW passed, [maps |-> s_mmaps, w |-> Output] \in ScanStates(passed),
           layout \in {0} \cup DOMAIN Layouts,
           fd_out \in {-1, 0, 1}, Buffered \/ fd_out = 1
    PROVE  ScanMmapData(TRUE) \in ScanStates(passed)
<1>1. PICK f : ScansTo(f, Found, passed)
    BY ScanLoop
<1>2. Found \in Seq([from : Nat, to : Nat, module : STRING])
    BY SizeAssumption DEF Found
<1>3. Len(Found) \in 0..Len(Found)
    BY <1>2
<1> QED BY <1>1, <1>3 DEF ScansTo

-----------------------------------------------------------------------------
\* The cells that wait: count of them in the input buffer, then the pipe's.
Window(buf, from, count, p) == [j \in 1..count |-> buf[from + j - 1]] \o p
InputBuffers == [0..(2 * BufferSize - 1) -> Cell]

InBuffer(buf, from, count, p) ==
    /\ buf \in InputBuffers /\ from \in Nat /\ count \in Nat /\ p \in Seq(Cell)
    /\ from + count <= 2 * BufferSize
IsWindow(v, buf, from, count, p) ==
    /\ v \in Seq(Cell) /\ Len(v) = count + Len(p)
    /\ \A j \in 1..count : v[j] = buf[from + j - 1]
    /\ \A j \in 1..Len(p) : v[count + j] = p[j]

LEMMA BufferCells ==
    ASSUME NEW buf \in InputBuffers, NEW from \in Nat, NEW count \in Nat,
           from + count <= 2 * BufferSize
    PROVE  \A j \in 1..count : buf[from + j - 1] \in Cell
<1>1. \A j \in 1..count : from + j - 1 \in 0..(2 * BufferSize - 1)
    BY Sizes
<1> QED BY <1>1 DEF InputBuffers

LEMMA WindowIs ==
    ASSUME NEW buf, NEW from, NEW count, NEW p, InBuffer(buf, from, count, p)
    PROVE  IsWindow(Window(buf, from, count, p), buf, from, count, p)
<1> DEFINE a == [j \in 1..count |-> buf[from + j - 1]]
<1>1. /\ buf \in InputBuffers /\ from \in Nat /\ count \in Nat /\ p \in Seq(Cell)
      /\ from + count <= 2 * BufferSize
    BY DEF InBuffer
<1>2. \A j \in 1..count : buf[from + j - 1] \in Cell
    BY <1>1, BufferCells
<1>3. a \in Seq(Cell) /\ Len(a) = count /\ \A j \in 1..count : a[j] = buf[from + j - 1]
    BY <1>1, <1>2
<1> HIDE DEF a
<1>4. /\ a \o p \in Seq(Cell) /\ Len(a \o p) = Len(a) + Len(p)
      /\ \A k \in 1..Len(a) : (a \o p)[k] = a[k]
      /\ \A k \in 1..Len(p) : (a \o p)[Len(a) + k] = p[k]
    <2>1. p \in Seq(Cell) /\ a \in Seq(Cell)
        BY <1>1, <1>3
    <2> QED BY ONLY <2>1, ConcatAt
<1>5. Window(buf, from, count, p) = a \o p
    BY DEF Window, a
<1>6. a \o p \in Seq(Cell) /\ Len(a \o p) = count + Len(p)
    BY <1>3, <1>4
<1>7. \A j \in 1..count : (a \o p)[j] = buf[from + j - 1]
    BY <1>3, <1>4
<1>8. \A j \in 1..Len(p) : (a \o p)[count + j] = p[j]
    BY <1>3, <1>4
<1>9. IsWindow(a \o p, buf, from, count, p)
    BY <1>6, <1>7, <1>8 DEF IsWindow
<1> QED BY <1>5, <1>9

\* What is in the window of a buffer that has the same cells elsewhere.
LEMMA SameWindow ==
    ASSUME NEW r \in Seq(Cell), NEW buf \in InputBuffers, NEW from \in Nat, NEW count \in Nat,
           NEW p \in Seq(Cell), from + count <= 2 * BufferSize,
           Len(r) = count + Len(p),
           \A j \in 1..count : buf[from + j - 1] = r[j],
           \A j \in 1..Len(p) : p[j] = r[count + j]
    PROVE  Window(buf, from, count, p) = r
<1> DEFINE v == Window(buf, from, count, p)
<1>1. /\ v \in Seq(Cell) /\ Len(v) = count + Len(p)
      /\ \A j \in 1..count : v[j] = buf[from + j - 1]
      /\ \A j \in 1..Len(p) : v[count + j] = p[j]
    <2>1. InBuffer(buf, from, count, p)
        BY DEF InBuffer
    <2>2. IsWindow(v, buf, from, count, p)
        BY <2>1, WindowIs
    <2> QED BY <2>2 DEF IsWindow
<1> HIDE DEF v
<1>2. Len(p) \in Nat /\ Len(v) = Len(r)
    BY <1>1
<1>3. ASSUME NEW k \in 1..Len(v) PROVE v[k] = r[k]
    <2>1. CASE k <= count
        <3>1. k \in 1..count
            BY <1>1, <1>2, <2>1
        <3> QED BY <1>1, <3>1
    <2>2. CASE k > count
        <3>1. PICK m \in 1..Len(p) : k = count + m
            <4>1. k - count \in 1..Len(p) /\ k = count + (k - count)
                BY <1>1, <1>2, <2>2
            <4> QED BY <4>1
        <3> QED BY <1>1, <3>1
    <2>3. k <= count \/ k > count
        BY <1>1, <1>2
    <2> QED BY <2>1, <2>2, <2>3
<1>4. v = r
    BY <1>1, <1>2, <1>3, SeqEqual
<1> QED BY <1>4 DEF v

\* Taking the first cells from the window.
LEMMA WindowRest ==
    ASSUME NEW buf \in InputBuffers, NEW from \in Nat, NEW count \in Nat, NEW p \in Seq(Cell),
           from + count <= 2 * BufferSize, NEW len \in 0..count
    PROVE  Window(buf, from + len, count - len, p) = Drop(Window(buf, from, count, p), len)
<1> DEFINE v == Window(buf, from, count, p)
           r == Drop(v, len)
<1>0. len \in Nat /\ len <= count /\ count - len \in Nat /\ from + len \in Nat
      /\ (from + len) + (count - len) <= 2 * BufferSize /\ Len(p) \in Nat
    BY Sizes
<1>1. /\ v \in Seq(Cell) /\ Len(v) = count + Len(p)
      /\ \A j \in 1..count : v[j] = buf[from + j - 1]
      /\ \A j \in 1..Len(p) : v[count + j] = p[j]
    <2>1. InBuffer(buf, from, count, p)
        BY DEF InBuffer
    <2>2. IsWindow(v, buf, from, count, p)
        BY <2>1, WindowIs
    <2> QED BY <2>2 DEF IsWindow
<1> HIDE DEF v
<1>2. len \in 0..Len(v)
    BY <1>0, <1>1
<1>3. r \in Seq(Cell) /\ Len(r) = Len(v) - len /\ \A j \in 1..(Len(v) - len) : r[j] = v[len + j]
    BY <1>1, <1>2, Pieces
<1> HIDE DEF r
<1>4. Len(r) = (count - len) + Len(p)
    BY <1>0, <1>1, <1>3
<1>5. ASSUME NEW j \in 1..(count - len) PROVE buf[(from + len) + j - 1] = r[j]
    <2>1. j \in 1..(Len(v) - len) /\ len + j \in 1..count /\ (from + len) + j - 1 = from + (len + j) - 1
        BY <1>0, <1>1
    <2>2. v[len + j] = buf[from + (len + j) - 1]
        BY <1>1, <2>1
    <2> QED BY <1>3, <2>1, <2>2
<1>6. ASSUME NEW j \in 1..Len(p) PROVE p[j] = r[(count - len) + j]
    <2>1. (count - len) + j \in 1..(Len(v) - len) /\ len + ((count - len) + j) = count + j
        BY <1>0, <1>1
    <2>2. r[(count - len) + j] = v[len + ((count - len) + j)]
        BY <1>3, <2>1
    <2> QED BY <1>1, <2>1, <2>2
<1> DEFINE c == count - len
           g == from + len
<1>7. c \in Nat /\ g \in Nat /\ g + c <= 2 * BufferSize /\ Len(r) = c + Len(p)
      /\ (\A j \in 1..c : buf[g + j - 1] = r[j]) /\ (\A j \in 1..Len(p) : p[j] = r[c + j])
    BY <1>0, <1>4, <1>5, <1>6
<1> HIDE DEF c, g
<1>8. Window(buf, g, c, p) = r
    BY <1>3, <1>7, SameWindow
<1> QED BY <1>8 DEF c, g, r, v

\* Where the handled cells end.
LEMMA Position ==
    ASSUME NEW d \in Seq(Cell), NEW buf \in InputBuffers, NEW from \in Nat, NEW count \in Nat,
           NEW p \in Seq(Cell), from + count <= 2 * BufferSize
    PROVE  /\ Len(d \o Window(buf, from, count, p)) - Len(p) - count = Len(d)
           /\ SubSeq(d \o Window(buf, from, count, p), 1, Len(d)) = d
<1> DEFINE v == Window(buf, from, count, p)
           s == d \o v
<1>1. v \in Seq(Cell) /\ Len(v) = count + Len(p) /\ Len(p) \in Nat
    <2>1. InBuffer(buf, from, count, p)
        BY DEF InBuffer
    <2>2. IsWindow(v, buf, from, count, p)
        BY <2>1, WindowIs
    <2> QED BY <2>2 DEF IsWindow
<1>2. s = d \o v
    OBVIOUS
<1> HIDE DEF v, s
<1>3. SubSeq(s, 1, Len(d)) = d /\ Len(s) = Len(d) + Len(v) /\ Len(d) \in Nat
    <2>0. d \in Seq(Cell) /\ v \in Seq(Cell)
        BY <1>1
    <2>1. SubSeq(d \o v, 1, Len(d)) = d
        BY ONLY <2>0, Prefix
    <2>2. Len(d \o v) = Len(d) + Len(v) /\ Len(d) \in Nat
        BY ONLY <2>0
    <2> QED BY <1>2, <2>1, <2>2
<1>4. Len(s) - Len(p) - count = Len(d)
    BY <1>1, <1>3
<1> QED BY <1>3, <1>4 DEF s, v

-----------------------------------------------------------------------------
\* The invariant.  d are the cells of the packets handled so far, Rest those
\* not yet handled.
From == IF pc = "read" THEN 0 ELSE ptr_in
Rest == Window(buffer, From, n, pipe)

TypeInv ==
    /\ written \in 0..Len(Writes)
    /\ layout \in {0} \cup DOMAIN Layouts
    /\ pipe \in Seq(Cell)
    /\ buffer \in InputBuffers
    /\ ptr_in \in Nat /\ ptr_in <= 2 * BufferSize
    /\ n \in Nat
    /\ pc \in {"handshake", "packets", "move", "read", "done"}
    /\ hs_buffer \in Seq(Cell)
    /\ fd_out \in {-1, 0, 1}
    /\ Output \in OutStates
    /\ s_mmaps \in Seq(Mapping)
    /\ stops \in Nat

\* The process's cells are those handled and whole packets; what stays in the
\* input buffer after the packet loop is less than one.
InputInv(d) ==
    pc # "done" =>
        /\ From + n <= 2 * BufferSize
        /\ SentCells = d \o Rest
        /\ Aligned(Rest)
        /\ pc = "handshake" => n = 0 /\ d = <<>>
        /\ (pc = "move" \/ pc = "read") /\ n > 0 => Size[Rest[1].kind] > n

\* The output is connected by the second packet; from then on all handled
\* packets but the new library ones have been passed to it.
OutputInv(d) ==
    /\ fd_out = 0 => output_buffer = <<>>
    /\ ~Buffered => fd_out # -1
    /\ pc = "handshake" => fd_out = 0
    /\ pc \in {"packets", "move", "read"} /\ fd_out = 0 => hs_buffer = d /\ Len(d) = Size["HS"]
    /\ pc # "done" /\ fd_out # 0 => Len(d) >= Size["HS"] + Size["OS"]
    /\ pc # "done" /\ fd_out = 1 => Without(Passed(Output), "MM") = Without(d, "NL")
    /\ pc = "done" /\ rc = 0 /\ stops < RequestStop /\ fd_out = 1 =>
          closed /\ output_buffer = <<>> /\ Without(out, "MM") = Without(SentCells, "NL")

ListenerInv == TypeInv /\ \E d \in Seq(Cell) : InputInv(d) /\ OutputInv(d)

LEMMA OutRecord ==
    ASSUME NEW w \in OutStates
    PROVE  [buf |-> w.buf, out |-> w.out, ok |-> TRUE] = w
BY DEF OutStates

LEMMA InitInv == Init => ListenerInv
<1> SUFFICES ASSUME Init PROVE ListenerInv
    OBVIOUS
<1> USE DEF Init
<1>1. TypeInv
    <2>1. buffer \in InputBuffers
        <3>1. Blank \in Cell
            BY NoMapping DEF Blank, Cell, Kinds
        <3> QED BY <3>1 DEF InputBuffers
    <2>2. Output \in OutStates
        <3>1. Output = [buf |-> <<>>, out |-> <<>>, ok |-> TRUE]
            BY DEF Output
        <3>2. <<>> \in Seq(Cell) /\ Len(<<>>) = 0 /\ 0 < BufferSize
            BY Sizes
        <3>3. Output \in [buf : Seq(Cell), out : Seq(Cell), ok : {TRUE}]
            BY <3>1, <3>2, Zenon
        <3>4. Output.buf = <<>>
            BY <3>1
        <3> QED BY <3>2, <3>3, <3>4 DEF OutStates
    <2>3. written \in 0..Len(Writes) /\ layout \in {0} \cup DOMAIN Layouts
        BY SizeAssumption, WritesAssumption
    <2> QED BY <2>1, <2>2, <2>3, Sizes DEF TypeInv
<1>2. Rest = <<>>
    <2>1. InBuffer(buffer, From, n, pipe)
        BY <1>1, Sizes DEF InBuffer, From, TypeInv
    <2>2. IsWindow(Rest, buffer, From, n, pipe)
        BY <2>1, WindowIs DEF Rest
    <2>3. Rest \in Seq(Cell) /\ Len(Rest) = 0 + Len(<<>>)
        BY <2>2 DEF IsWindow
    <2> QED BY <2>3
<1>3. Sent[0] = <<>>
    <2>1. 0 \in 0..Len(Writes)
        BY WritesAssumption
    <2> QED BY <2>1, SentIs
<1>4. InputInv(<<>>)
    <2>1. <<>> \o <<>> = <<>> /\ Aligned(<<>>)
        BY DEF Aligned
    <2> QED BY <1>2, <1>3, <2>1, Sizes DEF InputInv, From, SentCells
<1>5. OutputInv(<<>>)
    BY DEF OutputInv
<1>6. <<>> \in Seq(Cell)
    OBVIOUS
<1> QED BY <1>1, <1>4, <1>5, <1>6 DEF ListenerInv

\* What the invariant says of the cells not yet handled.
LEMMA RestIs ==
    ASSUME TypeInv, NEW d \in Seq(Cell), InputInv(d), pc # "done"
    PROVE  /\ From \in Nat /\ From + n <= 2 * BufferSize
           /\ Rest \in Seq(Cell) /\ Len(Rest) = n + Len(pipe)
           /\ \A j \in 1..n : Rest[j] = buffer[From + j - 1]
           /\ \A j \in 1..Len(pipe) : Rest[n + j] = pipe[j]
           /\ SentCells = d \o Rest /\ SentCells \in Seq(Cell) /\ Begins(SentCells)
           /\ Aligned(Rest) /\ Len(pipe) \in Nat /\ Len(d) \in Nat
<1>1. From \in Nat /\ From + n <= 2 * BufferSize /\ SentCells = d \o Rest /\ Aligned(Rest)
    BY DEF InputInv, TypeInv, From
<1>2. buffer \in InputBuffers /\ n \in Nat /\ pipe \in Seq(Cell) /\ written \in 0..Len(Writes)
    BY DEF TypeInv
<1>3. /\ Rest \in Seq(Cell) /\ Len(Rest) = n + Len(pipe)
      /\ \A j \in 1..n : Rest[j] = buffer[From + j - 1]
      /\ \A j \in 1..Len(pipe) : Rest[n + j] = pipe[j]
    <2>1. InBuffer(buffer, From, n, pipe)
        BY <1>1, <1>2 DEF InBuffer
    <2>2. IsWindow(Rest, buffer, From, n, pipe)
        BY <2>1, WindowIs DEF Rest
    <2> QED BY <2>2 DEF IsWindow
<1>4. SentCells \in Seq(Cell) /\ Begins(SentCells)
    BY <1>2, SentIs DEF SentCells
<1>5. Len(pipe) \in Nat /\ Len(d) \in Nat
    BY <1>2
<1> QED BY <1>1, <1>3, <1>4, <1>5

\* The traced process.
LEMMA WriteToPipeStep ==
    ASSUME ListenerInv, WriteToPipe
    PROVE  ListenerInv'
<1>0. PICK d \in Seq(Cell) : InputInv(d) /\ OutputInv(d)
    BY DEF ListenerInv
<1>1. TypeInv /\ written \in 0..Len(Writes) /\ Len(Writes) \in Nat
    BY WritesAssumption DEF ListenerInv, TypeInv
<1> DEFINE c == WriteCells(written + 1)
<1>2. written + 1 \in 1..Len(Writes) /\ written < Len(Writes)
    BY <1>1 DEF WriteToPipe
<1>3. c \in Seq(Cell) /\ Aligned(c)
    BY <1>2, WrittenCells
<1>4. Sent[written + 1] = Sent[written] \o c
    BY <1>1, <1>2, SentIs
<1>5. pipe' = pipe \o c /\ written' = written + 1 /\ ~closed
    BY DEF WriteToPipe
<1>6. UNCHANGED <<closed, layout, buffer, ptr_in, n, pc, rc, hs_buffer, fd_out, output_buffer,
                  out, s_mmaps, scanned, stops>>
    BY DEF WriteToPipe, outputVars
<1> HIDE DEF c
<1>7. TypeInv'
    <2>1. pipe' \in Seq(Cell) /\ written' \in 0..Len(Writes)
        BY <1>1, <1>2, <1>3, <1>5 DEF TypeInv
    <2> QED BY <1>1, <1>6, <2>1 DEF TypeInv, Output
<1>8. InputInv(d)'
    <2> SUFFICES ASSUME pc # "done" PROVE InputInv(d)'
        BY <1>6 DEF InputInv
    <2>1. /\ From \in Nat /\ From + n <= 2 * BufferSize
          /\ Rest \in Seq(Cell) /\ Len(Rest) = n + Len(pipe)
          /\ \A j \in 1..n : Rest[j] = buffer[From + j - 1]
          /\ \A j \in 1..Len(pipe) : Rest[n + j] = pipe[j]
          /\ SentCells = d \o Rest /\ Aligned(Rest)
        BY <1>0, <1>1, RestIs
    <2>2. From' = From
        BY <1>6 DEF From
    <2>3. Rest' = Rest \o c
        <3> DEFINE a == [j \in 1..n |-> buffer[From + j - 1]]
        <3>1. a \in Seq(Cell)
            <4>1. \A j \in 1..n : buffer[From + j - 1] \in Cell
                BY <1>1, <2>1, BufferCells DEF TypeInv
            <4> QED BY <1>1, <4>1 DEF TypeInv
        <3>2. Rest = a \o pipe
            BY DEF Rest, Window
        <3>3. Rest' = a \o (pipe \o c)
            BY <1>5, <1>6, <2>2 DEF Rest, Window
        <3> HIDE DEF a
        <3> QED BY <1>1, <1>3, <3>1, <3>2, <3>3, Associative DEF TypeInv
    <2>4. SentCells' = d \o Rest'
        <3>1. SentCells' = SentCells \o c
            BY <1>4, <1>5 DEF SentCells
        <3>2. (d \o Rest) \o c = d \o (Rest \o c)
            BY <1>3, <2>1, Associative
        <3> QED BY <2>1, <2>3, <3>1, <3>2
    <2>5. Aligned(Rest')
        BY <1>3, <2>1, <2>3, AlignedConcat
    <2>6. n > 0 => Rest'[1] = Rest[1]
        <3>1. n > 0 => 1 \in 1..Len(Rest)
            BY <1>1, <2>1 DEF TypeInv
        <3> QED BY <1>3, <2>1, <2>3, <3>1, ConcatAt
    <2>7. pc' = pc /\ n' = n
        BY <1>6
    <2>8. pc = "handshake" => n = 0 /\ d = <<>>
        BY <1>0 DEF InputInv
    <2>9. (pc = "move" \/ pc = "read") /\ n > 0 => Size[Rest[1].kind] > n
        BY <1>0 DEF InputInv
    <2> HIDE DEF Rest, From
    <2> QED BY <2>1, <2>2, <2>4, <2>5, <2>6, <2>7, <2>8, <2>9 DEF InputInv
<1>9. OutputInv(d)'
    <2>1. pc = "done" /\ rc = 0 /\ stops < RequestStop /\ fd_out = 1 => FALSE
        BY <1>0, <1>5 DEF OutputInv
    <2>2. Output' = Output
        BY <1>6 DEF Output
    <2> QED BY <1>0, <1>6, <2>1, <2>2 DEF OutputInv
<1> QED BY <1>7, <1>8, <1>9 DEF ListenerInv

LEMMA QuietStep ==
    ASSUME ListenerInv,
           layout' \in {0} \cup DOMAIN Layouts, closed => closed',
           UNCHANGED <<written, pipe, buffer, ptr_in, n, pc, rc, hs_buffer, fd_out,
                       output_buffer, out, s_mmaps>>,
           stops' \in Nat, stops <= stops'
    PROVE  ListenerInv'
<1>0. PICK d \in Seq(Cell) : InputInv(d) /\ OutputInv(d)
    BY DEF ListenerInv
<1>1. TypeInv
    BY DEF ListenerInv
<1>2. TypeInv'
    BY <1>1 DEF TypeInv, Output
<1>3. InputInv(d)'
    BY <1>0 DEF InputInv, Rest, From, SentCells
<1>4. stops' < RequestStop => stops < RequestStop
    BY <1>1, SizeAssumption DEF TypeInv
<1>5. OutputInv(d)'
    BY <1>0, <1>4 DEF OutputInv, Output, SentCells
<1> QED BY <1>2, <1>3, <1>5 DEF ListenerInv

\* The input buffer after a read.
Store(buf, from, data) ==
    [j \in DOMAIN buf |-> IF j \in from..(from + Len(data) - 1) THEN data[j - from + 1] ELSE buf[j]]

LEMMA StoreIs ==
    ASSUME NEW buf \in InputBuffers, NEW from \in Nat, NEW data \in Seq(Cell),
           from + Len(data) <= 2 * BufferSize
    PROVE  /\ Store(buf, from, data) \in InputBuffers
           /\ \A j \in 1..Len(data) : Store(buf, from, data)[from + j - 1] = data[j]
           /\ \A j \in 1..from : Store(buf, from, data)[j - 1] = buf[j - 1]
<1> DEFINE r == Store(buf, from, data)
           D == 0..(2 * BufferSize - 1)
<1>0. Len(data) \in Nat /\ BufferSize \in Nat /\ DOMAIN buf = D /\ \A j \in D : buf[j] \in Cell
    BY Sizes DEF InputBuffers
<1>1. \A j \in D : j \in from..(from + Len(data) - 1) => j - from + 1 \in 1..Len(data)
    BY <1>0
<1>2. r = [j \in D |-> IF j \in from..(from + Len(data) - 1) THEN data[j - from + 1] ELSE buf[j]]
    BY <1>0 DEF Store
<1>3. \A j \in 1..Len(data) : data[j] \in Cell
    OBVIOUS
<1>4. r \in InputBuffers
    BY <1>0, <1>1, <1>2, <1>3 DEF InputBuffers
<1>5. ASSUME NEW j \in 1..Len(data) PROVE r[from + j - 1] = data[j]
    <2>1. PICK m \in D : m = from + j - 1 /\ m \in from..(from + Len(data) - 1) /\ m - from + 1 = j
        <3>1. from + j - 1 \in D /\ from + j - 1 \in from..(from + Len(data) - 1)
              /\ (from + j - 1) - from + 1 = j
            BY <1>0
        <3> QED BY <3>1
    <2>2. r[m] = data[m - from + 1]
        BY <1>2, <2>1
    <2> QED BY <2>1, <2>2
<1>6. ASSUME NEW j \in 1..from PROVE r[j - 1] = buf[j - 1]
    <2>1. PICK m \in D : m = j - 1 /\ ~(m \in from..(from + Len(data) - 1))
        <3>1. j - 1 \in D /\ ~(j - 1 \in from..(from + Len(data) - 1))
            BY <1>0
        <3> QED BY <3>1
    <2>2. r[m] = buf[m]
        BY <1>2, <2>1
    <2> QED BY <2>1, <2>2
<1> QED BY <1>4, <1>5, <1>6

\* The packet loop has ended.
LEMMA Ended ==
    ASSUME TypeInv', pc' = "done", fd_out' = 0 => output_buffer' = <<>>, ~Buffered => fd_out' # -1,
           rc' = 0 /\ stops' < RequestStop /\ fd_out' = 1 =>
              /\ closed' /\ output_buffer' = <<>>
              /\ Without(out', "MM") = Without(SentCells', "NL")
    PROVE  ListenerInv'
<1>1. <<>> \in Seq(Cell)
    OBVIOUS
<1>2. InputInv(<<>>)'
    BY DEF InputInv
<1>3. OutputInv(<<>>)'
    BY DEF OutputInv
<1> QED BY <1>1, <1>2, <1>3 DEF ListenerInv

LEMMA ReadHandshakeStep ==
    ASSUME ListenerInv, ReadHandshake
    PROVE  ListenerInv'
<1>0. PICK d \in Seq(Cell) : InputInv(d) /\ OutputInv(d)
    BY DEF ListenerInv
<1>1. TypeInv /\ pc = "handshake" /\ pipe # <<>> /\ pipe \in Seq(Cell)
    BY DEF ListenerInv, ReadHandshake, TypeInv
<1>2. n = 0 /\ d = <<>> /\ fd_out = 0 /\ output_buffer = <<>>
    BY <1>0, <1>1 DEF InputInv, OutputInv
<1>3. /\ Rest \in Seq(Cell) /\ Len(Rest) = n + Len(pipe)
      /\ \A j \in 1..Len(pipe) : Rest[n + j] = pipe[j]
      /\ SentCells = d \o Rest /\ Begins(SentCells) /\ Aligned(Rest)
    BY <1>0, <1>1, RestIs
<1>4. Rest = pipe
    <2>1. Len(pipe) \in Nat /\ Len(Rest) = Len(pipe)
        BY <1>1, <1>2, <1>3
    <2>2. \A j \in 1..Len(Rest) : 0 + j = j /\ j \in 1..Len(pipe)
        BY <2>1
    <2>3. \A j \in 1..Len(Rest) : Rest[j] = pipe[j]
        BY <1>2, <1>3, <2>2
    <2> QED BY <1>1, <1>3, <2>1, <2>3, SeqEqual
<1>5. SentCells = pipe
    BY <1>2, <1>3, <1>4, ConcatEmptySeq
<1> DEFINE nbytes == MinOf(Len(pipe), BufferSize - 1)
           len == Size[pipe[1].kind]
           data == SubSeq(pipe, 1, nbytes)
<1>6. Len(pipe) \in Nat /\ Len(pipe) > 0
    BY <1>1
<1>7. pipe[1].kind = "HS" /\ len = Size["HS"]
    <2>1. 1 \in 1..Len(pipe) /\ 1 <= Size["HS"]
        BY <1>6, Sizes, KindNames
    <2> QED BY <1>3, <1>5, <2>1 DEF Begins
<1>8. len \in 0..Len(pipe) /\ len > 0 /\ Aligned(Drop(pipe, len))
    BY <1>1, <1>3, <1>4, <1>6, AlignedDrop
<1>9. nbytes \in 0..Len(pipe) /\ nbytes < BufferSize /\ len <= nbytes
    BY <1>6, <1>7, <1>8, Sizes DEF MinOf
<1>10. /\ buffer' = Stored(0, data) /\ pipe' = Drop(pipe, nbytes)
       /\ hs_buffer' = SubSeq(pipe, 1, len) /\ ptr_in' = len /\ n' = nbytes - len
       /\ pc' = "packets" /\ UNCHANGED <<rc, output_buffer, out>>
    <2>1. ~(len > nbytes)
        BY <1>8, <1>9
    <2> HIDE DEF nbytes, len
    <2> QED BY <2>1 DEF ReadHandshake, nbytes, len
<1>11. UNCHANGED <<written, closed, layout, fd_out, s_mmaps, scanned, stops>>
    BY DEF ReadHandshake, targetVars
<1> HIDE DEF nbytes, len
<1>12. data \in Seq(Cell) /\ Len(data) = nbytes /\ \A j \in 1..nbytes : data[j] = pipe[j]
    BY <1>1, <1>9, Pieces
<1>13. /\ pipe' \in Seq(Cell) /\ Len(pipe') = Len(pipe) - nbytes
       /\ \A j \in 1..(Len(pipe) - nbytes) : pipe'[j] = pipe[nbytes + j]
    BY <1>1, <1>9, <1>10, Pieces
<1>14. /\ hs_buffer' \in Seq(Cell) /\ Len(hs_buffer') = len
       /\ hs_buffer' \o Drop(pipe, len) = pipe
       /\ Drop(pipe, len) \in Seq(Cell) /\ Len(Drop(pipe, len)) = Len(pipe) - len
       /\ \A j \in 1..(Len(pipe) - len) : Drop(pipe, len)[j] = pipe[len + j]
    BY <1>1, <1>8, <1>10, Pieces
<1> HIDE DEF data
<1>15. buffer' \in InputBuffers /\ \A j \in 1..nbytes : buffer'[j - 1] = pipe[j]
    <2>1. buffer \in InputBuffers /\ 0 \in Nat /\ 0 + Len(data) <= 2 * BufferSize
        BY <1>1, <1>9, <1>12, Sizes DEF TypeInv
    <2>2. buffer' = Store(buffer, 0, data)
        BY <1>10 DEF Stored, Store
    <2>3. /\ Store(buffer, 0, data) \in InputBuffers
          /\ \A j \in 1..Len(data) : Store(buffer, 0, data)[0 + j - 1] = data[j]
        BY <1>12, <2>1, StoreIs
    <2>4. \A j \in 1..nbytes : 0 + j - 1 = j - 1
        BY <1>9
    <2> QED BY <1>12, <2>2, <2>3, <2>4
<1>16. len \in Nat /\ nbytes \in Nat /\ n' \in Nat /\ ptr_in' <= 2 * BufferSize /\ ptr_in' + n' <= 2 * BufferSize
    BY <1>6, <1>8, <1>9, <1>10, Sizes
<1>17. TypeInv'
    BY <1>1, <1>10, <1>11, <1>13, <1>14, <1>15, <1>16 DEF TypeInv, Output
<1>18. Rest' = Drop(pipe, len)
    <2>1. PICK r \in Seq(Cell), buf \in InputBuffers, p \in Seq(Cell), count \in Nat :
              r = Drop(pipe, len) /\ buf = buffer' /\ p = pipe' /\ count = nbytes - len
        BY <1>10, <1>13, <1>14, <1>15, <1>16
    <2>2. len \in Nat /\ len + count <= 2 * BufferSize /\ Len(r) = count + Len(p)
        BY <1>6, <1>10, <1>13, <1>14, <1>16, <2>1
    <2>3. ASSUME NEW j \in 1..count PROVE buf[len + j - 1] = r[j]
        <3>1. len + j \in 1..nbytes /\ j \in 1..(Len(pipe) - len)
            BY <1>6, <1>9, <1>16, <2>1
        <3> QED BY <1>14, <1>15, <2>1, <3>1
    <2>4. ASSUME NEW j \in 1..Len(p) PROVE p[j] = r[count + j]
        <3>1. j \in 1..(Len(pipe) - nbytes) /\ count + j \in 1..(Len(pipe) - len)
              /\ len + (count + j) = nbytes + j
            BY <1>6, <1>9, <1>13, <1>16, <2>1
        <3> QED BY <1>13, <1>14, <2>1, <3>1
    <2>5. Window(buf, len, count, p) = r
        BY <2>2, <2>3, <2>4, SameWindow
    <2> QED BY <1>10, <2>1, <2>5 DEF Rest, From
<1>19. PICK e \in Seq(Cell) : e = hs_buffer'
    BY <1>14
<1>20. InputInv(e)'
    <2>1. SentCells' = e \o Rest'
        BY <1>5, <1>11, <1>14, <1>18, <1>19 DEF SentCells
    <2>2. Aligned(Rest')
        BY <1>8, <1>18
    <2>3. From' = ptr_in'
        BY <1>10 DEF From
    <2> QED BY <1>10, <1>16, <2>1, <2>2, <2>3 DEF InputInv
<1>21. OutputInv(e)'
    BY <1>2, <1>7, <1>10, <1>11, <1>14, <1>19 DEF OutputInv
<1> QED BY <1>17, <1>20, <1>21 DEF ListenerInv

LEMMA NothingWrittenStep ==
    ASSUME ListenerInv, NothingWritten
    PROVE  ListenerInv'
<1>0. PICK d \in Seq(Cell) : InputInv(d) /\ OutputInv(d)
    BY DEF ListenerInv
<1>1. TypeInv /\ pc = "handshake"
    BY DEF ListenerInv, NothingWritten
<1>2. /\ pc' = "done"
      /\ UNCHANGED <<written, closed, layout, pipe, buffer, ptr_in, n, hs_buffer, fd_out,
                     output_buffer, out, s_mmaps, stops>>
    BY DEF NothingWritten, Abort, targetVars
<1>3. TypeInv'
    BY <1>1, <1>2 DEF TypeInv, Output
<1>4. fd_out' = 0 /\ output_buffer' = <<>> /\ fd_out' # -1
    BY <1>0, <1>1, <1>2 DEF OutputInv
<1> QED BY <1>2, <1>3, <1>4, Ended

-----------------------------------------------------------------------------
\* The packet at ptr_in, e: the process's next one.
NextPacket(d, e, kind, len) ==
    /\ e = Available(ptr_in, len) /\ e \in Seq(Cell) /\ Len(e) = len
    /\ kind \in Kinds /\ kind # "MM" /\ len = Size[kind]
    /\ \A j \in 1..Len(e) : e[j].kind = kind
    /\ kind = "OS" <=> fd_out = 0
    /\ kind = "OS" => Len(d) = Size["HS"]
    /\ len \in Nat /\ len <= n
    /\ SentCells = (d \o e) \o Window(buffer, ptr_in + len, n - len, pipe)
    /\ Aligned(Window(buffer, ptr_in + len, n - len, pipe))

\* A packet's header is found at ptr_in.
LEMMA AtHeader ==
    ASSUME TypeInv, NEW d \in Seq(Cell), InputInv(d), pc = "packets", n >= 1
    PROVE  /\ Rest # <<>> /\ Rest[1] = buffer[ptr_in] /\ buffer[ptr_in].i = 1
           /\ Header(buffer[ptr_in]) = {<<Rest[1].kind, Size[Rest[1].kind]>>}
<1>1. /\ Rest \in Seq(Cell) /\ Len(Rest) = n + Len(pipe) /\ Aligned(Rest) /\ Len(pipe) \in Nat
      /\ \A j \in 1..n : Rest[j] = buffer[From + j - 1]
    BY RestIs
<1>2. n \in Nat /\ ptr_in \in Nat /\ From = ptr_in
    BY DEF TypeInv, From
<1>3. 1 \in 1..n /\ ptr_in + 1 - 1 = ptr_in /\ Len(Rest) > 0
    BY <1>1, <1>2
<1>4. Rest # <<>> /\ Rest[1] = buffer[ptr_in]
    <2>1. Rest[1] = buffer[ptr_in + 1 - 1]
        BY <1>1, <1>2, <1>3
    <2> QED BY <1>1, <1>3, <2>1
<1>5. Rest[1].i = 1
    BY <1>1, <1>4 DEF Aligned
<1> QED BY <1>4, <1>5 DEF Header

LEMMA PacketIs ==
    ASSUME TypeInv, NEW d \in Seq(Cell), InputInv(d), OutputInv(d), pc = "packets", n >= 1,
           NEW kind, NEW len, <<kind, len>> \in Header(buffer[ptr_in]), len <= n
    PROVE  \E e \in Seq(Cell) : NextPacket(d, e, kind, len)
<1>1. /\ From \in Nat /\ From + n <= 2 * BufferSize
      /\ Rest \in Seq(Cell) /\ Len(Rest) = n + Len(pipe) /\ Len(pipe) \in Nat /\ Len(d) \in Nat
      /\ \A j \in 1..n : Rest[j] = buffer[From + j - 1]
      /\ SentCells = d \o Rest /\ SentCells \in Seq(Cell) /\ Begins(SentCells) /\ Aligned(Rest)
    BY RestIs
<1>2. /\ n \in Nat /\ ptr_in \in Nat /\ From = ptr_in /\ buffer \in InputBuffers
      /\ pipe \in Seq(Cell) /\ fd_out \in {-1, 0, 1}
    BY DEF TypeInv, From
<1>3. kind = Rest[1].kind /\ len = Size[Rest[1].kind] /\ Rest # <<>>
    <2>1. Rest # <<>> /\ Header(buffer[ptr_in]) = {<<Rest[1].kind, Size[Rest[1].kind]>>}
        BY AtHeader
    <2>2. <<kind, len>> = <<Rest[1].kind, Size[Rest[1].kind]>>
        BY <2>1
    <2> QED BY <2>1, <2>2
<1>4. /\ kind \in Kinds /\ len \in 1..Len(Rest) /\ len \in 0..Len(Rest)
      /\ \A j \in 1..len : Rest[j].kind = kind
      /\ Aligned(Drop(Rest, len))
    BY <1>1, <1>3, AlignedDrop
<1>5. len \in 0..n /\ len \in Nat /\ len > 0 /\ ptr_in + len <= 2 * BufferSize
    BY <1>1, <1>2, <1>4, Sizes
<1> DEFINE e == SubSeq(Rest, 1, len)
<1>6. /\ e \in Seq(Cell) /\ Len(e) = len /\ \A j \in 1..len : e[j] = Rest[j]
      /\ Drop(Rest, len) \in Seq(Cell) /\ e \o Drop(Rest, len) = Rest
    BY <1>1, <1>4, Pieces
<1> HIDE DEF e
<1>7. e = Available(ptr_in, len)
    <2> DEFINE a == [j \in 1..len |-> buffer[ptr_in + j - 1]]
    <2>1. \A j \in 1..len : j \in 1..n
        BY <1>2, <1>5
    <2>2. \A j \in 1..len : buffer[ptr_in + j - 1] = e[j]
        BY <1>1, <1>2, <1>6, <2>1
    <2>3. \A j \in 1..len : buffer[ptr_in + j - 1] \in Cell
        BY <1>6, <2>2
    <2>4. a \in Seq(Cell) /\ Len(a) = len /\ \A j \in 1..len : a[j] = e[j]
        BY <1>5, <2>2, <2>3
    <2> HIDE DEF a
    <2>5. a = e
        BY <1>6, <2>4, SeqEqual
    <2> QED BY <2>5 DEF a, Available
<1>8. Window(buffer, ptr_in + len, n - len, pipe) = Drop(Rest, len)
    <2>1. ptr_in + n <= 2 * BufferSize
        BY <1>1, <1>2
    <2>2. Window(buffer, ptr_in + len, n - len, pipe) = Drop(Window(buffer, ptr_in, n, pipe), len)
        BY <1>2, <1>5, <2>1, WindowRest
    <2>3. Rest = Window(buffer, ptr_in, n, pipe)
        BY <1>2 DEF Rest
    <2> QED BY <2>2, <2>3
<1>9. SentCells = (d \o e) \o Drop(Rest, len)
    <2>1. (d \o e) \o Drop(Rest, len) = d \o (e \o Drop(Rest, len))
        BY <1>6, Associative
    <2> QED BY <1>1, <1>6, <2>1
<1>10. /\ Len(d) + 1 \in 1..Len(SentCells) /\ SentCells[Len(d) + 1].kind = kind
    <2>1. 1 \in 1..Len(Rest)
        BY <1>1, <1>3
    <2>2. Len(d \o Rest) = Len(d) + Len(Rest) /\ (d \o Rest)[Len(d) + 1] = Rest[1]
        <3>1. d \in Seq(Cell) /\ Rest \in Seq(Cell)
            BY <1>1
        <3> QED BY ONLY <2>1, <3>1, ConcatAt
    <2>3. Len(d) + 1 \in 1..(Len(d) + Len(Rest))
        BY <1>1, <2>1
    <2> QED BY <1>1, <1>3, <2>2, <2>3
<1>11. /\ kind = "HS" <=> Len(d) + 1 <= Size["HS"]
       /\ kind = "OS" <=> Len(d) + 1 > Size["HS"] /\ Len(d) + 1 <= Size["HS"] + Size["OS"]
       /\ kind # "MM"
    BY <1>1, <1>10 DEF Begins
<1>12. /\ fd_out = 0 => Len(d) = Size["HS"]
       /\ fd_out # 0 => Len(d) >= Size["HS"] + Size["OS"]
    BY DEF OutputInv
<1>13. Size["HS"] \in Nat /\ Size["OS"] \in Nat /\ Size["OS"] > 0
    BY Sizes, KindNames
<1>14. fd_out = 0 => kind = "OS"
    <2> SUFFICES ASSUME fd_out = 0 PROVE kind = "OS"
        OBVIOUS
    <2>1. Len(d) + 1 > Size["HS"] /\ Len(d) + 1 <= Size["HS"] + Size["OS"]
        BY <1>12, <1>13
    <2> QED BY <1>11, <2>1
<1>15. kind = "OS" => fd_out = 0
    <2> SUFFICES ASSUME kind = "OS", fd_out # 0 PROVE FALSE
        OBVIOUS
    <2>1. Len(d) + 1 <= Size["HS"] + Size["OS"] /\ Len(d) >= Size["HS"] + Size["OS"]
        BY <1>11, <1>12
    <2> QED BY <1>1, <1>13, <2>1
<1>16. \A j \in 1..Len(e) : e[j].kind = kind
    BY <1>4, <1>6
<1>17. NextPacket(d, e, kind, len)
    BY <1>3, <1>4, <1>5, <1>6, <1>7, <1>8, <1>9, <1>11, <1>12, <1>14, <1>15, <1>16 DEF NextPacket
<1> QED BY <1>6, <1>17

\* A packet has been handled.
LEMMA ConsumedPacket ==
    ASSUME TypeInv, NEW d \in Seq(Cell), InputInv(d), OutputInv(d), pc = "packets",
           NEW e \in Seq(Cell), NEW kind, NEW len, NextPacket(d, e, kind, len),
           ptr_in' = ptr_in + len, n' = n - len, pc' = "packets",
           UNCHANGED <<written, closed, layout, pipe, buffer, rc, hs_buffer, stops>>,
           fd_out' \in {-1, 1}, ~Buffered => fd_out' # -1,
           s_mmaps' \in Seq(Mapping), Output' \in OutStates,
           fd_out' = 1 => Without(Passed(Output'), "MM") = Without(d \o e, "NL")
    PROVE  ListenerInv'
<1>1. From \in Nat /\ From + n <= 2 * BufferSize /\ Len(d) \in Nat
    BY RestIs
<1>2. /\ n \in Nat /\ ptr_in \in Nat /\ From = ptr_in /\ fd_out \in {-1, 0, 1}
      /\ len \in Nat /\ len <= n /\ Len(e) = len
    BY DEF TypeInv, From, NextPacket
<1>3. n' \in Nat /\ ptr_in' \in Nat /\ ptr_in' + n' <= 2 * BufferSize /\ ptr_in' <= 2 * BufferSize
    BY <1>1, <1>2, Sizes
<1>4. TypeInv'
    BY <1>3 DEF TypeInv
<1>5. d \o e \in Seq(Cell) /\ Len(d \o e) = Len(d) + len
    BY <1>2
<1>6. InputInv(d \o e)'
    <2>1. From' = ptr_in'
        BY DEF From
    <2>2. Rest' = Window(buffer, ptr_in + len, n - len, pipe)
        BY <2>1 DEF Rest
    <2>3. SentCells' = SentCells
        BY DEF SentCells
    <2>4. SentCells' = (d \o e) \o Rest' /\ Aligned(Rest')
        BY <2>2, <2>3 DEF NextPacket
    <2> QED BY <1>3, <2>1, <2>4 DEF InputInv
<1>7. Len(d) + len >= Size["HS"] + Size["OS"]
    <2>0. Size["HS"] \in Nat /\ Size["OS"] \in Nat
        BY Sizes, KindNames
    <2>1. CASE kind = "OS"
        <3>1. Len(d) = Size["HS"] /\ len = Size["OS"]
            BY <2>1 DEF NextPacket
        <3> QED BY <2>0, <3>1
    <2>2. CASE kind # "OS"
        <3>1. Len(d) >= Size["HS"] + Size["OS"]
            BY <2>2 DEF NextPacket, OutputInv
        <3> QED BY <1>1, <1>2, <2>0, <3>1
    <2> QED BY <2>1, <2>2
<1>8. OutputInv(d \o e)'
    BY <1>5, <1>7 DEF OutputInv
<1> QED BY <1>4, <1>5, <1>6, <1>8 DEF ListenerInv

LEMMA ForwardStep ==
    ASSUME TypeInv, NEW d \in Seq(Cell), InputInv(d), OutputInv(d), pc = "packets",
           NEW e \in Seq(Cell), NEW kind, NEW len, NextPacket(d, e, kind, len),
           kind # "OS", kind # "NL", Forward(len, TRUE),
           UNCHANGED <<written, closed, layout, pipe, buffer, rc, hs_buffer, stops>>
    PROVE  ListenerInv'
<1> DEFINE w == WriteData(Output, e, fd_out, TRUE)
<1>1. /\ fd_out \in {-1, 0, 1} /\ fd_out # 0 /\ Output \in OutStates
      /\ ~Buffered => fd_out # -1
      /\ fd_out = 1 => Without(Passed(Output), "MM") = Without(d, "NL")
    BY DEF TypeInv, OutputInv, NextPacket
<1>2. /\ output_buffer' = w.buf /\ out' = w.out
      /\ ptr_in' = ptr_in + len /\ n' = n - len
      /\ UNCHANGED <<fd_out, s_mmaps, pc>>
    BY DEF Forward, SetOutput, Consume, NextPacket
<1>3. w \in OutStates /\ (fd_out = 1 => Passed(w) = Passed(Output) \o e)
    <2>1. Buffered \/ fd_out = 1
        BY <1>1
    <2> QED BY <1>1, <2>1, Wrote
<1> HIDE DEF w
<1>4. Output' = w
    BY <1>2, <1>3, OutRecord DEF Output
<1>5. fd_out = 1 => Without(Passed(w), "MM") = Without(d \o e, "NL")
    <2>1. Passed(Output) \in Seq(Cell)
        BY <1>1, PassedTyped
    <2>2. Without(Passed(Output) \o e, "MM") = Without(Passed(Output), "MM") \o Without(e, "MM")
        BY <2>1, WithoutConcat
    <2>3. Without(d \o e, "NL") = Without(d, "NL") \o Without(e, "NL")
        BY WithoutConcat
    <2>4. \A j \in 1..Len(e) : e[j].kind # "MM" /\ e[j].kind # "NL"
        BY DEF NextPacket
    <2>5. Without(e, "MM") = e /\ Without(e, "NL") = e
        BY <2>4, WithoutNone
    <2> QED BY <1>1, <1>3, <2>2, <2>3, <2>5
<1>6. fd_out' \in {-1, 1} /\ (~Buffered => fd_out' # -1) /\ s_mmaps' \in Seq(Mapping) /\ pc' = "packets"
    BY <1>1, <1>2 DEF TypeInv
<1> QED BY <1>2, <1>3, <1>4, <1>5, <1>6, ConsumedPacket

LEMMA NewLibraryStep ==
    ASSUME TypeInv, NEW d \in Seq(Cell), InputInv(d), OutputInv(d), pc = "packets",
           NEW e \in Seq(Cell), NEW kind, NEW len, NextPacket(d, e, kind, len),
           kind = "NL", NewLibrary(len, TRUE),
           UNCHANGED <<written, closed, layout, pipe, buffer, rc, hs_buffer, stops>>
    PROVE  ListenerInv'
<1> DEFINE s == ScanMmapData(TRUE)
           passed == Without(d, "NL")
<1>1. /\ fd_out \in {-1, 0, 1} /\ fd_out # 0 /\ Output \in OutStates /\ s_mmaps \in Seq(Mapping)
      /\ layout \in {0} \cup DOMAIN Layouts
      /\ ~Buffered => fd_out # -1
      /\ fd_out = 1 => Without(Passed(Output), "MM") = passed
    BY DEF TypeInv, OutputInv, NextPacket
<1>2. /\ output_buffer' = s.w.buf /\ out' = s.w.out /\ s_mmaps' = s.maps
      /\ ptr_in' = ptr_in + len /\ n' = n - len
      /\ UNCHANGED <<fd_out, pc>>
    BY DEF NewLibrary, SetOutput, Consume, NextPacket
<1> HIDE DEF s, passed
<1>3. s \in ScanStates(passed)
    <2>1. [maps |-> s_mmaps, w |-> Output] \in ScanStates(passed)
        BY <1>1 DEF ScanStates
    <2>2. Buffered \/ fd_out = 1
        BY <1>1
    <2> QED BY <1>1, <2>1, <2>2, Scanned DEF s
<1>4. s.w \in OutStates /\ s.maps \in Seq(Mapping) /\ (fd_out = 1 => Without(Passed(s.w), "MM") = passed)
    BY <1>3 DEF ScanStates
<1>5. Output' = s.w
    BY <1>2, <1>4, OutRecord DEF Output
<1>6. Without(d \o e, "NL") = passed
    <2>1. Without(d \o e, "NL") = Without(d, "NL") \o Without(e, "NL")
        BY WithoutConcat
    <2>2. Without(e, "NL") = <<>>
        BY WithoutAll DEF NextPacket
    <2>3. Without(d, "NL") \in Seq(Cell)
        BY WithoutTyped
    <2> QED BY <2>1, <2>2, <2>3, ConcatEmptySeq DEF passed
<1>7. fd_out' \in {-1, 1} /\ (~Buffered => fd_out' # -1) /\ pc' = "packets"
    BY <1>1, <1>2
<1> QED BY <1>2, <1>4, <1>5, <1>6, <1>7, ConsumedPacket

LEMMA OutputSettingsStep ==
    ASSUME Reliable, TypeInv, NEW d \in Seq(Cell), InputInv(d), OutputInv(d), pc = "packets",
           NEW e \in Seq(Cell), NEW kind, NEW len, NextPacket(d, e, kind, len),
           kind = "OS", OutputSettings(len, TRUE),
           UNCHANGED <<written, closed, layout, pipe, buffer, rc, hs_buffer, stops>>
    PROVE  ListenerInv'
<1> DEFINE connected == [buf |-> output_buffer, out |-> <<>>, ok |-> TRUE]
           w == WriteData(connected, d, fd_out', TRUE)
           v == WriteData(w, e, fd_out', TRUE)
<1>1. fd_out = 0 /\ output_buffer = <<>> /\ hs_buffer = d /\ Len(d) = Size["HS"]
    BY DEF OutputInv, NextPacket
<1>2. fd_out' \in {-1, 1} /\ (~Buffered => fd_out' # -1)
    <2>1. fd_out' \in ConnectOutput
        BY DEF OutputSettings
    <2>2. \A o \in Outputs : o = "file" \/ o = "postproc"
        BY SizeAssumption
    <2>3. Buffered \in BOOLEAN /\ OpenMayFail \in BOOLEAN
        BY SizeAssumption
    <2> QED BY <2>1, <2>2, <2>3 DEF ConnectOutput, OpenOutputFile, OpenPostprocPipe, Reliable
<1>3. fd_out' \in {-1, 0, 1} /\ (Buffered \/ fd_out' = 1)
    BY <1>2
<1>4. connected \in OutStates /\ Passed(connected) = <<>>
    <2>1. connected = [buf |-> <<>>, out |-> <<>>, ok |-> TRUE]
        BY <1>1
    <2>2. <<>> \in Seq(Cell) /\ Len(<<>>) = 0 /\ 0 < BufferSize /\ <<>> \o <<>> = <<>>
        BY Sizes
    <2> HIDE DEF connected
    <2>3. connected \in [buf : Seq(Cell), out : Seq(Cell), ok : {TRUE}]
        BY <2>1, <2>2, Zenon
    <2>4. connected.buf = <<>> /\ connected.out = <<>>
        BY <2>1
    <2> QED BY <2>2, <2>3, <2>4 DEF OutStates, Passed
<1> HIDE DEF connected
<1>5. w \in OutStates /\ (fd_out' = 1 => Passed(w) = <<>> \o d)
    <2>1. PICK fd \in {-1, 0, 1} : fd = fd_out' /\ (Buffered \/ fd = 1)
        BY <1>3
    <2>2. /\ WriteData(connected, d, fd, TRUE) \in OutStates
          /\ fd = 1 => Passed(WriteData(connected, d, fd, TRUE)) = Passed(connected) \o d
        BY <1>4, <2>1, Wrote
    <2> QED BY <1>4, <2>1, <2>2
<1>6. w.ok = TRUE
    BY <1>5 DEF OutStates
<1>7. /\ output_buffer' = v.buf /\ out' = v.out
      /\ ptr_in' = ptr_in + len /\ n' = n - len
      /\ UNCHANGED <<s_mmaps, pc>>
    BY <1>1, <1>6 DEF OutputSettings, SetOutput, Consume, NextPacket, connected
<1> HIDE DEF w
<1>8. v \in OutStates /\ (fd_out' = 1 => Passed(v) = Passed(w) \o e)
    <2>1. PICK fd \in {-1, 0, 1} : fd = fd_out' /\ (Buffered \/ fd = 1)
        BY <1>3
    <2>2. /\ WriteData(w, e, fd, TRUE) \in OutStates
          /\ fd = 1 => Passed(WriteData(w, e, fd, TRUE)) = Passed(w) \o e
        BY <1>5, <2>1, Wrote
    <2> QED BY <2>1, <2>2
<1> HIDE DEF v
<1>9. Output' = v
    BY <1>7, <1>8, OutRecord DEF Output
<1>10. fd_out' = 1 => Passed(v) = d \o e
    BY <1>5, <1>8, ConcatEmptySeq
<1>11. \A j \in 1..Len(d) : d[j].kind = "HS"
    <2>1. SentCells = d \o Rest /\ SentCells \in Seq(Cell) /\ Begins(SentCells) /\ Rest \in Seq(Cell)
          /\ Len(d) \in Nat
        BY RestIs
    <2>2. Len(SentCells) = Len(d) + Len(Rest) /\ Len(Rest) \in Nat /\ \A j \in 1..Len(d) : SentCells[j] = d[j]
        <3>1. /\ Len(d \o Rest) = Len(d) + Len(Rest) /\ Len(Rest) \in Nat
              /\ \A j \in 1..Len(d) : (d \o Rest)[j] = d[j]
            BY <2>1, ConcatAt
        <3> QED BY <2>1, <3>1
    <2>3. \A j \in 1..Len(d) : j \in 1..Len(SentCells) /\ j <= Size["HS"]
        BY <1>1, <2>1, <2>2
    <2> QED BY <2>1, <2>2, <2>3 DEF Begins
<1>12. Without(d \o e, "MM") = Without(d \o e, "NL")
    <2>1. \A j \in 1..Len(e) : e[j].kind # "MM" /\ e[j].kind # "NL"
        BY DEF NextPacket
    <2>2. \A j \in 1..Len(d) : d[j].kind # "MM" /\ d[j].kind # "NL"
        BY <1>11
    <2>3. Without(e, "MM") = e /\ Without(e, "NL") = e /\ Without(d, "MM") = d /\ Without(d, "NL") = d
        BY <2>1, <2>2, WithoutNone
    <2>4. /\ Without(d \o e, "MM") = Without(d, "MM") \o Without(e, "MM")
          /\ Without(d \o e, "NL") = Without(d, "NL") \o Without(e, "NL")
        BY WithoutConcat
    <2> QED BY <2>3, <2>4
<1>13. fd_out' = 1 => Without(Passed(Output'), "MM") = Without(d \o e, "NL")
    BY <1>9, <1>10, <1>12
<1>14. s_mmaps' \in Seq(Mapping) /\ pc' = "packets" /\ Output' \in OutStates
    BY <1>7, <1>8, <1>9 DEF TypeInv
<1> QED BY <1>2, <1>7, <1>13, <1>14, ConsumedPacket

LEMMA ProcessPacketStep ==
    ASSUME Reliable, ListenerInv, ProcessPacket
    PROVE  ListenerInv'
<1>0. PICK d \in Seq(Cell) : InputInv(d) /\ OutputInv(d)
    BY DEF ListenerInv
<1>1. TypeInv /\ pc = "packets" /\ n >= 1
    BY DEF ListenerInv, ProcessPacket
<1>2. UNCHANGED <<written, closed, layout, pipe, buffer, rc, hs_buffer, stops>>
    BY DEF ProcessPacket, targetVars
<1>3. PICK header \in Header(buffer[ptr_in]), works \in Works :
          /\ header[2] <= n
          /\ header[1] = "OS" => OutputSettings(header[2], works)
          /\ header[1] = "NL" => NewLibrary(header[2], works)
          /\ header[1] # "OS" /\ header[1] # "NL" => Forward(header[2], works)
    BY DEF ProcessPacket
<1>4. works = TRUE
    BY DEF Works, Reliable
<1>5. PICK kind, len : header = <<kind, len>>
    <2>1. header = <<Rest[1].kind, Size[Rest[1].kind]>>
        BY <1>0, <1>1, AtHeader
    <2> QED BY <2>1
<1>6. header[1] = kind /\ header[2] = len /\ <<kind, len>> \in Header(buffer[ptr_in]) /\ len <= n
    BY <1>3, <1>5
<1>7. PICK e \in Seq(Cell) : NextPacket(d, e, kind, len)
    BY <1>0, <1>1, <1>6, PacketIs
<1>8. CASE kind = "OS"
    BY <1>0, <1>1, <1>2, <1>3, <1>4, <1>6, <1>7, <1>8, OutputSettingsStep
<1>9. CASE kind = "NL"
    BY <1>0, <1>1, <1>2, <1>3, <1>4, <1>6, <1>7, <1>9, NewLibraryStep
<1>10. CASE kind # "OS" /\ kind # "NL"
    BY <1>0, <1>1, <1>2, <1>3, <1>4, <1>6, <1>7, <1>10, ForwardStep
<1> QED BY <1>8, <1>9, <1>10

LEMMA NoPostprocStep ==
    ASSUME ListenerInv, NoPostproc
    PROVE  ListenerInv'
<1>0. PICK d \in Seq(Cell) : InputInv(d) /\ OutputInv(d)
    BY DEF ListenerInv
<1>1. TypeInv
    BY DEF ListenerInv
<1>2. /\ pc' = "done" /\ rc' = -1
      /\ UNCHANGED <<written, closed, layout, pipe, buffer, ptr_in, n, hs_buffer, fd_out,
                     output_buffer, out, s_mmaps, stops>>
    BY DEF NoPostproc, Abort, targetVars
<1>3. TypeInv'
    BY <1>1, <1>2 DEF TypeInv, Output
<1>4. (fd_out' = 0 => output_buffer' = <<>>) /\ (~Buffered => fd_out' # -1) /\ rc' # 0
    BY <1>0, <1>2 DEF OutputInv
<1> QED BY <1>2, <1>3, <1>4, Ended

\* The cells that wait stay the same, and so does what has been passed on.
LEMMA SameRest ==
    ASSUME NEW d \in Seq(Cell), InputInv(d), OutputInv(d), TypeInv', pc # "done",
           pc \in {"packets", "move", "read"}, pc' \in {"packets", "move", "read"},
           Rest' = Rest, (From + n)' <= 2 * BufferSize,
           (pc' = "move" \/ pc' = "read") /\ n' > 0 => Size[Rest[1].kind] > n',
           UNCHANGED <<written, closed, rc, hs_buffer, fd_out, output_buffer, out>>
    PROVE  ListenerInv'
<1>1. InputInv(d)'
    BY DEF InputInv, SentCells
<1>2. OutputInv(d)'
    BY DEF OutputInv, Output
<1> QED BY <1>1, <1>2 DEF ListenerInv

LEMMA LastPacketStep ==
    ASSUME ListenerInv, LastPacket
    PROVE  ListenerInv'
<1>0. PICK d \in Seq(Cell) : InputInv(d) /\ OutputInv(d)
    BY DEF ListenerInv
<1>1. TypeInv /\ pc = "packets" /\ pc' = "move"
    BY DEF ListenerInv, LastPacket
<1>2. UNCHANGED <<written, closed, layout, pipe, buffer, ptr_in, n, rc, hs_buffer, fd_out,
                  output_buffer, out, s_mmaps, stops>>
    BY DEF LastPacket, targetVars, outputVars
<1>3. TypeInv'
    BY <1>1, <1>2 DEF TypeInv, Output
<1>4. From' = From /\ Rest' = Rest
    BY <1>1, <1>2 DEF Rest, From
<1>5. From + n <= 2 * BufferSize
    BY <1>0, <1>1, RestIs
<1>6. n > 0 => Size[Rest[1].kind] > n
    <2> SUFFICES ASSUME n > 0 PROVE Size[Rest[1].kind] > n
        OBVIOUS
    <2>1. n \in Nat /\ n >= 1 /\ n # 0
        BY <1>1 DEF TypeInv
    <2>2. PICK header \in Header(buffer[ptr_in]) : header[2] > n
        BY <2>1 DEF LastPacket
    <2>3. header = <<Rest[1].kind, Size[Rest[1].kind]>>
        BY <1>0, <1>1, <2>1, AtHeader
    <2>4. header[2] = Size[Rest[1].kind]
        BY <2>3
    <2> QED BY <2>2, <2>4
<1>7. pc # "done" /\ pc \in {"packets", "move", "read"} /\ pc' \in {"packets", "move", "read"}
    BY <1>1
<1>8. (From + n)' <= 2 * BufferSize
    BY <1>2, <1>4, <1>5
<1> QED BY <1>0, <1>2, <1>3, <1>4, <1>6, <1>7, <1>8, SameRest

LEMMA MoveRemainderStep ==
    ASSUME ListenerInv, MoveRemainder
    PROVE  ListenerInv'
<1>0. PICK d \in Seq(Cell) : InputInv(d) /\ OutputInv(d)
    BY DEF ListenerInv
<1>1. TypeInv /\ pc = "move" /\ pc' = "read"
    BY DEF ListenerInv, MoveRemainder
<1>2. /\ buffer' = Stored(0, Available(ptr_in, n))
      /\ UNCHANGED <<written, closed, layout, pipe, ptr_in, n, rc, hs_buffer, fd_out,
                     output_buffer, out, s_mmaps, stops>>
    BY DEF MoveRemainder, targetVars, outputVars
<1>3. /\ From \in Nat /\ From + n <= 2 * BufferSize /\ From = ptr_in
      /\ Rest \in Seq(Cell) /\ Len(Rest) = n + Len(pipe) /\ Len(pipe) \in Nat
      /\ \A j \in 1..n : Rest[j] = buffer[From + j - 1]
      /\ \A j \in 1..Len(pipe) : Rest[n + j] = pipe[j]
    BY <1>0, <1>1, RestIs DEF From
<1>4. buffer \in InputBuffers /\ n \in Nat /\ ptr_in \in Nat /\ pipe \in Seq(Cell)
    BY <1>1 DEF TypeInv
<1> DEFINE a == Available(ptr_in, n)
<1>5. a \in Seq(Cell) /\ Len(a) = n /\ \A j \in 1..n : a[j] = Rest[j]
    <2>1. \A j \in 1..n : buffer[ptr_in + j - 1] = Rest[j]
        BY <1>3
    <2>2. \A j \in 1..n : Rest[j] \in Cell
        <3>1. \A j \in 1..n : j \in 1..Len(Rest)
            BY <1>3, <1>4
        <3> QED BY <1>3, <3>1
    <2>3. \A j \in 1..n : buffer[ptr_in + j - 1] \in Cell
        BY <2>1, <2>2
    <2> QED BY <1>4, <2>1, <2>3 DEF Available
<1> HIDE DEF a
<1>6. buffer' \in InputBuffers /\ \A j \in 1..n : buffer'[0 + j - 1] = Rest[j]
    <2>1. 0 \in Nat /\ 0 + Len(a) <= 2 * BufferSize
        BY <1>3, <1>4, <1>5, Sizes
    <2>2. buffer' = Store(buffer, 0, a)
        BY <1>2 DEF Stored, Store, a
    <2>3. /\ Store(buffer, 0, a) \in InputBuffers
          /\ \A j \in 1..Len(a) : Store(buffer, 0, a)[0 + j - 1] = a[j]
        BY <1>4, <1>5, <2>1, StoreIs
    <2> QED BY <1>5, <2>2, <2>3
<1>7. TypeInv'
    BY <1>1, <1>2, <1>6 DEF TypeInv, Output
<1>8. Rest' = Rest
    <2>1. PICK r \in Seq(Cell), buf \in InputBuffers, p \in Seq(Cell), count \in Nat :
              r = Rest /\ buf = buffer' /\ p = pipe /\ count = n
        BY <1>3, <1>4, <1>6
    <2>2. /\ 0 \in Nat /\ 0 + count <= 2 * BufferSize /\ Len(r) = count + Len(p)
          /\ \A j \in 1..count : buf[0 + j - 1] = r[j]
          /\ \A j \in 1..Len(p) : p[j] = r[count + j]
        BY <1>3, <1>4, <1>6, <2>1, Sizes
    <2>3. Window(buf, 0, count, p) = r
        BY <2>2, SameWindow
    <2>4. Rest' = Window(buffer', 0, n, pipe)
        BY <1>1, <1>2 DEF Rest, From
    <2> QED BY <2>1, <2>3, <2>4
<1>9. (From + n)' <= 2 * BufferSize
    <2>1. From' = 0 /\ n' = n
        BY <1>1, <1>2 DEF From
    <2> QED BY <1>3, <1>4, <2>1, Sizes
<1>10. n > 0 => Size[Rest[1].kind] > n
    BY <1>0, <1>1 DEF InputInv
<1>11. pc # "done" /\ pc \in {"packets", "move", "read"} /\ pc' \in {"packets", "move", "read"}
    BY <1>1
<1> QED BY <1>0, <1>2, <1>7, <1>8, <1>9, <1>10, <1>11, SameRest

\* Less than a packet is left in the input buffer.
LEMMA Remainder ==
    ASSUME TypeInv, NEW d \in Seq(Cell), InputInv(d), pc = "move" \/ pc = "read"
    PROVE  n < BufferSize /\ (pipe = <<>> => n = 0 /\ Rest = <<>>)
<1>1. /\ Rest \in Seq(Cell) /\ Len(Rest) = n + Len(pipe) /\ Aligned(Rest) /\ Len(pipe) \in Nat
    BY RestIs
<1>2. n \in Nat /\ (n > 0 => Size[Rest[1].kind] > n)
    BY DEF TypeInv, InputInv
<1>3. CASE n = 0
    <2>1. pipe = <<>> => Len(Rest) = 0
        BY <1>1, <1>3
    <2> QED BY <1>1, <1>3, <2>1, Sizes
<1>4. CASE n > 0
    <2>1. Rest # <<>>
        BY <1>1, <1>2, <1>4
    <2>2. Size[Rest[1].kind] \in 1..Len(Rest) /\ Size[Rest[1].kind] <= BufferSize
        BY <1>1, <2>1, AlignedDrop
    <2>3. pipe = <<>> => Len(pipe) = 0
        OBVIOUS
    <2> QED BY <1>1, <1>2, <1>4, <2>2, <2>3, Sizes
<1> QED BY <1>2, <1>3, <1>4

\* flush_data at the end.
LEMMA Finished ==
    ASSUME Reliable, TypeInv, NEW code, Finish(code)
    PROVE  /\ pc' = "done" /\ rc' = code /\ output_buffer' = <<>>
           /\ [buf |-> output_buffer', out |-> out', ok |-> TRUE] \in OutStates
           /\ fd_out = 1 => out' = Passed(Output)
<1> DEFINE w == FlushData(Output, fd_out, TRUE)
<1>1. Output \in [buf : Seq(Cell), out : Seq(Cell), ok : {TRUE}] /\ fd_out \in {-1, 0, 1}
    BY DEF TypeInv, OutStates
<1>2. w \in OutStates /\ w.buf = <<>> /\ (fd_out = 1 => Passed(w) = Passed(Output))
    BY <1>1, Flushed
<1>3. PICK works \in Works : SetOutput(FlushData(Output, fd_out, works))
    BY DEF Finish
<1>4. works = TRUE
    BY DEF Works, Reliable
<1>5. output_buffer' = w.buf /\ out' = w.out /\ pc' = "done" /\ rc' = code
    BY <1>3, <1>4 DEF SetOutput, Finish
<1> HIDE DEF w
<1>6. [buf |-> output_buffer', out |-> out', ok |-> TRUE] = w
    BY <1>2, <1>5, OutRecord
<1>7. Passed(w) = w.out
    <2>1. w.out \in Seq(Cell)
        BY <1>2 DEF OutStates
    <2> QED BY <1>2, <2>1, ConcatEmptySeq DEF Passed
<1> QED BY <1>2, <1>5, <1>6, <1>7

LEMMA ReadPipeStep ==
    ASSUME Reliable, ListenerInv, ReadPipe
    PROVE  ListenerInv'
<1>0. PICK d \in Seq(Cell) : InputInv(d) /\ OutputInv(d)
    BY DEF ListenerInv
<1>1. TypeInv /\ pc = "read" /\ pipe # <<>>
    BY DEF ListenerInv, ReadPipe
<1> DEFINE nbytes == MinOf(Len(pipe), BufferSize)
           data == SubSeq(pipe, 1, nbytes)
<1>2. buffer \in InputBuffers /\ n \in Nat /\ pipe \in Seq(Cell) /\ Len(pipe) \in Nat
    BY <1>1 DEF TypeInv
<1>3. /\ Rest \in Seq(Cell) /\ Len(Rest) = n + Len(pipe) /\ From = 0
      /\ \A j \in 1..n : Rest[j] = buffer[From + j - 1]
      /\ \A j \in 1..Len(pipe) : Rest[n + j] = pipe[j]
    BY <1>0, <1>1, RestIs DEF From
<1>4. n < BufferSize
    BY <1>0, <1>1, Remainder
<1>5. nbytes \in 0..Len(pipe) /\ nbytes <= BufferSize
    BY <1>2, Sizes DEF MinOf
<1>6. /\ buffer' = Stored(n, data) /\ pipe' = Drop(pipe, nbytes)
      /\ UNCHANGED <<written, closed, layout, hs_buffer, fd_out, s_mmaps, stops>>
    BY DEF ReadPipe, targetVars
<1>7. \/ stops >= RequestStop /\ Finish(0) /\ UNCHANGED <<ptr_in, n>>
      \/ n' = n + nbytes /\ ptr_in' = 0 /\ pc' = "packets" /\ UNCHANGED <<rc, output_buffer, out>>
    BY DEF ReadPipe
<1> HIDE DEF nbytes
<1>8. data \in Seq(Cell) /\ Len(data) = nbytes /\ \A j \in 1..nbytes : data[j] = pipe[j]
    BY <1>2, <1>5, Pieces
<1>9. /\ pipe' \in Seq(Cell) /\ Len(pipe') = Len(pipe) - nbytes
      /\ \A j \in 1..(Len(pipe) - nbytes) : pipe'[j] = pipe[nbytes + j]
    BY <1>2, <1>5, <1>6, Pieces
<1> HIDE DEF data
<1>10. nbytes \in Nat /\ n + nbytes \in Nat /\ n + nbytes <= 2 * BufferSize /\ 0 <= 2 * BufferSize
    BY <1>2, <1>4, <1>5, Sizes
<1>11. /\ buffer' \in InputBuffers
       /\ \A j \in 1..nbytes : buffer'[n + j - 1] = pipe[j]
       /\ \A j \in 1..n : buffer'[j - 1] = buffer[j - 1]
    <2>1. buffer' = Store(buffer, n, data)
        BY <1>6 DEF Stored, Store
    <2>2. n + Len(data) <= 2 * BufferSize
        BY <1>8, <1>10
    <2>3. /\ Store(buffer, n, data) \in InputBuffers
          /\ \A j \in 1..Len(data) : Store(buffer, n, data)[n + j - 1] = data[j]
          /\ \A j \in 1..n : Store(buffer, n, data)[j - 1] = buffer[j - 1]
        BY <1>2, <1>8, <2>2, StoreIs
    <2> QED BY <1>8, <2>1, <2>3
<1>12. CASE stops >= RequestStop /\ Finish(0) /\ UNCHANGED <<ptr_in, n>>
    <2>1. /\ pc' = "done" /\ output_buffer' = <<>>
          /\ [buf |-> output_buffer', out |-> out', ok |-> TRUE] \in OutStates
        BY <1>1, <1>12, Finished
    <2>2. TypeInv'
        BY <1>1, <1>6, <1>9, <1>11, <1>12, <2>1 DEF TypeInv, Output
    <2>3. ~(stops' < RequestStop) /\ (~Buffered => fd_out' # -1)
        BY <1>0, <1>1, <1>6, <1>12, SizeAssumption DEF OutputInv, TypeInv
    <2> QED BY <2>1, <2>2, <2>3, Ended
<1>13. CASE n' = n + nbytes /\ ptr_in' = 0 /\ pc' = "packets" /\ UNCHANGED <<rc, output_buffer, out>>
    <2>1. TypeInv'
        BY <1>1, <1>6, <1>9, <1>10, <1>11, <1>13 DEF TypeInv, Output
    <2>2. Rest' = Rest
        <3>1. PICK r \in Seq(Cell), buf \in InputBuffers, p \in Seq(Cell), count \in Nat :
                  r = Rest /\ buf = buffer' /\ p = pipe' /\ count = n + nbytes
            BY <1>3, <1>9, <1>10, <1>11
        <3>2. 0 \in Nat /\ 0 + count <= 2 * BufferSize /\ Len(r) = count + Len(p)
            BY <1>2, <1>3, <1>5, <1>9, <1>10, <3>1, Sizes
        <3>3. ASSUME NEW j \in 1..count PROVE buf[0 + j - 1] = r[j]
            <4>1. CASE j <= n
                <5>1. j \in 1..n /\ 0 + j - 1 = j - 1
                    BY <1>2, <3>1, <4>1
                <5>2. r[j] = buffer[0 + j - 1]
                    BY <1>3, <3>1, <5>1
                <5> QED BY <1>11, <3>1, <5>1, <5>2
            <4>2. CASE j > n
                <5>1. PICK m \in 1..nbytes : j = n + m
                    <6>1. j - n \in 1..nbytes /\ j = n + (j - n)
                        BY <1>2, <1>10, <3>1, <4>2
                    <6> QED BY <6>1
                <5>2. m \in 1..Len(pipe) /\ 0 + j - 1 = n + m - 1
                    BY <1>2, <1>5, <1>10, <5>1
                <5>3. r[n + m] = pipe[m] /\ buf[n + m - 1] = pipe[m]
                    BY <1>3, <1>11, <3>1, <5>1, <5>2
                <5> QED BY <5>1, <5>2, <5>3
            <4>3. j <= n \/ j > n
                BY <1>2
            <4> QED BY <4>1, <4>2, <4>3
        <3>4. ASSUME NEW j \in 1..Len(p) PROVE p[j] = r[count + j]
            <4>1. j \in 1..(Len(pipe) - nbytes) /\ nbytes + j \in 1..Len(pipe)
                  /\ count + j = n + (nbytes + j)
                BY <1>2, <1>5, <1>9, <1>10, <3>1
            <4>2. p[j] = pipe[nbytes + j] /\ r[n + (nbytes + j)] = pipe[nbytes + j]
                BY <1>3, <1>9, <3>1, <4>1
            <4> QED BY <4>1, <4>2
        <3>5. Window(buf, 0, count, p) = r
            BY <3>2, <3>3, <3>4, SameWindow
        <3>6. Rest' = Window(buffer', 0, n + nbytes, pipe')
            BY <1>13 DEF Rest, From
        <3> QED BY <3>1, <3>5, <3>6
    <2>3. (From + n)' <= 2 * BufferSize
        <3>1. From' = 0
            BY <1>13 DEF From
        <3> QED BY <1>10, <1>13, <3>1
    <2>4. pc # "done" /\ pc \in {"packets", "move", "read"} /\ pc' = "packets"
          /\ pc' \in {"packets", "move", "read"}
        BY <1>1, <1>13
    <2> QED BY <1>0, <1>6, <1>13, <2>1, <2>2, <2>3, <2>4, SameRest
<1> QED BY <1>7, <1>12, <1>13

LEMMA EndOfPipeStep ==
    ASSUME Reliable, ListenerInv, EndOfPipe
    PROVE  ListenerInv'
<1>0. PICK d \in Seq(Cell) : InputInv(d) /\ OutputInv(d)
    BY DEF ListenerInv
<1>1. TypeInv /\ pc = "read" /\ pipe = <<>> /\ closed /\ Finish(0)
    BY DEF ListenerInv, EndOfPipe
<1>2. UNCHANGED <<written, closed, layout, pipe, buffer, ptr_in, n, hs_buffer, fd_out, s_mmaps, stops>>
    BY DEF EndOfPipe, targetVars
<1>3. /\ pc' = "done" /\ output_buffer' = <<>>
      /\ [buf |-> output_buffer', out |-> out', ok |-> TRUE] \in OutStates
      /\ fd_out = 1 => out' = Passed(Output)
    BY <1>1, Finished
<1>4. TypeInv'
    BY <1>1, <1>2, <1>3 DEF TypeInv, Output
<1>5. SentCells' = d
    <2>1. Rest = <<>>
        BY <1>0, <1>1, Remainder
    <2>2. SentCells = d \o Rest
        BY <1>0, <1>1, RestIs
    <2>3. SentCells' = SentCells
        BY <1>2 DEF SentCells
    <2> QED BY <2>1, <2>2, <2>3, ConcatEmptySeq
<1>6. fd_out' = 1 => Without(out', "MM") = Without(SentCells', "NL")
    BY <1>0, <1>1, <1>2, <1>3, <1>5 DEF OutputInv
<1>7. closed' /\ (~Buffered => fd_out' # -1)
    BY <1>0, <1>1, <1>2 DEF OutputInv
<1> QED BY <1>3, <1>4, <1>6, <1>7, Ended

LEMMA InterruptStep ==
    ASSUME Reliable, ListenerInv, Interrupt
    PROVE  ListenerInv'
<1>0. PICK d \in Seq(Cell) : InputInv(d) /\ OutputInv(d)
    BY DEF ListenerInv
<1>1. TypeInv /\ pc # "done" /\ stops' = stops + 1
    BY DEF ListenerInv, Interrupt
<1>2. UNCHANGED <<written, closed, layout, pipe, buffer, ptr_in, n, hs_buffer, fd_out, s_mmaps>>
    BY DEF Interrupt, targetVars
<1>3. stops \in Nat /\ stops' \in Nat /\ stops <= stops' /\ RequestStop \in Nat
    BY <1>1, SizeAssumption DEF TypeInv
<1>4. /\ pc = "handshake" /\ Waiting => Abort(-1)
      /\ pc = "read" /\ Waiting /\ stops' >= RequestStop => Finish(0)
      /\ pc = "read" /\ Waiting /\ stops' < RequestStop =>
            pc' = "packets" /\ UNCHANGED <<rc, output_buffer, out>>
      /\ ~(pc = "handshake" /\ Waiting) /\ ~(pc = "read" /\ Waiting) =>
            UNCHANGED <<pc, rc, output_buffer, out>>
    BY <1>3 DEF Interrupt
<1>5. CASE pc = "handshake" /\ Waiting
    <2>1. pc' = "done" /\ rc' = -1 /\ UNCHANGED <<output_buffer, out>>
        BY <1>4, <1>5 DEF Abort
    <2>2. TypeInv'
        BY <1>1, <1>2, <1>3, <2>1 DEF TypeInv, Output
    <2>3. (fd_out' = 0 => output_buffer' = <<>>) /\ (~Buffered => fd_out' # -1) /\ rc' # 0
        BY <1>0, <1>2, <2>1 DEF OutputInv
    <2> QED BY <2>1, <2>2, <2>3, Ended
<1>6. CASE pc = "read" /\ Waiting /\ stops' >= RequestStop
    <2>1. /\ pc' = "done" /\ output_buffer' = <<>>
          /\ [buf |-> output_buffer', out |-> out', ok |-> TRUE] \in OutStates
        BY <1>1, <1>4, <1>6, Finished
    <2>2. TypeInv'
        BY <1>1, <1>2, <1>3, <2>1 DEF TypeInv, Output
    <2>3. ~(stops' < RequestStop) /\ (~Buffered => fd_out' # -1)
        BY <1>0, <1>2, <1>3, <1>6 DEF OutputInv
    <2> QED BY <2>1, <2>2, <2>3, Ended
<1>7. CASE pc = "read" /\ Waiting /\ stops' < RequestStop
    <2>1. pc' = "packets" /\ UNCHANGED <<rc, output_buffer, out>>
        BY <1>4, <1>7
    <2>2. TypeInv'
        BY <1>1, <1>2, <1>3, <2>1 DEF TypeInv, Output
    <2>3. n = 0 /\ Rest = <<>> /\ pipe = <<>>
        BY <1>0, <1>1, <1>7, Remainder DEF Waiting
    <2>4. buffer \in InputBuffers /\ ptr_in \in Nat /\ ptr_in <= 2 * BufferSize
        BY <1>1 DEF TypeInv
    <2>5. Rest' = Rest
        <3>1. Rest' = Window(buffer, ptr_in, n, pipe)
            BY <1>2, <2>1 DEF Rest, From
        <3>2. InBuffer(buffer, ptr_in, n, pipe)
            BY <1>1, <2>3, <2>4, Sizes DEF InBuffer, TypeInv
        <3>3. IsWindow(Rest', buffer, ptr_in, n, pipe)
            BY <3>1, <3>2, WindowIs
        <3>4. Rest' \in Seq(Cell) /\ Len(Rest') = 0 + Len(<<>>)
            BY <2>3, <3>3 DEF IsWindow
        <3>5. Rest' = <<>>
            BY <3>4
        <3> QED BY <2>3, <3>5
    <2>6. (From + n)' <= 2 * BufferSize
        <3>1. From' = ptr_in /\ n' = 0
            BY <1>2, <2>1, <2>3 DEF From
        <3> QED BY <2>4, <3>1, Sizes
    <2>7. pc \in {"packets", "move", "read"} /\ pc' \in {"packets", "move", "read"}
        BY <1>7, <2>1
    <2> QED BY <1>0, <1>1, <1>2, <2>1, <2>2, <2>5, <2>6, <2>7, SameRest
<1>8. CASE ~(pc = "handshake" /\ Waiting) /\ ~(pc = "read" /\ Waiting)
    <2>1. UNCHANGED <<pc, rc, output_buffer, out>>
        BY <1>4, <1>8
    <2>2. layout' \in {0} \cup DOMAIN Layouts /\ (closed => closed')
        BY <1>1, <1>2 DEF TypeInv
    <2> QED BY <1>2, <1>3, <2>1, <2>2, QuietStep
<1>9. stops' >= RequestStop \/ stops' < RequestStop
    BY <1>3
<1> QED BY <1>5, <1>6, <1>7, <1>8, <1>9

LEMMA NextStep ==
    ASSUME Reliable, ListenerInv, [Next]_vars
    PROVE  ListenerInv'
<1>1. CASE WriteToPipe
    BY <1>1, WriteToPipeStep
<1>2. CASE CloseWriter
    <2>1. TypeInv
        BY DEF ListenerInv
    <2>2. layout' \in {0} \cup DOMAIN Layouts /\ stops' \in Nat /\ stops <= stops'
        BY <1>2, <2>1 DEF TypeInv, CloseWriter
    <2> QED BY <1>2, <2>2, QuietStep DEF CloseWriter, outputVars
<1>3. CASE ChangeLayout
    <2>1. TypeInv
        BY DEF ListenerInv
    <2>2. layout' \in {0} \cup DOMAIN Layouts /\ stops' \in Nat /\ stops <= stops'
        BY <1>3, <2>1 DEF TypeInv, ChangeLayout
    <2> QED BY <1>3, <2>2, QuietStep DEF ChangeLayout, outputVars
<1>4. CASE ReadHandshake
    BY <1>4, ReadHandshakeStep
<1>5. CASE NothingWritten
    BY <1>5, NothingWrittenStep
<1>6. CASE ProcessPacket
    BY <1>6, ProcessPacketStep
<1>7. CASE NoPostproc
    BY <1>7, NoPostprocStep
<1>8. CASE LastPacket
    BY <1>8, LastPacketStep
<1>9. CASE MoveRemainder
    BY <1>9, MoveRemainderStep
<1>10. CASE ReadPipe
    BY <1>10, ReadPipeStep
<1>11. CASE EndOfPipe
    BY <1>11, EndOfPipeStep
<1>12. CASE Interrupt
    BY <1>12, InterruptStep
<1>13. CASE UNCHANGED vars
    <2>1. TypeInv
        BY DEF ListenerInv
    <2>2. layout' \in {0} \cup DOMAIN Layouts /\ stops' \in Nat /\ stops <= stops'
        BY <1>13, <2>1 DEF TypeInv, vars
    <2> QED BY <1>13, <2>2, QuietStep DEF vars
<1> QED BY <1>1, <1>2, <1>3, <1>4, <1>5, <1>6, <1>7, <1>8, <1>9, <1>10, <1>11, <1>12, <1>13
        DEF Next, ProcessData

LEMMA InvImpliesSynchronized == ListenerInv => Synchronized
<1> SUFFICES ASSUME ListenerInv, pc = "packets", n > 0 PROVE buffer[ptr_in].i = 1
    BY DEF Synchronized
<1>1. PICK d \in Seq(Cell) : InputInv(d)
    BY DEF ListenerInv
<1>2. TypeInv /\ n \in Nat
    BY DEF ListenerInv, TypeInv
<1>3. n >= 1
    BY <1>2
<1> QED BY <1>1, <1>2, <1>3, AtHeader

LEMMA InvImpliesBuffersFit == ListenerInv => BuffersFit
<1> SUFFICES ASSUME ListenerInv PROVE BuffersFit
    OBVIOUS
<1>1. PICK d \in Seq(Cell) : InputInv(d)
    BY DEF ListenerInv
<1>2. TypeInv /\ n \in Nat /\ Output \in OutStates
    BY DEF ListenerInv, TypeInv
<1>3. pc = "read" => n < BufferSize
    BY <1>1, <1>2, Remainder
<1>4. Output.buf = output_buffer /\ Len(Output.buf) < BufferSize /\ Output.buf \in Seq(Cell)
    BY <1>2 DEF Output, OutStates
<1>5. Len(output_buffer) \in Nat /\ Len(output_buffer) < BufferSize
    BY <1>4
<1> QED BY <1>2, <1>3, <1>5, Sizes DEF BuffersFit

LEMMA InvImpliesForwarded == ListenerInv => ForwardedInOrder /\ DrainedAtEnd
<1> SUFFICES ASSUME ListenerInv PROVE ForwardedInOrder /\ DrainedAtEnd
    OBVIOUS
<1>1. PICK d \in Seq(Cell) : InputInv(d) /\ OutputInv(d)
    BY DEF ListenerInv
<1>2. TypeInv
    BY DEF ListenerInv
<1>3. DrainedAtEnd
    BY <1>1 DEF OutputInv, DrainedAtEnd
<1>4. ASSUME fd_out = 1, pc # "done"
      PROVE  Without(out \o output_buffer, "MM") = Without(SubSeq(SentCells, 1, Handled), "NL")
    <2>1. Without(Passed(Output), "MM") = Without(d, "NL")
        BY <1>1, <1>4 DEF OutputInv
    <2>2. Passed(Output) = out \o output_buffer
        BY DEF Passed, Output
    <2>3. /\ From \in Nat /\ From + n <= 2 * BufferSize /\ SentCells = d \o Rest
        BY <1>1, <1>2, <1>4, RestIs
    <2>4. PICK b \in InputBuffers, f \in Nat, m \in Nat, p \in Seq(Cell) :
              b = buffer /\ f = From /\ m = n /\ p = pipe
        BY <1>2, <2>3 DEF TypeInv
    <2>5. Rest = Window(b, f, m, p)
        BY <2>3, <2>4 DEF Rest
    <2>6. f + m <= 2 * BufferSize
        BY <2>3, <2>4
    <2>7. /\ Len(d \o Window(b, f, m, p)) - Len(p) - m = Len(d)
          /\ SubSeq(d \o Window(b, f, m, p), 1, Len(d)) = d
        BY <2>6, Position
    <2>8. Handled = Len(d)
        BY <2>3, <2>4, <2>5, <2>7 DEF Handled
    <2>9. SubSeq(SentCells, 1, Handled) = d
        BY <2>3, <2>5, <2>7, <2>8
    <2> QED BY <2>1, <2>2, <2>9
<1>5. ForwardedInOrder
    BY <1>4 DEF ForwardedInOrder
<1> QED BY <1>3, <1>5

\* The invariant holds in every state.
LEMMA ListenerInvariant ==
    ASSUME Reliable
    PROVE  Spec => []ListenerInv
<1>1. Init => ListenerInv
    BY InitInv
<1>2. ListenerInv /\ [Next]_vars => ListenerInv'
    BY NextStep
<1> QED BY <1>1, <1>2, PTL DEF Spec

\* process_packet is only ever given the start of a packet, however the reads
\* cut the stream and wherever SIGINT interrupts them: what it takes for a
\* header is one.
THEOREM PacketsAligned ==
    ASSUME Reliable
    PROVE  Spec => []Synchronized
BY ListenerInvariant, InvImpliesSynchronized, PTL

\* A read of BUFFER_SIZE always fits behind the incomplete packet that
\* process_data has moved to the front, and a packet of any size behind what
\* write_data keeps: neither static buffer is written past its end.
THEOREM NoOverflow ==
    ASSUME Reliable
    PROVE  Spec => []BuffersFit
BY ListenerInvariant, InvImpliesBuffersFit, PTL

\* The log has the process's packets in their order and each once, the
\* handshake that was read before the output was known first; only the memory
\* mapping packets are added and the new library packets left out.
THEOREM StreamIntact ==
    ASSUME Reliable
    PROVE  Spec => []ForwardedInOrder
BY ListenerInvariant, InvImpliesForwarded, PTL

\* When the process has closed the pipe, everything it wrote has been passed
\* on and flushed before process_data returns.
THEOREM NothingLeftBehind ==
    ASSUME Reliable
    PROVE  Spec => []DrainedAtEnd
BY ListenerInvariant, InvImpliesForwarded, PTL

-----------------------------------------------------------------------------
\* The memory mapping packets.  scan_mmap_data takes the first mapping of its
\* cache that overlaps or touches a line for the one to replace.  That is the
\* right one when such mappings come in groups, all of whose members overlap
\* or touch one another, so that the cache has one of each group.
AllMaps == UNION {ToSet(Layouts[l]) : l \in DOMAIN Layouts}
InGroups ==
    /\ \A map \in AllMaps : map.from < map.to
    /\ \A l \in DOMAIN Layouts : \A i, j \in DOMAIN Layouts[l] :
          i # j => ~Shares(Layouts[l][i], Layouts[l][j])
    /\ \A map1, map2, map3 \in AllMaps :
          RangeCompare(map1, map2) /\ RangeCompare(map2, map3) => RangeCompare(map1, map3)

\* The last packet for an address of the mapping is for the mapping.
Announced(s, map) ==
    \E i \in 1..Len(s) :
        /\ s[i].kind = "MM" /\ s[i].map = map
        /\ \A j \in 1..Len(s) : j > i /\ s[j].kind = "MM" => ~Shares(s[j].map, map)

LEMMA MapTypes ==
    /\ AllMaps \subseteq [from : Nat, to : Nat, module : STRING]
    /\ AllMaps \subseteq Mapping
    /\ \A l \in DOMAIN Layouts : \A k \in 1..Len(Layouts[l]) : Layouts[l][k] \in AllMaps
<1>1. \A l \in DOMAIN Layouts : Layouts[l] \in Seq([from : Nat, to : Nat, module : STRING])
    BY SizeAssumption
<1>2. ASSUME NEW l \in DOMAIN Layouts
      PROVE  ToSet(Layouts[l]) \subseteq [from : Nat, to : Nat, module : STRING]
    <2>0. PICK S, seq : S = [from : Nat, to : Nat, module : STRING] /\ seq = Layouts[l]
        OBVIOUS
    <2>1. seq \in Seq(S)
        BY <1>1, <2>0
    <2>2. \A i \in DOMAIN seq : seq[i] \in S
        BY ONLY <2>1
    <2> QED BY <2>0, <2>2, Zenon DEF ToSet
<1>3. \A l \in DOMAIN Layouts : \A k \in 1..Len(Layouts[l]) : Layouts[l][k] \in ToSet(Layouts[l])
    BY <1>1 DEF ToSet
<1>4. AllMaps \subseteq [from : Nat, to : Nat, module : STRING]
    BY <1>2 DEF AllMaps
<1> QED BY <1>3, <1>4 DEF AllMaps, Mapping

LEMMA SharingCompares ==
    ASSUME NEW map1 \in AllMaps, NEW map2 \in AllMaps
    PROVE  /\ Shares(map1, map2) => RangeCompare(map1, map2)
           /\ RangeCompare(map1, map2) => RangeCompare(map2, map1)
           /\ Shares(map1, map2) => Shares(map2, map1)
<1>1. map1.from \in Nat /\ map1.to \in Nat /\ map2.from \in Nat /\ map2.to \in Nat
    BY MapTypes
<1> QED BY <1>1 DEF Shares, RangeCompare

LEMMA StillAnnounced ==
    ASSUME NEW s \in Seq(Cell), NEW t \in Seq(Cell), NEW map, Announced(s, map),
           \A j \in 1..Len(t) : t[j].kind = "MM" => ~Shares(t[j].map, map)
    PROVE  Announced(s \o t, map)
<1>1. PICK u : u = s \o t
    OBVIOUS
<1>2. /\ u \in Seq(Cell) /\ Len(u) = Len(s) + Len(t) /\ Len(s) \in Nat /\ Len(t) \in Nat
      /\ \A k \in 1..Len(s) : u[k] = s[k]
      /\ \A k \in 1..Len(t) : u[Len(s) + k] = t[k]
    BY <1>1, ConcatAt
<1>3. PICK i \in 1..Len(s) :
          /\ s[i].kind = "MM" /\ s[i].map = map
          /\ \A j \in 1..Len(s) : j > i /\ s[j].kind = "MM" => ~Shares(s[j].map, map)
    BY DEF Announced
<1>4. i \in 1..Len(u) /\ u[i] = s[i]
    BY <1>2
<1>5. ASSUME NEW j \in 1..Len(u), j > i, u[j].kind = "MM" PROVE ~Shares(u[j].map, map)
    <2>1. CASE j <= Len(s)
        BY <1>2, <1>3, <1>5, <2>1
    <2>2. CASE j > Len(s)
        <3>1. PICK k \in 1..Len(t) : j = Len(s) + k
            <4>1. j - Len(s) \in 1..Len(t) /\ j = Len(s) + (j - Len(s))
                BY <1>2, <2>2
            <4> QED BY <4>1
        <3>2. u[j] = t[k]
            BY <1>2, <3>1
        <3> QED BY <1>5, <3>2
    <2> QED BY <1>2, <2>1, <2>2
<1>6. Announced(u, map)
    BY <1>3, <1>4, <1>5 DEF Announced
<1> QED BY <1>1, <1>6

LEMMA NowAnnounced ==
    ASSUME NEW s \in Seq(Cell), NEW map \in Mapping
    PROVE  Announced(s \o Cells("MM", <<0, 0>>, map), map)
<1>0. PICK t : t = Cells("MM", <<0, 0>>, map)
    OBVIOUS
<1>1. /\ t \in Seq(Cell) /\ Len(t) = Size["MM"] /\ Size["MM"] \in Nat /\ Size["MM"] > 0
      /\ \A k \in 1..Len(t) : t[k].kind = "MM" /\ t[k].map = map
    <2>1. <<0, 0>> \in Nat \X Nat
        OBVIOUS
    <2>2. t \in Seq(Cell) /\ Len(t) = Size["MM"] /\ \A k \in 1..Size["MM"] : t[k].kind = "MM"
        BY <1>0, <2>1, KindNames, CellsOfPacket
    <2>3. \A k \in 1..Size["MM"] : t[k].map = map
        BY <1>0 DEF Cells
    <2> QED BY <2>2, <2>3, Sizes, KindNames
<1>2. PICK u : u = s \o t
    OBVIOUS
<1>3. /\ u \in Seq(Cell) /\ Len(u) = Len(s) + Len(t) /\ Len(s) \in Nat /\ Len(t) \in Nat
      /\ \A k \in 1..Len(t) : u[Len(s) + k] = t[k]
    BY <1>1, <1>2, ConcatAt
<1>4. Len(t) \in 1..Len(t) /\ Len(u) \in 1..Len(u)
    BY <1>1, <1>3
<1>5. u[Len(u)] = t[Len(t)]
    BY <1>3, <1>4
<1>6. \A j \in 1..Len(u) : ~(j > Len(u))
    BY <1>3
<1>7. Announced(u, map)
    BY <1>1, <1>4, <1>5, <1>6 DEF Announced
<1> QED BY <1>0, <1>2, <1>7

\* What the invariant of the run looks for.
LEMMA LastIsIt ==
    ASSUME NEW s \in Seq(Cell), NEW map \in AllMaps, map.from < map.to, Announced(s, map)
    PROVE  LET last == SelectLastInSeq(s, LAMBDA c : c.kind = "MM" /\ Shares(c.map, map))
           IN  last # 0 /\ s[last].map = map
<1>0. PICK I : I = {i \in 1..Len(s) : s[i].kind = "MM" /\ Shares(s[i].map, map)}
    OBVIOUS
<1>1. SelectLastInSeq(s, LAMBDA c : c.kind = "MM" /\ Shares(c.map, map)) = IF I # {} THEN Max(I) ELSE 0
    BY <1>0 DEF SelectLastInSeq
<1>2. PICK i \in 1..Len(s) :
          /\ s[i].kind = "MM" /\ s[i].map = map
          /\ \A j \in 1..Len(s) : j > i /\ s[j].kind = "MM" => ~Shares(s[j].map, map)
    BY DEF Announced
<1>3. map.from \in Nat /\ map.to \in Nat /\ Len(s) \in Nat
    BY MapTypes
<1>4. i \in I
    BY <1>0, <1>2, <1>3 DEF Shares
<1>5. \A j \in I : j \in Nat /\ i >= j
    BY <1>0, <1>2, <1>3
<1>6. \A x \in I : (\A y \in I : x >= y) => x = i
    BY <1>4, <1>5
<1>7. Max(I) = i
    BY <1>4, <1>5, <1>6 DEF Max
<1> QED BY <1>1, <1>2, <1>4, <1>7

LEMMA RemovedAt ==
    ASSUME NEW S, NEW s \in Seq(S), NEW i \in 1..Len(s)
    PROVE  /\ RemoveAt(s, i) \in Seq(S) /\ Len(RemoveAt(s, i)) = Len(s) - 1
           /\ \A j \in 1..(Len(s) - 1) : RemoveAt(s, i)[j] = IF j < i THEN s[j] ELSE s[j + 1]
<1>1. PICK a, b : a = SubSeq(s, 1, i - 1) /\ b = SubSeq(s, i + 1, Len(s))
    OBVIOUS
<1>2. Len(s) \in Nat /\ i \in Nat /\ i >= 1 /\ i <= Len(s)
    OBVIOUS
<1>3. /\ a \in Seq(S) /\ Len(a) = i - 1
      /\ \A j \in 1..Len(a) : a[j] = s[j]
    BY <1>1, <1>2
<1>4. /\ b \in Seq(S) /\ Len(b) = Len(s) - i
      /\ \A j \in 1..Len(b) : b[j] = s[i + j]
    BY <1>1, <1>2
<1>5. PICK r : r = a \o b
    OBVIOUS
<1>6. /\ r \in Seq(S) /\ Len(r) = Len(a) + Len(b)
      /\ \A k \in 1..Len(a) : r[k] = a[k]
      /\ \A k \in 1..Len(b) : r[Len(a) + k] = b[k]
    <2>1. a \in Seq(S) /\ b \in Seq(S)
        BY <1>3, <1>4
    <2>2. /\ a \o b \in Seq(S) /\ Len(a \o b) = Len(a) + Len(b)
          /\ \A k \in 1..Len(a) : (a \o b)[k] = a[k]
          /\ \A k \in 1..Len(b) : (a \o b)[Len(a) + k] = b[k]
        BY ONLY <2>1, ConcatAt
    <2> QED BY <1>5, <2>2
<1>7. ASSUME NEW j \in 1..(Len(s) - 1) PROVE r[j] = IF j < i THEN s[j] ELSE s[j + 1]
    <2>1. CASE j < i
        BY <1>2, <1>3, <1>6, <2>1
    <2>2. CASE ~(j < i)
        <3>1. PICK k \in 1..Len(b) : j = Len(a) + k /\ i + k = j + 1
            <4>1. j - Len(a) \in 1..Len(b) /\ j = Len(a) + (j - Len(a)) /\ i + (j - Len(a)) = j + 1
                BY <1>2, <1>3, <1>4, <2>2
            <4> QED BY <4>1
        <3>2. r[j] = b[k] /\ b[k] = s[i + k]
            BY <1>4, <1>6, <3>1
        <3> QED BY <2>2, <3>1, <3>2
    <2> QED BY <2>1, <2>2
<1>8. RemoveAt(s, i) = r
    BY <1>1, <1>5 DEF RemoveAt
<1> QED BY <1>2, <1>3, <1>4, <1>6, <1>7, <1>8

\* The cache has one mapping of each group.
Grouped(maps) ==
    /\ maps \in Seq(AllMaps)
    /\ \A i, j \in 1..Len(maps) : RangeCompare(maps[i], maps[j]) => i = j

LEMMA RestDiffers ==
    ASSUME InGroups, NEW maps, Grouped(maps), NEW map \in AllMaps, NEW rest,
           rest = IF First(maps, map) = 0 THEN maps ELSE RemoveAt(maps, First(maps, map))
    PROVE  /\ Grouped(rest)
           /\ \A i \in 1..Len(rest) : /\ ~RangeCompare(rest[i], map)
                                      /\ \E k \in 1..Len(maps) : rest[i] = maps[k]
<1>0. PICK first : first = First(maps, map)
    OBVIOUS
<1>1. maps \in Seq(AllMaps) /\ maps \in Seq(Mapping) /\ Len(maps) \in Nat
    <2>1. maps \in Seq(AllMaps) /\ AllMaps \subseteq Mapping
        BY MapTypes DEF Grouped
    <2> QED BY <2>1, SeqMonotonic
<1>2. /\ first \in 0..Len(maps)
      /\ first # 0 => RangeCompare(maps[first], map)
      /\ first = 0 => \A i \in 1..Len(maps) : ~RangeCompare(maps[i], map)
    BY <1>0, <1>1, FirstMatch
<1>3. CASE first = 0
    BY <1>0, <1>1, <1>2, <1>3
<1>4. CASE first # 0
    <2>1. first \in 1..Len(maps)
        BY <1>1, <1>2, <1>4
    <2>2. /\ rest \in Seq(AllMaps) /\ Len(rest) = Len(maps) - 1
          /\ \A j \in 1..(Len(maps) - 1) : rest[j] = IF j < first THEN maps[j] ELSE maps[j + 1]
        BY <1>0, <1>1, <1>4, <2>1, RemovedAt
    <2>3. \A i \in 1..Len(rest) :
              (IF i < first THEN i ELSE i + 1) \in 1..Len(maps) \ {first}
              /\ rest[i] = maps[IF i < first THEN i ELSE i + 1]
        BY <1>1, <2>1, <2>2
    <2>4. Grouped(rest)
        <3> SUFFICES ASSUME NEW i \in 1..Len(rest), NEW j \in 1..Len(rest),
                            RangeCompare(rest[i], rest[j])
                     PROVE  i = j
            BY <2>2 DEF Grouped
        <3>1. PICK a, b : a = (IF i < first THEN i ELSE i + 1) /\ b = (IF j < first THEN j ELSE j + 1)
            OBVIOUS
        <3>2. a \in 1..Len(maps) /\ b \in 1..Len(maps) /\ RangeCompare(maps[a], maps[b])
            BY <2>3, <3>1
        <3>3. a = b
            BY <3>2 DEF Grouped
        <3> QED BY <2>1, <2>2, <3>1, <3>3
    <2>5. ASSUME NEW i \in 1..Len(rest), RangeCompare(rest[i], map) PROVE FALSE
        <3>1. PICK a : a = IF i < first THEN i ELSE i + 1
            OBVIOUS
        <3>2. a \in 1..Len(maps) /\ a # first /\ RangeCompare(maps[a], map)
            BY <2>3, <2>5, <3>1
        <3>3. maps[a] \in AllMaps /\ maps[first] \in AllMaps
            BY <1>1, <2>1, <3>2
        <3>4. RangeCompare(map, maps[first])
            BY <1>2, <1>4, <3>3, SharingCompares
        <3>5. RangeCompare(maps[a], maps[first])
            BY <3>2, <3>3, <3>4 DEF InGroups
        <3> QED BY <2>1, <3>2, <3>5 DEF Grouped
    <2> QED BY <2>3, <2>4, <2>5
<1> QED BY <1>3, <1>4

LEMMA AddedToCache ==
    ASSUME InGroups, NEW rest, Grouped(rest), NEW map \in AllMaps,
           \A i \in 1..Len(rest) : ~RangeCompare(rest[i], map)
    PROVE  /\ Grouped(Append(rest, map))
           /\ \A i \in 1..Len(Append(rest, map)) :
                 Append(rest, map)[i] = map \/ (i \in 1..Len(rest) /\ Append(rest, map)[i] = rest[i])
<1>1. rest \in Seq(AllMaps) /\ Len(rest) \in Nat
    BY DEF Grouped
<1>2. PICK r : r = Append(rest, map)
    OBVIOUS
<1>3. /\ r \in Seq(AllMaps) /\ Len(r) = Len(rest) + 1 /\ r[Len(rest) + 1] = map
      /\ \A i \in 1..Len(rest) : r[i] = rest[i]
    BY <1>1, <1>2
<1>4. \A i \in 1..Len(r) : (i = Len(rest) + 1 /\ r[i] = map) \/ (i \in 1..Len(rest) /\ r[i] = rest[i])
    BY <1>1, <1>3
<1>5. \A i \in 1..Len(rest) : rest[i] \in AllMaps /\ ~RangeCompare(rest[i], map)
    BY <1>1
<1>6. \A i \in 1..Len(rest) : ~RangeCompare(map, rest[i])
    BY <1>5, SharingCompares
<1>7. \A i, j \in 1..Len(r) : RangeCompare(r[i], r[j]) => i = j
    BY <1>4, <1>5, <1>6 DEF Grouped
<1>8. Grouped(r)
    BY <1>3, <1>7 DEF Grouped
<1> QED BY <1>2, <1>4, <1>8

\* What holds after k of the lines: what the cache has is announced, and so
\* are the lines.
ScanKept(s, lines, k) ==
    /\ Grouped(s.maps)
    /\ \A i \in 1..Len(s.maps) : Announced(Passed(s.w), s.maps[i])
    /\ \A j \in 1..k : Announced(Passed(s.w), lines[j])

LEMMA LineKept ==
    ASSUME InGroups, fd_out = 1, NEW passed, NEW s \in ScanStates(passed),
           NEW l \in DOMAIN Layouts, NEW k \in Nat, k + 1 <= Len(Layouts[l]),
           ScanKept(s, Layouts[l], k)
    PROVE  ScanKept(ScanMapping(s, Layouts[l][k + 1], TRUE), Layouts[l], k + 1)
<1>0. PICK lines, map, X, cells :
          /\ lines = Layouts[l] /\ map = lines[k + 1]
          /\ X = Passed(s.w) /\ cells = Cells("MM", <<0, 0>>, map)
    OBVIOUS
<1>1. Len(lines) \in Nat /\ DOMAIN lines = 1..Len(lines)
    BY <1>0, SizeAssumption
<1>2. k + 1 \in 1..Len(lines) /\ \A j \in 1..(k + 1) : j \in 1..Len(lines)
    BY <1>0, <1>1
<1>3. map \in AllMaps /\ map \in Mapping /\ \A j \in 1..Len(lines) : lines[j] \in AllMaps
    BY <1>0, <1>2, MapTypes
<1>4. /\ s.maps \in Seq(Mapping) /\ s.w \in OutStates /\ s.w.ok = TRUE /\ X \in Seq(Cell)
    BY <1>0, PassedTyped DEF ScanStates, OutStates
<1>5. PICK rest, r :
          /\ rest = IF First(s.maps, map) = 0 THEN s.maps ELSE RemoveAt(s.maps, First(s.maps, map))
          /\ r = WriteData(s.w, cells, fd_out, TRUE)
    OBVIOUS
<1>6. CASE First(s.maps, map) # 0 /\ s.maps[First(s.maps, map)] = map
    <2>1. ScanMapping(s, map, TRUE) = s
        BY <1>6 DEF ScanMapping, SameMapping, First
    <2>2. First(s.maps, map) \in 1..Len(s.maps)
        <3>1. First(s.maps, map) \in 0..Len(s.maps) /\ Len(s.maps) \in Nat
            BY <1>4, FirstMatch
        <3> QED BY <1>6, <3>1
    <2>3. Announced(X, map)
        BY <1>0, <1>6, <2>2 DEF ScanKept
    <2>4. \A j \in 1..(k + 1) : Announced(X, lines[j])
        BY <1>0, <2>3 DEF ScanKept
    <2> QED BY <1>0, <2>1, <2>4 DEF ScanKept
<1>7. CASE ~(First(s.maps, map) # 0 /\ s.maps[First(s.maps, map)] = map)
    <2>1. ScanMapping(s, map, TRUE) = [maps |-> Append(rest, map), w |-> r]
        BY <1>0, <1>4, <1>5, <1>7 DEF ScanMapping, SameMapping, First
    <2>2. cells \in Seq(Cell) /\ \A j \in 1..Len(cells) : cells[j].map = map
        <3>1. <<0, 0>> \in Nat \X Nat
            OBVIOUS
        <3>2. cells \in Seq(Cell) /\ Len(cells) = Size["MM"]
            BY <1>0, <1>3, <3>1, KindNames, CellsOfPacket
        <3>3. \A j \in 1..Size["MM"] : cells[j].map = map
            BY <1>0 DEF Cells
        <3> QED BY <3>2, <3>3
    <2>3. Passed(r) = X \o cells
        BY <1>0, <1>4, <1>5, <2>2, Wrote
    <2>4. Announced(Passed(r), map)
        BY <1>0, <1>3, <1>4, <2>3, NowAnnounced
    <2>5. ASSUME NEW m \in AllMaps, Announced(X, m), ~Shares(map, m) PROVE Announced(Passed(r), m)
        <3>1. \A j \in 1..Len(cells) : cells[j].kind = "MM" => ~Shares(cells[j].map, m)
            BY <2>2, <2>5
        <3> QED BY <1>4, <2>2, <2>3, <2>5, <3>1, StillAnnounced
    <2>6. /\ Grouped(rest)
          /\ \A i \in 1..Len(rest) : /\ ~RangeCompare(rest[i], map)
                                     /\ \E a \in 1..Len(s.maps) : rest[i] = s.maps[a]
        <3>1. Grouped(s.maps)
            BY DEF ScanKept
        <3> QED BY <1>3, <1>5, <3>1, RestDiffers
    <2>7. /\ Grouped(Append(rest, map))
          /\ \A i \in 1..Len(Append(rest, map)) :
                Append(rest, map)[i] = map \/ (i \in 1..Len(rest) /\ Append(rest, map)[i] = rest[i])
        BY <1>3, <2>6, AddedToCache
    <2>8. ASSUME NEW i \in 1..Len(rest) PROVE Announced(Passed(r), rest[i])
        <3>1. rest[i] \in AllMaps /\ Announced(X, rest[i])
            <4>1. rest \in Seq(AllMaps)
                BY <2>6 DEF Grouped
            <4>2. PICK a \in 1..Len(s.maps) : rest[i] = s.maps[a]
                BY <2>6
            <4> QED BY <1>0, <4>1, <4>2 DEF ScanKept
        <3>2. ~Shares(map, rest[i])
            BY <1>3, <2>6, <3>1, SharingCompares
        <3> QED BY <2>5, <3>1, <3>2
    <2>9. \A i \in 1..Len(Append(rest, map)) : Announced(Passed(r), Append(rest, map)[i])
        BY <2>4, <2>7, <2>8
    <2>10. ASSUME NEW j \in 1..(k + 1) PROVE Announced(Passed(r), lines[j])
        <3>1. CASE j = k + 1
            BY <1>0, <2>4, <3>1
        <3>2. CASE j # k + 1
            <4>1. j \in 1..k /\ j \in 1..Len(lines)
                BY <1>2, <3>2
            <4>2. Announced(X, lines[j])
                BY <1>0, <4>1 DEF ScanKept
            <4>3. ~Shares(map, lines[j])
                BY <1>0, <1>1, <1>2, <3>2, <4>1 DEF InGroups
            <4> QED BY <1>3, <2>5, <4>1, <4>2, <4>3
        <3> QED BY <3>1, <3>2
    <2>11. PICK q, a : a = Append(rest, map) /\ q = [maps |-> a, w |-> r]
        OBVIOUS
    <2>12. q.maps = a /\ q.w = r
        BY ONLY <2>11
    <2>13. ScanKept(q, lines, k + 1)
        BY <2>7, <2>9, <2>10, <2>11, <2>12 DEF ScanKept
    <2> QED BY <1>0, <2>1, <2>11, <2>13
<1> QED BY <1>6, <1>7

LEMMA ScanAnnounces ==
    ASSUME InGroups, fd_out = 1, NEW passed, layout \in DOMAIN Layouts,
           [maps |-> s_mmaps, w |-> Output] \in ScanStates(passed),
           Grouped(s_mmaps), \A i \in 1..Len(s_mmaps) : Announced(Passed(Output), s_mmaps[i])
    PROVE  ScanKept(ScanMmapData(TRUE), Layouts[layout], Len(Layouts[layout]))
<1>0. PICK N : N = Len(Layouts[layout])
    OBVIOUS
<1>1. N \in Nat /\ layout # 0
    BY <1>0, SizeAssumption
<1>2. Found = Layouts[layout]
    BY <1>1 DEF Found
<1>3. PICK f : ScansTo(f, Layouts[layout], passed)
    BY <1>2, ScanLoop
<1>4. PICK M : M = {k \in 0..N : ScanKept(f[k], Layouts[layout], k)}
    OBVIOUS
<1>5. M \in SUBSET (0..N) /\ 0 \in M
    <2>1. f[0].maps = s_mmaps /\ f[0].w = Output
        BY <1>3 DEF ScansTo
    <2>2. ScanKept(f[0], Layouts[layout], 0)
        BY <2>1 DEF ScanKept
    <2>3. 0 \in 0..N
        BY <1>1
    <2> QED BY <1>4, <2>2, <2>3
<1>6. ASSUME NEW k \in M, k < N PROVE k + 1 \in M
    <2>1. /\ k \in Nat /\ k + 1 \in 1..N /\ k + 1 \in 0..N /\ (k + 1) - 1 = k /\ k \in 0..N
          /\ k + 1 <= N
        BY <1>1, <1>4, <1>6
    <2>2. f[k] \in ScanStates(passed) /\ ScanKept(f[k], Layouts[layout], k)
        BY <1>0, <1>3, <1>4, <2>1 DEF ScansTo
    <2>3. f[k + 1] = ScanMapping(f[k], Layouts[layout][k + 1], TRUE)
        BY <1>0, <1>3, <2>1 DEF ScansTo
    <2>4. ScanKept(f[k + 1], Layouts[layout], k + 1)
        <3>1. k + 1 <= Len(Layouts[layout])
            BY <1>0, <2>1
        <3> QED BY <2>1, <2>2, <2>3, <3>1, LineKept
    <2> QED BY <1>4, <2>1, <2>4
<1>7. M = 0..N
    BY <1>1, <1>5, <1>6, BoundedInduction
<1>8. ScanKept(f[N], Layouts[layout], N)
    BY <1>1, <1>4, <1>7
<1> QED BY <1>0, <1>3, <1>8 DEF ScansTo

\* Nothing is scanned before the output is connected.  From then on what the
\* cache has and what the last scan found are announced.
MapsInv ==
    /\ scanned \in {0} \cup DOMAIN Layouts
    /\ fd_out = 0 => s_mmaps = <<>> /\ scanned = 0
    /\ fd_out = 1 /\ pc # "done" =>
          /\ Grouped(s_mmaps)
          /\ \A i \in 1..Len(s_mmaps) : Announced(Passed(Output), s_mmaps[i])
          /\ scanned # 0 => \A j \in 1..Len(Layouts[scanned]) :
                               Announced(Passed(Output), Layouts[scanned][j])

\* Whatever else the loop does leaves the mappings and, until it ends, what
\* has been passed on alone.
LEMMA OtherSteps ==
    ASSUME [Next]_vars, ~ProcessPacket
    PROVE  /\ UNCHANGED <<fd_out, s_mmaps, scanned>>
           /\ pc' # "done" => pc # "done" /\ UNCHANGED <<output_buffer, out>>
<1>1. CASE UNCHANGED vars
    BY <1>1 DEF vars
<1>2. CASE WriteToPipe
    BY <1>2 DEF WriteToPipe, outputVars
<1>3. CASE CloseWriter
    BY <1>3 DEF CloseWriter, outputVars
<1>4. CASE ChangeLayout
    BY <1>4 DEF ChangeLayout, outputVars
<1>5. CASE ReadHandshake
    BY <1>5 DEF ReadHandshake, Abort
<1>6. CASE NothingWritten
    BY <1>6 DEF NothingWritten, Abort
<1>7. CASE NoPostproc
    BY <1>7 DEF NoPostproc, Abort
<1>8. CASE LastPacket
    BY <1>8 DEF LastPacket, outputVars
<1>9. CASE MoveRemainder
    BY <1>9 DEF MoveRemainder, outputVars
<1>10. CASE ReadPipe
    BY <1>10 DEF ReadPipe, Finish
<1>11. CASE EndOfPipe
    BY <1>11 DEF EndOfPipe, Finish
<1>12. CASE Interrupt
    BY <1>12 DEF Interrupt, Abort, Finish
<1> QED BY <1>1, <1>2, <1>3, <1>4, <1>5, <1>6, <1>7, <1>8, <1>9, <1>10, <1>11, <1>12 DEF Next, ProcessData

LEMMA OtherMaps ==
    ASSUME MapsInv, [Next]_vars, ~ProcessPacket
    PROVE  MapsInv'
<1>1. /\ UNCHANGED <<fd_out, s_mmaps, scanned>>
      /\ pc' # "done" => pc # "done" /\ UNCHANGED <<output_buffer, out>>
    BY OtherSteps
<1>2. CASE pc' = "done"
    BY <1>1, <1>2 DEF MapsInv
<1>3. CASE pc' # "done"
    <2>1. Output' = Output
        BY <1>1, <1>3 DEF Output
    <2> QED BY <1>1, <1>3, <2>1 DEF MapsInv
<1> QED BY <1>2, <1>3

LEMMA ForwardMaps ==
    ASSUME MapsInv, TypeInv, NEW d \in Seq(Cell), InputInv(d), OutputInv(d), pc = "packets",
           NEW e \in Seq(Cell), NEW kind, NEW len, NextPacket(d, e, kind, len),
           kind # "OS", kind # "NL", Forward(len, TRUE)
    PROVE  MapsInv'
<1>0. UNCHANGED <<fd_out, s_mmaps, scanned, pc>>
    BY DEF Forward
<1> SUFFICES ASSUME fd_out = 1
             PROVE  \A map : Announced(Passed(Output), map) => Announced(Passed(Output)', map)
    BY <1>0 DEF MapsInv
<1>1. PICK w : w = WriteData(Output, e, fd_out, TRUE)
    OBVIOUS
<1>2. Output \in OutStates /\ output_buffer' = w.buf /\ out' = w.out
    BY <1>1 DEF TypeInv, Forward, SetOutput, NextPacket
<1>3. w \in OutStates /\ Passed(w) = Passed(Output) \o e
    BY <1>1, <1>2, Wrote
<1>4. Output' = w
    BY <1>2, <1>3, OutRecord DEF Output
<1>5. Passed(Output)' = Passed(Output) \o e
    BY <1>3, <1>4 DEF Passed
<1>6. Passed(Output) \in Seq(Cell) /\ \A j \in 1..Len(e) : e[j].kind # "MM"
    BY <1>2, PassedTyped DEF NextPacket
<1>7. ASSUME NEW map, Announced(Passed(Output), map) PROVE Announced(Passed(Output) \o e, map)
    BY <1>6, <1>7, StillAnnounced
<1> QED BY <1>5, <1>7

LEMMA NewLibraryMaps ==
    ASSUME InGroups, MapsInv, TypeInv, NEW d \in Seq(Cell), InputInv(d), OutputInv(d),
           pc = "packets", NEW e \in Seq(Cell), NEW kind, NEW len, NextPacket(d, e, kind, len),
           kind = "NL", NewLibrary(len, TRUE)
    PROVE  MapsInv'
<1>1. PICK s, passed : s = ScanMmapData(TRUE) /\ passed = Without(d, "NL")
    OBVIOUS
<1>2. /\ output_buffer' = s.w.buf /\ out' = s.w.out /\ s_mmaps' = s.maps
      /\ UNCHANGED <<fd_out, pc>> /\ fd_out # 0
      /\ scanned' = IF layout = 0 THEN scanned ELSE layout
    BY <1>1 DEF NewLibrary, SetOutput, NextPacket
<1>3. /\ Output \in OutStates /\ s_mmaps \in Seq(Mapping) /\ layout \in {0} \cup DOMAIN Layouts
      /\ fd_out \in {-1, 0, 1}
      /\ fd_out = 1 => Without(Passed(Output), "MM") = passed
    BY <1>1 DEF TypeInv, OutputInv
<1>4. scanned' \in {0} \cup DOMAIN Layouts
    BY <1>2, <1>3 DEF MapsInv
<1> SUFFICES ASSUME fd_out = 1
             PROVE  /\ Grouped(s_mmaps)'
                    /\ \A i \in 1..Len(s_mmaps') : Announced(Passed(Output)', s_mmaps'[i])
                    /\ scanned' # 0 => \A j \in 1..Len(Layouts[scanned']) :
                                          Announced(Passed(Output)', Layouts[scanned'][j])
    BY <1>2, <1>4 DEF MapsInv
<1>5. [maps |-> s_mmaps, w |-> Output] \in ScanStates(passed)
    BY <1>3 DEF ScanStates
<1>6. s \in ScanStates(passed)
    BY <1>1, <1>3, <1>5, Scanned
<1>7. s.w \in OutStates /\ Output' = s.w
    <2>1. s.w \in OutStates
        BY <1>6 DEF ScanStates
    <2> QED BY <1>2, <2>1, OutRecord DEF Output
<1>8. Passed(Output)' = Passed(s.w)
    BY <1>7 DEF Passed
<1>9. CASE layout = 0
    <2>1. PICK f : ScansTo(f, <<>>, passed)
        BY <1>3, <1>5, <1>9, ScanLoop DEF Found
    <2>2. s = [maps |-> s_mmaps, w |-> Output]
        BY <1>1, <2>1 DEF ScansTo
    <2>3. s_mmaps' = s_mmaps /\ Passed(Output)' = Passed(Output) /\ scanned' = scanned
        BY <1>2, <1>8, <1>9, <2>2
    <2>4. Grouped(s_mmaps)' <=> Grouped(s_mmaps)
        BY <2>3 DEF Grouped
    <2> QED BY <2>3, <2>4 DEF MapsInv
<1>10. CASE layout # 0
    <2>1. layout \in DOMAIN Layouts /\ scanned' = layout
        BY <1>2, <1>3, <1>10
    <2>2. ScanKept(s, Layouts[layout], Len(Layouts[layout]))
        BY <1>1, <1>5, <2>1, ScanAnnounces DEF MapsInv
    <2>3. Grouped(s_mmaps)'
        BY <1>2, <2>2 DEF ScanKept, Grouped
    <2> QED BY <1>2, <1>8, <2>1, <2>2, <2>3 DEF ScanKept
<1> QED BY <1>9, <1>10

LEMMA OutputSettingsMaps ==
    ASSUME MapsInv, NEW d \in Seq(Cell), NEW e \in Seq(Cell), NEW kind, NEW len,
           NextPacket(d, e, kind, len), kind = "OS", OutputSettings(len, TRUE)
    PROVE  MapsInv'
<1>1. s_mmaps' = <<>> /\ scanned' = 0
    BY DEF OutputSettings, NextPacket, MapsInv
<1>2. Grouped(<<>>)
    BY DEF Grouped
<1>3. Grouped(s_mmaps)'
    BY <1>1, <1>2 DEF Grouped
<1> QED BY <1>1, <1>3 DEF MapsInv

LEMMA PacketMaps ==
    ASSUME Reliable, InGroups, MapsInv, ListenerInv, ProcessPacket
    PROVE  MapsInv'
<1>0. PICK d \in Seq(Cell) : InputInv(d) /\ OutputInv(d)
    BY DEF ListenerInv
<1>1. TypeInv /\ pc = "packets" /\ n >= 1
    BY DEF ListenerInv, ProcessPacket
<1>2. PICK header \in Header(buffer[ptr_in]), works \in Works :
          /\ header[2] <= n
          /\ header[1] = "OS" => OutputSettings(header[2], works)
          /\ header[1] = "NL" => NewLibrary(header[2], works)
          /\ header[1] # "OS" /\ header[1] # "NL" => Forward(header[2], works)
    BY DEF ProcessPacket
<1>3. works = TRUE
    BY DEF Works, Reliable
<1>4. PICK kind, len : header = <<kind, len>>
    <2>1. header = <<Rest[1].kind, Size[Rest[1].kind]>>
        BY <1>0, <1>1, AtHeader
    <2> QED BY <2>1
<1>5. header[1] = kind /\ header[2] = len /\ <<kind, len>> \in Header(buffer[ptr_in]) /\ len <= n
    BY <1>2, <1>4
<1>6. PICK e \in Seq(Cell) : NextPacket(d, e, kind, len)
    BY <1>0, <1>1, <1>5, PacketIs
<1>7. CASE kind = "OS"
    BY <1>2, <1>3, <1>5, <1>6, <1>7, OutputSettingsMaps
<1>8. CASE kind = "NL"
    BY <1>0, <1>1, <1>2, <1>3, <1>5, <1>6, <1>8, NewLibraryMaps
<1>9. CASE kind # "OS" /\ kind # "NL"
    BY <1>0, <1>1, <1>2, <1>3, <1>5, <1>6, <1>9, ForwardMaps
<1> QED BY <1>7, <1>8, <1>9

LEMMA MapsInvImplies ==
    ASSUME InGroups, MapsInv, ListenerInv
    PROVE  MapsAnnounced
<1> SUFFICES ASSUME scanned # 0, fd_out = 1, pc # "done", NEW map \in ToSet(Layouts[scanned])
             PROVE  LET all == out \o output_buffer
                        last == SelectLastInSeq(all, LAMBDA c : /\ c.kind = "MM"
                                                                /\ Shares(c.map, map))
                    IN  last # 0 /\ all[last].map = map
    BY DEF MapsAnnounced
<1>1. scanned \in DOMAIN Layouts
    BY DEF MapsInv
<1>2. PICK j \in 1..Len(Layouts[scanned]) : map = Layouts[scanned][j]
    <2>1. DOMAIN Layouts[scanned] = 1..Len(Layouts[scanned])
        BY <1>1, SizeAssumption
    <2> QED BY <2>1 DEF ToSet
<1>3. map \in AllMaps
    BY <1>1, <1>2, MapTypes
<1>4. map.from < map.to
    BY <1>3 DEF InGroups
<1>5. PICK X : X = out \o output_buffer
    OBVIOUS
<1>6. X \in Seq(Cell) /\ X = Passed(Output)
    <2>1. Output \in OutStates
        BY DEF ListenerInv, TypeInv
    <2>2. X = Passed(Output)
        BY <1>5 DEF Passed, Output
    <2> QED BY <2>1, <2>2, PassedTyped
<1>7. Announced(X, map)
    BY <1>2, <1>6 DEF MapsInv
<1>8. LET last == SelectLastInSeq(X, LAMBDA c : c.kind = "MM" /\ Shares(c.map, map))
      IN  last # 0 /\ X[last].map = map
    BY <1>3, <1>4, <1>6, <1>7, LastIsIt
<1> QED BY <1>5, <1>8

\* After every scan, and until the next, whoever reads the log knows what the
\* scan found mapped where, however libraries are loaded and unloaded between
\* the scans: scan_mmap_data writes a packet for every mapping that is not in
\* its cache and takes the one it replaces out of it.  This is for mappings
\* that are not empty, do not overlap those of the same scan, and overlap or
\* touch those of all scans in groups: when a mapping overlaps or touches two
\* others that are apart, the wrong one may be taken out.
THEOREM MapsStayAnnounced ==
    ASSUME Reliable, InGroups
    PROVE  Spec => []MapsAnnounced
<1>1. Init => ListenerInv /\ MapsInv
    <2>1. Init => ListenerInv
        BY InitInv
    <2>2. Init => MapsInv
        BY DEF Init, MapsInv
    <2> QED BY <2>1, <2>2
<1>2. (ListenerInv /\ MapsInv) /\ [Next]_vars => (ListenerInv /\ MapsInv)'
    <2> SUFFICES ASSUME ListenerInv, MapsInv, [Next]_vars PROVE ListenerInv' /\ MapsInv'
        OBVIOUS
    <2>1. ListenerInv'
        BY NextStep
    <2>2. MapsInv'
        BY OtherMaps, PacketMaps
    <2> QED BY <2>1, <2>2
<1>3. ListenerInv /\ MapsInv => MapsAnnounced
    BY MapsInvImplies
<1> QED BY <1>1, <1>2, <1>3, PTL DEF Spec
=============================================================================
