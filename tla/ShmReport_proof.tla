-------------------------- MODULE ShmReport_proof --------------------------
(***************************************************************************)
(* Proofs about the two shared memory libraries: the leak report of the    *)
(* trace they write, in every interleaving of the wrappers of any number   *)
(* of threads and of the calls of other processes.                         *)
(***************************************************************************)
EXTENDS MCSharedMemory, Induction, FiniteSetTheorems, SequenceTheorems, TLAPS

(***************************************************************************)
(* The System V library.  What a thread has left to do is one of a few     *)
(* programs, told apart by what it does next and whether it reports the    *)
(* destruction of the segment in the end ("parting").                      *)
(***************************************************************************)
NoSeg == S!NoSeg

InsideKinds  == {"map", "attached", "find", "detach"}
DetachKinds  == {"find", "detach", "detached", "parting"}
PlaceKinds   == InsideKinds \cup DetachKinds
SegmentKinds == {"got", "stat", "control", "rmid", "gone"}

Prog(k, s, a) ==
    CASE k = "stat"    -> <<S!Step("stat", s, a), S!Step("control", s, a), S!Step("rmid", s, a)>>
      [] k = "control" -> <<S!Step("control", s, a), S!Step("rmid", s, a)>>
      [] k = "map"     -> <<S!Step("map", s, a), S!Step("attached", s, a)>>
      [] k = "find"    -> <<S!Step("find", s, a), S!Step("detach", s, a)>>
      [] k = "parting" -> <<S!Step("detached", s, a), S!Step("gone", s, NoSeg)>>
      [] OTHER         -> <<S!Step(k, s, a)>>

KindOf(p) ==
    IF p = <<>> THEN "idle"
    ELSE IF Head(p).do = "detached" /\ Tail(p) # <<>> THEN "parting" ELSE Head(p).do
SegOf(p)  == IF p = <<>> THEN NoSeg ELSE Head(p).seg
AtOf(p)   == IF p = <<>> THEN NoSeg ELSE Head(p).at

(* A program for segment s and address a.                                  *)
Fits(k, s, a) ==
    /\ k \in PlaceKinds \cup SegmentKinds /\ s \in Segments
    /\ k \in PlaceKinds => a \in Places
    /\ k \in SegmentKinds => a = NoSeg

WellFormed(p) == p # <<>> =>
    Fits(KindOf(p), SegOf(p), AtOf(p)) /\ p = Prog(KindOf(p), SegOf(p), AtOf(p))

(* What thread t does next, on which segment and at which address.         *)
Kind(t)  == KindOf(prog[t])
SegAt(t) == SegOf(prog[t])
Place(t) == AtOf(prog[t])

LEMMA IdleProg ==
    /\ KindOf(<<>>) = "idle" /\ SegOf(<<>>) = NoSeg /\ AtOf(<<>>) = NoSeg
    /\ WellFormed(<<>>)
  BY DEF KindOf, SegOf, AtOf, WellFormed

LEMMA ProgView ==
    ASSUME NEW k, NEW s, NEW a, Fits(k, s, a)
    PROVE  /\ Prog(k, s, a) # <<>>
           /\ KindOf(Prog(k, s, a)) = k /\ SegOf(Prog(k, s, a)) = s /\ AtOf(Prog(k, s, a)) = a
           /\ WellFormed(Prog(k, s, a))
  <1>1. /\ Prog(k, s, a) # <<>>
        /\ KindOf(Prog(k, s, a)) = k /\ SegOf(Prog(k, s, a)) = s /\ AtOf(Prog(k, s, a)) = a
    <2>1. CASE k = "stat"
      BY <2>1 DEF Prog, KindOf, SegOf, AtOf, S!Step
    <2>2. CASE k = "control"
      BY <2>2 DEF Prog, KindOf, SegOf, AtOf, S!Step
    <2>3. CASE k = "map"
      BY <2>3 DEF Prog, KindOf, SegOf, AtOf, S!Step
    <2>4. CASE k = "find"
      BY <2>4 DEF Prog, KindOf, SegOf, AtOf, S!Step
    <2>5. CASE k = "parting"
      BY <2>5 DEF Prog, KindOf, SegOf, AtOf, S!Step
    <2>6. CASE k \notin {"stat", "control", "map", "find", "parting"}
      <3>1. Prog(k, s, a) = <<S!Step(k, s, a)>>
        BY <2>6 DEF Prog
      <3> QED
        BY <2>6, <3>1 DEF KindOf, SegOf, AtOf, S!Step
    <2> QED
      BY <2>1, <2>2, <2>3, <2>4, <2>5, <2>6
  <1> QED
    BY <1>1, Zenon DEF WellFormed

(* What a thread's next step is, and what is left after it.                *)
LEMMA ProgHead ==
    ASSUME NEW p, p # <<>>, WellFormed(p),
           NEW k, k = KindOf(p), NEW s, s = SegOf(p), NEW a, a = AtOf(p)
    PROVE  /\ Fits(k, s, a)
           /\ Head(p) = S!Step(IF k = "parting" THEN "detached" ELSE k, s, a)
           /\ k = "stat"    => Tail(p) = Prog("control", s, a)
           /\ k = "control" => Tail(p) = Prog("rmid", s, a)
           /\ k = "map"     => Tail(p) = Prog("attached", s, a)
           /\ k = "find"    => Tail(p) = Prog("detach", s, a)
           /\ k = "parting" => Tail(p) = Prog("gone", s, NoSeg)
           /\ k \in {"got", "rmid", "attached", "detach", "detached", "gone"} => Tail(p) = <<>>
  <1>1. Fits(k, s, a) /\ p = Prog(k, s, a)
    BY DEF WellFormed
  <1>2. CASE k = "stat"
    BY <1>1, <1>2 DEF Prog
  <1>3. CASE k = "control"
    BY <1>1, <1>3 DEF Prog
  <1>4. CASE k = "map"
    BY <1>1, <1>4 DEF Prog
  <1>5. CASE k = "find"
    BY <1>1, <1>5 DEF Prog
  <1>6. CASE k = "parting"
    BY <1>1, <1>6 DEF Prog
  <1>7. CASE k \in {"got", "rmid", "attached", "detach", "detached", "gone"}
    <2>1. p = <<S!Step(k, s, a)>>
      BY <1>1, <1>7 DEF Prog
    <2> QED
      BY <2>1, <1>1, <1>7
  <1>8. k \in {"stat", "control", "map", "find", "parting", "got", "rmid", "attached", "detach",
               "detached", "gone"}
    BY <1>1 DEF Fits, PlaceKinds, InsideKinds, DetachKinds, SegmentKinds
  <1> QED
    BY <1>2, <1>3, <1>4, <1>5, <1>6, <1>7, <1>8

(* Every step of a program of thread t is about the segment and, if it is  *)
(* about an address, the address of the first one.                         *)
LEMMA ProgSteps ==
    ASSUME NEW p, p # <<>>, WellFormed(p)
    PROVE  /\ 1 \in DOMAIN p /\ p[1].seg = SegOf(p) /\ p[1].at = AtOf(p)
           /\ \A i \in DOMAIN p : p[i].seg = SegOf(p) /\ p[i].at \in {AtOf(p), NoSeg}
  <1> DEFINE k == KindOf(p)
             s == SegOf(p)
             a == AtOf(p)
  <1>1. Fits(k, s, a) /\ p = Prog(k, s, a)
    BY DEF WellFormed
  <1> HIDE DEF k, s, a
  <1>2. CASE k = "stat"
    BY <1>1, <1>2 DEF Prog, S!Step, s, a
  <1>3. CASE k = "control"
    BY <1>1, <1>3 DEF Prog, S!Step, s, a
  <1>4. CASE k = "map"
    BY <1>1, <1>4 DEF Prog, S!Step, s, a
  <1>5. CASE k = "find"
    BY <1>1, <1>5 DEF Prog, S!Step, s, a
  <1>6. CASE k = "parting"
    BY <1>1, <1>6 DEF Prog, S!Step, s, a
  <1>7. CASE k \in {"got", "rmid", "attached", "detach", "detached", "gone"}
    <2>1. p = <<S!Step(k, s, a)>>
      BY <1>1, <1>7 DEF Prog
    <2> QED
      BY <2>1, <1>1, <1>7 DEF S!Step, s, a
  <1>8. k \in {"stat", "control", "map", "find", "parting", "got", "rmid", "attached", "detach",
               "detached", "gone"}
    BY <1>1 DEF Fits, PlaceKinds, InsideKinds, DetachKinds, SegmentKinds
  <1> QED
    BY <1>2, <1>3, <1>4, <1>5, <1>6, <1>7, <1>8

(***************************************************************************)
(* Types, and an allocation is left in the report for what is indexed.     *)
(***************************************************************************)
SysVTypes ==
    /\ seg \in [Segments -> {"none", "own", "foreign", "gone"}]
    /\ dest \subseteq Segments
    /\ at \in [Places -> Segments \cup {NoSeg}]
    /\ outer \in [Segments -> Nat]
    /\ addr2shmid \in [Places -> Segments \cup {NoSeg}]
    /\ DOMAIN prog = Workers /\ \A t \in Workers : WellFormed(prog[t])
    /\ nattach \in [Workers -> Int]
    /\ gets \in [Segments -> Nat]
    /\ leaks \in [S!Keys -> [left : Nat, refs : Nat]]
    /\ \A k \in S!Keys : leaks[k].refs > 0 => leaks[k].left > 0

(***************************************************************************)
(* One wrapper at most attaches or holds an address, and one at most       *)
(* detaches it or has detached it and not reported so.                     *)
(***************************************************************************)
PlacesApart ==
    \A t, u \in Workers :
        /\ Kind(t) \in InsideKinds => at[Place(t)] = SegAt(t)
        /\ (t # u /\ Place(t) = Place(u)) =>
                /\ ~(Kind(t) \in InsideKinds /\ Kind(u) \in InsideKinds)
                /\ ~(Kind(t) \in DetachKinds /\ Kind(u) \in DetachKinds)

Attaching(a) == \E t \in Workers : Kind(t) \in {"map", "attached"} /\ Place(t) = a
Leaving(a)   == \E t \in Workers : Kind(t) \in {"detached", "parting"} /\ Place(t) = a
Holds(a)     == at[a] # NoSeg /\ ~Attaching(a)

(* A call is in the report for the attachment and for the pending report.  *)
PlaceCounted(a) ==
    /\ (Holds(a) \/ Leaving(a)) => leaks[<<"address", a>>].left >= 1
    /\ (Holds(a) /\ Leaving(a)) => leaks[<<"address", a>>].left >= 2

(* addr2shmid knows the own segment between shmat and shmdt.               *)
PlaceKnown(a) ==
    (/\ at[a] # NoSeg /\ seg[at[a]] = "own"
     /\ \A t \in Workers : Place(t) = a => Kind(t) \notin {"map", "detach"})
        => addr2shmid[a] = at[a]

PlaceInv(a) ==
    /\ at[a] # NoSeg => S!Exists(at[a])
    /\ PlaceCounted(a)
    /\ PlaceKnown(a)

Nattch(s)   == S!Attached(s, at, outer)
Refs(s)     == leaks[<<"segment", s>>].refs
Getting(s)  == \E t \in Workers : Kind(t) = "got" /\ SegAt(t) = s
GoneBy(s)   == \E t \in Workers : Kind(t) \in {"gone", "parting"} /\ SegAt(t) = s
Untouched(s) == (\A t \in Workers : SegAt(t) # s) /\ (\A a \in Places : at[a] # s)

(* The life of a segment: a marked one that exists is attached.            *)
SegLife(s) ==
    /\ s \in dest => seg[s] # "none" /\ (seg[s] # "gone" => Nattch(s) > 0)
    /\ seg[s] = "none" => gets[s] = 0 /\ Untouched(s) /\ s \notin untold
    /\ s \notin untold => seg[s] # "foreign"
    /\ S!Private(s) => gets[s] = 0
    /\ (seg[s] \in {"own", "gone"} /\ s \notin untold) => gets[s] >= 1
    /\ gets[s] = 0 => Refs(s) = 0 /\ ~Getting(s)
    /\ leaks[<<"segment", s>>].left = IF Refs(s) > 0 THEN 1 ELSE 0

(* The count that a thread acts upon is the count, as long as nobody has   *)
(* changed it or the mark.                                                 *)
Watch(t) ==
    SegAt(t) \notin overtaken =>
        /\ (Kind(t) \in {"control", "rmid"} /\ seg[SegAt(t)] = "own") =>
                nattach[t] = Nattch(SegAt(t))
        /\ Kind(t) = "detach" =>
                /\ nattach[t] # -1 => SegAt(t) \in dest /\ nattach[t] = Nattch(SegAt(t))
                /\ (seg[SegAt(t)] = "own" /\ SegAt(t) \in dest) => nattach[t] # -1

(* Nobody reports the end of a segment that exists and was reported.       *)
Alive(s) == (seg[s] = "own" /\ s \notin overtaken \cup untold) => ~GoneBy(s) /\ (Refs(s) > 0 \/ Getting(s))

(* A segment that was got once has one reference in the index, and the     *)
(* thread that got it is alone with it until it has reported it.           *)
GotOnce(s) ==
    (s \notin untold /\ gets[s] = 1) =>
        /\ Refs(s) <= 1
        /\ \A t \in Workers : (Kind(t) = "got" /\ SegAt(t) = s) =>
                /\ Refs(s) = 0 /\ seg[s] # "gone"
                /\ \A u \in Workers : u # t => SegAt(u) # s
                /\ \A a \in Places : at[a] # s

Destroyed(s) ==
    (s \notin overtaken \cup untold /\ seg[s] = "gone" /\ gets[s] = 1) =>
        Refs(s) = 0 \/ GoneBy(s)

SegReport(s) == Alive(s) /\ GotOnce(s) /\ Destroyed(s)

SysVInv ==
    /\ SysVTypes
    /\ PlacesApart
    /\ \A a \in Places : PlaceInv(a)
    /\ \A s \in Segments : SegLife(s) /\ SegReport(s)
    /\ \A t \in Workers : Watch(t)

(***************************************************************************)
(* What a step does to the programs.                                       *)
(***************************************************************************)
Moves(t, k, s, a) ==
    /\ DOMAIN prog' = Workers /\ \A u \in Workers : WellFormed(prog'[u])
    /\ \A u \in Workers : u # t => prog'[u] = prog[u]
    /\ KindOf(prog'[t]) = k /\ SegOf(prog'[t]) = s /\ AtOf(prog'[t]) = a

After(k) ==
    CASE k = "stat" -> "control" [] k = "control" -> "rmid" [] k = "map" -> "attached"
      [] k = "find" -> "detach" [] k = "parting" -> "gone" [] OTHER -> "idle"

LEMMA Moved ==
    ASSUME SysVTypes, NEW t \in Workers, NEW p, WellFormed(p),
           prog' = [prog EXCEPT ![t] = p]
    PROVE  Moves(t, KindOf(p), SegOf(p), AtOf(p))
  <1>1. DOMAIN prog' = Workers /\ prog'[t] = p /\ \A u \in Workers : u # t => prog'[u] = prog[u]
    BY DEF SysVTypes
  <1>2. \A u \in Workers : WellFormed(prog'[u])
    BY <1>1 DEF SysVTypes
  <1> QED
    BY <1>1, <1>2 DEF Moves

LEMMA BeginMoves ==
    ASSUME SysVTypes, NEW t \in Workers, NEW k, NEW s, NEW a, Fits(k, s, a),
           S!Begin(t, Prog(k, s, a))
    PROVE  /\ Moves(t, k, s, a)
           /\ Kind(t) = "idle" /\ SegAt(t) = NoSeg /\ Place(t) = NoSeg
           /\ UNCHANGED <<addr2shmid, nattach, leaks, untold>>
  <1>1. /\ prog[t] = <<>> /\ prog' = [prog EXCEPT ![t] = Prog(k, s, a)]
        /\ UNCHANGED <<addr2shmid, nattach, leaks, untold>>
    BY DEF S!Begin
  <1>2. Kind(t) = "idle" /\ SegAt(t) = NoSeg /\ Place(t) = NoSeg
    BY <1>1, IdleProg DEF Kind, SegAt, Place
  <1>3. /\ KindOf(Prog(k, s, a)) = k /\ SegOf(Prog(k, s, a)) = s /\ AtOf(Prog(k, s, a)) = a
        /\ WellFormed(Prog(k, s, a))
    BY ProgView
  <1>4. Moves(t, KindOf(Prog(k, s, a)), SegOf(Prog(k, s, a)), AtOf(Prog(k, s, a)))
    BY <1>1, <1>3, Moved
  <1> QED
    BY <1>1, <1>2, <1>3, <1>4

LEMMA AfterFits ==
    ASSUME NEW p, p # <<>>, WellFormed(p)
    PROVE  /\ <<>> \o Tail(p) = Tail(p)
           /\ WellFormed(Tail(p))
           /\ KindOf(Tail(p)) = After(KindOf(p))
           /\ SegOf(Tail(p)) = IF After(KindOf(p)) = "idle" THEN NoSeg ELSE SegOf(p)
           /\ AtOf(Tail(p)) = IF After(KindOf(p)) \in {"idle", "gone"} THEN NoSeg ELSE AtOf(p)
  <1> DEFINE k == KindOf(p)
             s == SegOf(p)
             a == AtOf(p)
             l == After(k)
             b == IF l = "gone" THEN NoSeg ELSE a
  <1>1. /\ Fits(k, s, a)
        /\ k = "stat"    => Tail(p) = Prog("control", s, a)
        /\ k = "control" => Tail(p) = Prog("rmid", s, a)
        /\ k = "map"     => Tail(p) = Prog("attached", s, a)
        /\ k = "find"    => Tail(p) = Prog("detach", s, a)
        /\ k = "parting" => Tail(p) = Prog("gone", s, NoSeg)
        /\ k \in {"got", "rmid", "attached", "detach", "detached", "gone"} => Tail(p) = <<>>
    BY ProgHead
  <1> HIDE DEF k, s, a
  <1>2. CASE l # "idle"
    <2>1. Tail(p) = Prog(l, s, b) /\ Fits(l, s, b)
      BY <1>1, <1>2 DEF After, Fits, PlaceKinds, InsideKinds, DetachKinds, SegmentKinds
    <2>2. /\ WellFormed(Tail(p)) /\ KindOf(Tail(p)) = l /\ SegOf(Tail(p)) = s /\ AtOf(Tail(p)) = b
      <3> HIDE DEF l, b
      <3>1. /\ KindOf(Prog(l, s, b)) = l /\ SegOf(Prog(l, s, b)) = s /\ AtOf(Prog(l, s, b)) = b
            /\ WellFormed(Prog(l, s, b))
        BY <2>1, ProgView
      <3> QED
        BY <2>1, <3>1
    <2>3. l \in {"control", "rmid", "attached", "detach", "gone"}
      BY <1>2 DEF After
    <2>4. <<>> \o Prog(l, s, b) = Prog(l, s, b)
      <3> HIDE DEF l, b
      <3>1. CASE l = "control"
        BY <3>1 DEF Prog
      <3>2. CASE l # "control"
        <4>1. Prog(l, s, b) = <<S!Step(l, s, b)>>
          BY <3>2, <2>3 DEF Prog
        <4> QED
          BY <4>1
      <3> QED
        BY <3>1, <3>2
    <2> QED
      BY <2>1, <2>2, <2>4, <1>2 DEF k, s, a
  <1>3. CASE l = "idle"
    <2>1. k \in {"got", "rmid", "attached", "detach", "detached", "gone"}
      BY <1>1, <1>3 DEF After, Fits, PlaceKinds, InsideKinds, DetachKinds, SegmentKinds
    <2>2. Tail(p) = <<>>
      BY <1>1, <2>1
    <2>3. <<>> \o <<>> = <<>>
      OBVIOUS
    <2>4. After(KindOf(p)) = "idle"
      BY <1>3 DEF k
    <2> QED
      BY <2>2, <2>3, <2>4, IdleProg
  <1> QED
    BY <1>2, <1>3

LEMMA ContinueMoves ==
    ASSUME SysVTypes, NEW t \in Workers, prog[t] # <<>>, S!Continue(t, <<>>)
    PROVE  LET l == After(Kind(t)) IN
           Moves(t, l, IF l = "idle" THEN NoSeg ELSE SegAt(t),
                       IF l \in {"idle", "gone"} THEN NoSeg ELSE Place(t))
  <1>1. WellFormed(prog[t])
    BY DEF SysVTypes
  <1>2. <<>> \o Tail(prog[t]) = Tail(prog[t]) /\ WellFormed(Tail(prog[t]))
    BY <1>1, AfterFits
  <1>3. prog' = [prog EXCEPT ![t] = Tail(prog[t])]
    BY <1>2 DEF S!Continue, SysVTypes
  <1>4. Moves(t, KindOf(Tail(prog[t])), SegOf(Tail(prog[t])), AtOf(Tail(prog[t])))
    BY <1>2, <1>3, Moved
  <1> QED
    BY <1>1, <1>4, AfterFits DEF Kind, SegAt, Place

LEMMA DoingKind ==
    ASSUME SysVTypes, NEW t \in Workers, NEW do, S!Doing(t, do)
    PROVE  /\ prog[t] # <<>> /\ Head(prog[t]).seg = SegAt(t) /\ Head(prog[t]).at = Place(t)
           /\ Fits(Kind(t), SegAt(t), Place(t))
           /\ do # "detached" => Kind(t) = do
           /\ do = "detached" => Kind(t) \in {"detached", "parting"}
  <1>1. prog[t] # <<>> /\ Head(prog[t]).do = do /\ WellFormed(prog[t])
    BY DEF SysVTypes, S!Doing
  <1>2. Fits(KindOf(prog[t]), SegOf(prog[t]), AtOf(prog[t]))
    BY <1>1 DEF WellFormed
  <1> QED
    BY <1>1, <1>2 DEF Kind, SegAt, Place, KindOf, SegOf, AtOf

(***************************************************************************)
(* What a written call does to the report.                                 *)
(***************************************************************************)
LEMMA LeaksWritten ==
    ASSUME SysVTypes, NEW type \in {"alloc", "free"}, NEW res, NEW id,
           <<res, id>> \in S!Keys, S!Tell(type, res, id),
           NEW e, e = leaks[<<res, id>>], NEW f, f = leaks'[<<res, id>>]
    PROVE  /\ leaks' \in [S!Keys -> [left : Nat, refs : Nat]]
           /\ \A k \in S!Keys : leaks'[k].refs > 0 => leaks'[k].left > 0
           /\ \A k \in S!Keys : k # <<res, id>> => leaks'[k] = leaks[k]
           /\ res # "segment" => IF type = "alloc" THEN f.left = e.left + 1
                                                   ELSE f.left >= e.left - 1
           /\ res = "segment" =>
                IF type = "alloc"
                THEN /\ f.refs = e.refs + 1
                     /\ f.left = IF e.refs > 0 THEN e.left ELSE e.left + 1
                ELSE /\ f.refs = IF e.refs = 0 THEN 0 ELSE e.refs - 1
                     /\ f.left = IF e.refs = 1 THEN e.left - 1 ELSE e.left
  <1> DEFINE c == [type |-> type, res |-> res, id |-> id]
             counted == res \in {"segment"}
             n == IF type = "alloc" THEN S!AllocCall(e, counted) ELSE S!FreeCall(e, counted)
  <1>1. e = [left |-> e.left, refs |-> e.refs] /\ e.left \in Nat /\ e.refs \in Nat
        /\ (e.refs > 0 => e.left > 0)
    BY DEF SysVTypes
  <1>2. leaks' = [leaks EXCEPT ![<<res, id>>] = n]
    BY DEF S!Tell, S!RemoveFreed, S!Resource
  <1>3. f = n
    BY <1>2 DEF SysVTypes
  <1>4. counted <=> res = "segment"
    OBVIOUS
  <1> HIDE DEF counted
  <1>5. CASE type = "alloc"
    <2>1. n = S!AllocCall(e, counted)
      BY <1>5
    <2>2. CASE counted /\ e.refs > 0
      <3>1. n = [left |-> e.left, refs |-> e.refs + 1]
        BY <2>1, <2>2, <1>1 DEF S!AllocCall
      <3> HIDE DEF n
      <3>2. n \in [left : Nat, refs : Nat] /\ n.left > 0
        BY <3>1, <1>1, <2>2
      <3>3. n.left = e.left /\ n.refs = e.refs + 1
        BY <3>1
      <3> QED
        BY <3>2, <3>3, <1>2, <1>3, <1>4, <1>5, <2>2 DEF SysVTypes
    <2>3. CASE ~(counted /\ e.refs > 0)
      <3>1. n = [left |-> e.left + 1, refs |-> 1]
        BY <2>1, <2>3, <1>1 DEF S!AllocCall
      <3> HIDE DEF n
      <3>2. n \in [left : Nat, refs : Nat] /\ n.left > 0
        BY <3>1, <1>1, <2>3
      <3>3. n.left = e.left + 1 /\ n.refs = 1
        BY <3>1
      <3> QED
        BY <3>2, <3>3, <1>1, <1>2, <1>3, <1>4, <1>5, <2>3 DEF SysVTypes
    <2> QED
      BY <2>2, <2>3
  <1>6. CASE type = "free"
    <2>1. n = S!FreeCall(e, counted)
      BY <1>6
    <2>2. CASE e.refs = 0
      <3>1. n = e
        BY <2>1, <2>2 DEF S!FreeCall
      <3> HIDE DEF n
      <3>2. leaks' = leaks
        BY <3>1, <1>2 DEF SysVTypes
      <3> QED
        BY <3>1, <3>2, <1>1, <1>3, <1>6, <2>2 DEF SysVTypes
    <2>3. CASE e.refs # 0 /\ (e.refs = 1 \/ ~counted)
      <3>1. n = [left |-> e.left - 1, refs |-> 0]
        BY <2>1, <2>3 DEF S!FreeCall
      <3> HIDE DEF n
      <3>2. n \in [left : Nat, refs : Nat] /\ n.left = e.left - 1 /\ n.refs = 0
        BY <3>1, <1>1, <2>3
      <3> QED
        BY <3>2, <1>1, <1>2, <1>3, <1>4, <1>6, <2>3 DEF SysVTypes
    <2>4. CASE e.refs # 0 /\ ~(e.refs = 1 \/ ~counted)
      <3>1. n = [left |-> e.left, refs |-> e.refs - 1]
        BY <2>1, <2>4, <1>1 DEF S!FreeCall
      <3> HIDE DEF n
      <3>2. n \in [left : Nat, refs : Nat] /\ n.left = e.left /\ n.refs = e.refs - 1 /\ n.left > 0
        BY <3>1, <1>1, <2>4
      <3> QED
        BY <3>2, <1>1, <1>2, <1>3, <1>4, <1>6, <2>4 DEF SysVTypes
    <2> QED
      BY <2>2, <2>3, <2>4
  <1> QED
    BY <1>5, <1>6

(***************************************************************************)
(* Attachment counts.                                                      *)
(***************************************************************************)
PlacesOf(s) == {a \in Places : at[a] = s}

LEMMA NattchType ==
    ASSUME SysVTypes, NEW s \in Segments
    PROVE  /\ Nattch(s) \in Nat
           /\ Nattch(s) = Cardinality(PlacesOf(s)) + outer[s]
           /\ IsFiniteSet(PlacesOf(s)) /\ Cardinality(PlacesOf(s)) \in Nat
           /\ \A a \in Places : at[a] = s => Nattch(s) >= 1
  <1>1. Nattch(s) = Cardinality(PlacesOf(s)) + outer[s]
    BY DEF Nattch, S!Attached, PlacesOf, S!Cardinality, Cardinality
  <1>2. PlacesOf(s) \subseteq Places
    BY DEF PlacesOf
  <1>3. IsFiniteSet(PlacesOf(s)) /\ Cardinality(PlacesOf(s)) \in Nat
    BY <1>2, FS_Subset, FS_CardinalityType, SysVAssumption
  <1>4. outer[s] \in Nat
    BY DEF SysVTypes
  <1>5. ASSUME NEW a \in Places, at[a] = s
        PROVE  Cardinality(PlacesOf(s)) # 0
    BY <1>5, <1>3, FS_EmptySet DEF PlacesOf
  <1> QED
    BY <1>1, <1>3, <1>4, <1>5

LEMMA NattchMoves ==
    ASSUME SysVTypes, SysVTypes', NEW a \in Places, NEW x, at' = [at EXCEPT ![a] = x],
           outer' = outer, NEW s \in Segments
    PROVE  /\ (x = s /\ at[a] # s) => Nattch(s)' = Nattch(s) + 1
           /\ (x # s /\ at[a] = s) => Nattch(s)' = Nattch(s) - 1
           /\ (x = s <=> at[a] = s) => Nattch(s)' = Nattch(s)
  <1>1. /\ Nattch(s) = Cardinality(PlacesOf(s)) + outer[s] /\ IsFiniteSet(PlacesOf(s))
        /\ Cardinality(PlacesOf(s)) \in Nat
    BY NattchType
  <1>2. Nattch(s)' = Cardinality(PlacesOf(s)') + outer[s]
    BY DEF Nattch, S!Attached, PlacesOf, S!Cardinality, Cardinality
  <1>3. at'[a] = x /\ \A b \in Places : b # a => at'[b] = at[b]
    BY DEF SysVTypes
  <1>4. outer[s] \in Nat
    BY DEF SysVTypes
  <1>5. CASE x = s /\ at[a] # s
    <2>1. PlacesOf(s)' = PlacesOf(s) \cup {a} /\ a \notin PlacesOf(s)
      BY <1>3, <1>5 DEF PlacesOf
    <2>2. Cardinality(PlacesOf(s)') = Cardinality(PlacesOf(s)) + 1
      BY <2>1, <1>1, FS_AddElement
    <2> QED
      BY <2>2, <1>1, <1>2, <1>4, <1>5
  <1>6. CASE x # s /\ at[a] = s
    <2>1. PlacesOf(s)' = PlacesOf(s) \ {a} /\ a \in PlacesOf(s)
      BY <1>3, <1>6 DEF PlacesOf
    <2>2. Cardinality(PlacesOf(s)') = Cardinality(PlacesOf(s)) - 1
      BY <2>1, <1>1, FS_RemoveElement
    <2> QED
      BY <2>2, <1>1, <1>2, <1>4, <1>6
  <1>7. CASE x = s <=> at[a] = s
    <2>1. PlacesOf(s)' = PlacesOf(s)
      BY <1>3, <1>7 DEF PlacesOf
    <2> QED
      BY <2>1, <1>1, <1>2, <1>7
  <1> QED
    BY <1>5, <1>6, <1>7

(***************************************************************************)
(* Every step keeps the invariant.                                         *)
(***************************************************************************)
LEMMA SysVInitial == S!Init => SysVInv
  <1> SUFFICES ASSUME S!Init PROVE SysVInv
    OBVIOUS
  <1>1. \A t \in Workers : prog[t] = <<>> /\ Kind(t) = "idle" /\ SegAt(t) = NoSeg /\ Place(t) = NoSeg
    BY IdleProg DEF S!Init, Kind, SegAt, Place
  <1>2. \A k \in S!Keys : leaks[k].left = 0 /\ leaks[k].refs = 0
    BY DEF S!Init, S!NoCalls
  <1>3. SysVTypes
    <2>1. leaks \in [S!Keys -> [left : Nat, refs : Nat]]
      BY DEF S!Init, S!NoCalls
    <2>2. seg \in [Segments -> {"none", "own", "foreign", "gone"}]
      BY DEF S!Init
    <2> QED
      BY <1>1, <1>2, <2>1, <2>2, IdleProg DEF S!Init, SysVTypes, NoSeg
  <1>4. \A a \in Places : at[a] = NoSeg
    BY DEF S!Init, NoSeg
  <1>5. NoSeg \notin Segments
    BY SysVAssumption DEF NoSeg
  <1>6. PlacesApart
    BY <1>1 DEF PlacesApart, InsideKinds, DetachKinds
  <1>7. ASSUME NEW a \in Places
        PROVE  PlaceInv(a)
    BY <1>1, <1>4 DEF PlaceInv, PlaceCounted, PlaceKnown, Holds, Leaving
  <1>8. ASSUME NEW s \in Segments
        PROVE  SegLife(s) /\ SegReport(s)
    <2>1. <<"segment", s>> \in S!Keys
      BY DEF S!Keys
    <2>2. Refs(s) = 0 /\ leaks[<<"segment", s>>].left = 0 /\ gets[s] = 0 /\ s \notin dest
          /\ seg[s] \in {"none", "foreign"} /\ (s \in untold <=> seg[s] = "foreign")
      BY <1>2, <2>1 DEF Refs, S!Init
    <2> QED
      BY <1>1, <1>4, <1>5, <2>2 DEF SegLife, S!Private, SegReport, Alive, GotOnce, Destroyed, Untouched, Getting
  <1>9. ASSUME NEW t \in Workers
        PROVE  Watch(t)
    BY <1>1 DEF Watch
  <1> QED
    BY <1>3, <1>6, <1>7, <1>8, <1>9 DEF SysVInv

LEMMA ShmgetKeeps ==
    ASSUME SysVInv, NEW t \in Workers, NEW s \in Segments, S!Shmget(t, s)
    PROVE  SysVInv'
  <1>1. Fits("got", s, NoSeg) /\ S!Begin(t, Prog("got", s, NoSeg))
    BY DEF S!Shmget, Prog, Fits, NoSeg, PlaceKinds, SegmentKinds, InsideKinds, DetachKinds
  <1>2. /\ Moves(t, "got", s, NoSeg)
        /\ Kind(t) = "idle" /\ SegAt(t) = NoSeg /\ Place(t) = NoSeg
        /\ UNCHANGED <<addr2shmid, nattach, leaks, untold>>
    BY <1>1, BeginMoves DEF SysVInv
  <1>3. /\ seg[s] # "gone" /\ s \notin dest /\ ~S!Private(s)
        /\ seg' = [seg EXCEPT ![s] = IF seg[s] = "none" THEN "own" ELSE seg[s]]
        /\ gets' = [gets EXCEPT ![s] = gets[s] + 1]
        /\ UNCHANGED <<dest, at, outer, overtaken>>
    BY DEF S!Shmget, SysVInv, SysVTypes
  <1>4. NoSeg \notin Segments
    BY SysVAssumption DEF NoSeg
  <1>5. SysVTypes'
    BY <1>2, <1>3 DEF SysVInv, SysVTypes, Moves
  <1>6. PlacesApart'
    BY <1>2, <1>3 DEF SysVInv, PlacesApart, Moves, Kind, SegAt, Place, InsideKinds, DetachKinds
  <1>7. ASSUME NEW a \in Places
        PROVE  PlaceInv(a)'
    <2>1. PlaceInv(a)
      BY DEF SysVInv
    <2>2. at[a] # NoSeg => at[a] \in Segments /\ seg'[at[a]] = seg[at[a]]
      BY <2>1, <1>3 DEF PlaceInv, S!Exists, SysVInv, SysVTypes
    <2> QED
      BY <1>2, <1>3, <2>1, <2>2
      DEF PlaceInv, PlaceCounted, PlaceKnown, Holds, Leaving, Attaching, S!Exists, Moves, Kind,
          SegAt, Place
  <1>8. ASSUME NEW r \in Segments
        PROVE  SegLife(r)' /\ SegReport(r)'
    <2>1. /\ SegLife(r) /\ SegReport(r) /\ Nattch(r)' = Nattch(r) /\ Refs(r)' = Refs(r)
          /\ Refs(r) \in Nat /\ leaks' = leaks /\ gets[r] \in Nat
      <3>1. <<"segment", r>> \in S!Keys
        BY DEF S!Keys
      <3> QED
        BY <3>1, <1>2, <1>3 DEF SysVInv, SysVTypes, Nattch, Refs
    <2>2. CASE r # s
      BY <2>1, <2>2, <1>2, <1>3, <1>4
      DEF SegLife, S!Private, SegReport, Alive, GotOnce, Destroyed, Untouched, Getting, GoneBy, Moves, Kind, SegAt, SysVInv, SysVTypes
    <2>3. CASE r = s
      <3>1. /\ seg'[r] = IF seg[r] = "none" THEN "own" ELSE seg[r]
            /\ gets'[r] = gets[r] + 1 /\ r \notin dest
        BY <2>3, <1>3 DEF SysVInv, SysVTypes
      <3>2. Getting(r)'
        BY <2>3, <1>2 DEF Getting, Moves, Kind, SegAt
      <3>3. SegLife(r)'
        BY <2>1, <3>1, <3>2, <1>2, <1>3 DEF SegLife, S!Private
      <3>4. GoneBy(r)' <=> GoneBy(r)
        BY <2>3, <1>2 DEF GoneBy, Moves, Kind, SegAt
      <3>5. ASSUME r \notin untold, gets'[r] = 1
            PROVE  seg[r] = "none" /\ Refs(r) = 0 /\ Untouched(r)
        BY <2>1, <3>1, <3>5, <1>3 DEF SegLife, S!Private, SysVInv, SysVTypes
      <3>6. Alive(r)'
        BY <2>1, <3>1, <3>2, <3>4, <1>2, <1>3, <2>3
        DEF SegReport, Alive, SegLife, S!Private, Untouched, GoneBy
      <3>7. GotOnce(r)'
        BY <2>1, <2>3, <3>1, <3>5, <1>2, <1>3 DEF GotOnce, Moves, Kind, SegAt, Untouched
      <3>8. Destroyed(r)'
        BY <2>3, <3>1, <1>3 DEF Destroyed
      <3> QED
        BY <3>3, <3>6, <3>7, <3>8 DEF SegReport
    <2> QED
      BY <2>2, <2>3
  <1>9. ASSUME NEW u \in Workers
        PROVE  Watch(u)'
    <2>1. Watch(u) /\ \A r \in Segments : seg'[r] = "own" => seg[r] = "own" \/ (r = s /\ Untouched(s))
      BY <1>3 DEF SysVInv, SysVTypes, SegLife, S!Private
    <2>2. u # t => Fits(Kind(u), SegAt(u), Place(u)) \/ Kind(u) = "idle"
      BY DEF SysVInv, SysVTypes, WellFormed, Kind, SegAt, Place, KindOf
    <2> QED
      BY <1>2, <1>3, <2>1, <2>2 DEF Watch, Moves, Kind, SegAt, Nattch, Untouched, Fits
  <1> QED
    BY <1>5, <1>6, <1>7, <1>8, <1>9 DEF SysVInv

LEMMA ShmgetPrivateKeeps ==
    ASSUME SysVInv, NEW t \in Workers, NEW s \in Segments, S!ShmgetPrivate(t, s)
    PROVE  SysVInv'
  <1>1. /\ seg[s] = "none" /\ seg' = [seg EXCEPT ![s] = "own"] /\ untold' = untold \cup {s}
        /\ UNCHANGED <<dest, at, outer, addr2shmid, prog, nattach, leaks, gets, overtaken>>
    BY DEF S!ShmgetPrivate
  <1>2. /\ \A u \in Workers : Kind(u)' = Kind(u) /\ SegAt(u)' = SegAt(u) /\ Place(u)' = Place(u)
        /\ \A r \in Segments : Nattch(r)' = Nattch(r) /\ Refs(r)' = Refs(r)
    BY <1>1 DEF Kind, SegAt, Place, Nattch, Refs
  <1>3. SegLife(s) /\ Untouched(s) /\ s \notin dest /\ s \notin untold /\ gets[s] = 0
    BY <1>1 DEF SysVInv, SegLife, S!Private
  <1>4. /\ seg \in [Segments -> {"none", "own", "foreign", "gone"}]
        /\ seg'[s] = "own" /\ \A r \in Segments : r # s => seg'[r] = seg[r]
    BY <1>1 DEF SysVInv, SysVTypes
  <1>5. SysVTypes'
    BY <1>1 DEF SysVInv, SysVTypes
  <1>6. PlacesApart'
    BY <1>1, <1>2 DEF SysVInv, PlacesApart
  <1>7. ASSUME NEW a \in Places
        PROVE  PlaceInv(a)'
    <2>1. PlaceInv(a) /\ at[a] # s
      BY <1>3 DEF SysVInv, Untouched
    <2>2. at[a] # NoSeg => at[a] \in Segments /\ seg'[at[a]] = seg[at[a]]
      BY <2>1, <1>4 DEF PlaceInv, S!Exists, SysVInv, SysVTypes
    <2> QED
      BY <1>1, <1>2, <2>1, <2>2
      DEF PlaceInv, PlaceCounted, PlaceKnown, Holds, Leaving, Attaching, S!Exists
  <1>8. ASSUME NEW r \in Segments
        PROVE  SegLife(r)' /\ SegReport(r)'
    <2>1. SegLife(r) /\ SegReport(r)
      BY DEF SysVInv
    <2>2. Getting(r)' = Getting(r) /\ GoneBy(r)' = GoneBy(r) /\ Untouched(r)' = Untouched(r)
      BY <1>1, <1>2 DEF Getting, GoneBy, Untouched
    <2>3. CASE r # s
      BY <2>1, <2>2, <2>3, <1>1, <1>2, <1>4
      DEF SegLife, SegReport, Alive, GotOnce, Destroyed, S!Private
    <2>4. CASE r = s
      BY <2>1, <2>2, <2>4, <1>1, <1>2, <1>3, <1>4
      DEF SegLife, SegReport, Alive, GotOnce, Destroyed, S!Private
    <2> QED
      BY <2>3, <2>4
  <1>9. ASSUME NEW u \in Workers
        PROVE  Watch(u)'
    <2>1. Watch(u) /\ SegAt(u) # s
      BY <1>3 DEF SysVInv, Untouched
    <2>2. Kind(u) \in {"control", "rmid", "detach"} => SegAt(u) \in Segments
      <3>1. WellFormed(prog[u])
        BY DEF SysVInv, SysVTypes
      <3> QED
        BY <3>1 DEF WellFormed, Kind, SegAt, KindOf, Fits
    <2> QED
      BY <1>1, <1>2, <1>4, <2>1, <2>2 DEF Watch
  <1> QED
    BY <1>5, <1>6, <1>7, <1>8, <1>9 DEF SysVInv

LEMMA UsableFacts ==
    ASSUME SysVTypes, NEW s \in Segments, S!Usable(s)
    PROVE  S!Exists(s) /\ ~Getting(s)
  <1>1. ASSUME NEW t \in Workers, Kind(t) = "got", SegAt(t) = s
        PROVE  FALSE
    <2>1. WellFormed(prog[t]) /\ prog[t] # <<>>
      BY <1>1 DEF SysVTypes, Kind, KindOf
    <2>2. Head(prog[t]) = S!Step("got", s, Place(t)) /\ Place(t) = NoSeg
      BY <2>1, <1>1, ProgHead DEF Kind, SegAt, Place, Fits, SegmentKinds
    <2> QED
      BY <2>1, <2>2 DEF S!Usable, NoSeg
  <1> QED
    BY <1>1 DEF Getting, S!Usable

LEMMA OvertakeFacts ==
    ASSUME SysVTypes, NEW t, NEW s \in Segments, S!Overtake(t, s)
    PROVE  /\ overtaken \subseteq overtaken' /\ overtaken' \subseteq overtaken \cup {s}
           /\ \A u \in Workers : (u # t /\ Kind(u) \in {"control", "rmid", "detach"}
                                    /\ SegAt(u) = s) => s \in overtaken'
  <1>1. ASSUME NEW u \in Workers, Kind(u) \in {"control", "rmid", "detach"}, SegAt(u) = s
        PROVE  S!Watching(u) = s
    BY <1>1 DEF S!Watching, Kind, SegAt, KindOf, SegOf
  <1> QED
    BY <1>1 DEF S!Overtake

(* Who does nothing has no segment and no address.                         *)
LEMMA BusyFits ==
    ASSUME SysVTypes, NEW u \in Workers
    PROVE  \/ Kind(u) = "idle" /\ SegAt(u) = NoSeg /\ Place(u) = NoSeg
           \/ Fits(Kind(u), SegAt(u), Place(u)) /\ Kind(u) # "idle"
  <1>1. CASE prog[u] = <<>>
    BY <1>1, IdleProg DEF Kind, SegAt, Place
  <1>2. CASE prog[u] # <<>>
    BY <1>2 DEF SysVTypes, WellFormed, Kind, SegAt, Place, Fits, PlaceKinds, SegmentKinds,
                InsideKinds, DetachKinds
  <1> QED
    BY <1>1, <1>2

LEMMA SegmentFacts ==
    ASSUME SysVInv, NEW r \in Segments
    PROVE  /\ SegLife(r) /\ SegReport(r) /\ Refs(r) \in Nat /\ gets[r] \in Nat
           /\ <<"segment", r>> \in S!Keys /\ Nattch(r) \in Nat
           /\ r # NoSeg
           /\ \A a \in Places : at[a] = r => Nattch(r) >= 1 /\ S!Exists(r)
  <1>1. <<"segment", r>> \in S!Keys
    BY DEF S!Keys
  <1> QED
    BY <1>1, NattchType, SysVAssumption DEF SysVInv, SysVTypes, Refs, NoSeg, PlaceInv

LEMMA ShmctlKeeps ==
    ASSUME SysVInv, NEW t \in Workers, NEW s \in Segments, S!ShmctlRmid(t, s)
    PROVE  SysVInv'
  <1>1. Fits("stat", s, NoSeg) /\ S!Begin(t, Prog("stat", s, NoSeg))
    BY DEF S!ShmctlRmid, Prog, Fits, NoSeg, PlaceKinds, SegmentKinds, InsideKinds, DetachKinds
  <1>2. /\ Moves(t, "stat", s, NoSeg)
        /\ Kind(t) = "idle" /\ SegAt(t) = NoSeg /\ Place(t) = NoSeg
        /\ UNCHANGED <<addr2shmid, nattach, leaks, untold>>
    BY <1>1, BeginMoves DEF SysVInv
  <1>3. UNCHANGED <<seg, dest, at, outer, gets, overtaken>> /\ S!Exists(s) /\ ~Getting(s)
    BY UsableFacts DEF S!ShmctlRmid, SysVInv
  <1>5. SysVTypes'
    BY <1>2, <1>3 DEF SysVInv, SysVTypes, Moves
  <1>6. PlacesApart'
    BY <1>2, <1>3 DEF SysVInv, PlacesApart, Moves, Kind, SegAt, Place, InsideKinds, DetachKinds
  <1>7. ASSUME NEW a \in Places
        PROVE  PlaceInv(a)'
    <2>1. PlaceInv(a)
      BY DEF SysVInv
    <2> QED
      BY <1>2, <1>3, <2>1
      DEF PlaceInv, PlaceCounted, PlaceKnown, Holds, Leaving, Attaching, S!Exists, Moves, Kind,
          SegAt, Place
  <1>8. ASSUME NEW r \in Segments
        PROVE  SegLife(r)' /\ SegReport(r)'
    <2>1. /\ SegLife(r) /\ SegReport(r) /\ r # NoSeg
          /\ Nattch(r)' = Nattch(r) /\ Refs(r)' = Refs(r)
      BY <1>2, <1>3, SegmentFacts DEF Nattch, Refs
    <2>2. (Getting(r)' <=> Getting(r)) /\ (GoneBy(r)' <=> GoneBy(r))
      BY <1>2 DEF Getting, GoneBy, Moves, Kind, SegAt
    <2>3. Untouched(r) /\ seg[r] = "none" => Untouched(r)'
      BY <1>2, <1>3 DEF Untouched, Moves, SegAt, S!Exists
    <2>4. SegLife(r)'
      BY <2>1, <2>2, <2>3, <1>2, <1>3 DEF SegLife, S!Private
    <2>5. GotOnce(r)'
      BY <2>1, <1>2, <1>3 DEF SegReport, GotOnce, Getting, Moves, Kind, SegAt
    <2> QED
      BY <2>1, <2>2, <2>4, <2>5, <1>2, <1>3 DEF SegReport, Alive, Destroyed
  <1>9. ASSUME NEW u \in Workers
        PROVE  Watch(u)'
    <2>1. Watch(u)
      BY DEF SysVInv
    <2> QED
      BY <1>2, <1>3, <2>1 DEF Watch, Moves, Kind, SegAt, Nattch
  <1> QED
    BY <1>5, <1>6, <1>7, <1>8, <1>9 DEF SysVInv

LEMMA ShmatKeeps ==
    ASSUME SysVInv, NEW t \in Workers, NEW s \in Segments, NEW a \in Places, S!Shmat(t, s, a)
    PROVE  SysVInv'
  <1>1. Fits("map", s, a) /\ S!Begin(t, Prog("map", s, a))
    BY DEF S!Shmat, Prog, Fits, PlaceKinds, SegmentKinds, InsideKinds, DetachKinds
  <1>2. /\ Moves(t, "map", s, a)
        /\ Kind(t) = "idle" /\ SegAt(t) = NoSeg /\ Place(t) = NoSeg
        /\ UNCHANGED <<addr2shmid, nattach, leaks, untold>>
    BY <1>1, BeginMoves DEF SysVInv
  <1>3. /\ UNCHANGED <<seg, dest, outer, gets>> /\ S!Exists(s) /\ ~Getting(s)
        /\ at[a] = NoSeg /\ at' = [at EXCEPT ![a] = s]
    BY UsableFacts DEF S!Shmat, SysVInv, NoSeg
  <1>4. /\ overtaken \subseteq overtaken' /\ overtaken' \subseteq overtaken \cup {s}
        /\ \A u \in Workers : (u # t /\ Kind(u) \in {"control", "rmid", "detach"}
                                 /\ SegAt(u) = s) => s \in overtaken'
    BY OvertakeFacts DEF S!Shmat, SysVInv
  <1>5. SysVTypes'
    BY <1>2, <1>3 DEF SysVInv, SysVTypes, Moves
  <1>6. at'[a] = s /\ s # NoSeg /\ \A b \in Places : b # a => at'[b] = at[b]
    BY <1>3, SegmentFacts DEF SysVInv, SysVTypes
  <1>7. \A u \in Workers : Kind(u) \in InsideKinds => Place(u) # a /\ Place(u) \in Places
    <2>1. ASSUME NEW u \in Workers, Kind(u) \in InsideKinds
          PROVE  Place(u) # a /\ Place(u) \in Places
      BY <2>1, <1>3, BusyFits, SegmentFacts
      DEF SysVInv, PlacesApart, Fits, PlaceKinds, InsideKinds
    <2> QED
      BY <2>1
  <1>8. PlacesApart'
    BY <1>2, <1>6, <1>7 DEF SysVInv, PlacesApart, Moves, Kind, SegAt, Place, InsideKinds, DetachKinds
  <1>9. ASSUME NEW b \in Places
        PROVE  PlaceInv(b)'
    <2>1. PlaceInv(b)
      BY DEF SysVInv
    <2>2. CASE b # a
      BY <1>2, <1>3, <1>6, <2>1, <2>2
      DEF PlaceInv, PlaceCounted, PlaceKnown, Holds, Leaving, Attaching, S!Exists, Moves, Kind,
          SegAt, Place
    <2>3. CASE b = a
      <3>1. Attaching(b)' /\ (Leaving(b)' <=> Leaving(b))
        BY <2>3, <1>2 DEF Attaching, Leaving, Moves, Kind, Place
      <3>2. PlaceCounted(b)'
        BY <2>1, <3>1, <1>2 DEF PlaceInv, PlaceCounted, Holds
      <3>3. PlaceKnown(b)'
        BY <2>3, <1>2 DEF PlaceKnown, Moves, Kind, Place
      <3> QED
        BY <2>3, <3>2, <3>3, <1>3, <1>6 DEF PlaceInv, S!Exists
    <2> QED
      BY <2>2, <2>3
  <1>10. ASSUME NEW r \in Segments
         PROVE  SegLife(r)' /\ SegReport(r)'
    <2>1. /\ SegLife(r) /\ SegReport(r) /\ r # NoSeg /\ Refs(r)' = Refs(r) /\ Nattch(r) \in Nat
      BY <1>2, <1>3, SegmentFacts DEF Refs
    <2>2. Nattch(r)' = IF r = s THEN Nattch(r) + 1 ELSE Nattch(r)
      BY <1>3, <1>5, <1>6, <2>1, NattchMoves DEF SysVInv
    <2>3. (Getting(r)' <=> Getting(r)) /\ (GoneBy(r)' <=> GoneBy(r))
      BY <1>2 DEF Getting, GoneBy, Moves, Kind, SegAt
    <2>4. Untouched(r) /\ seg[r] = "none" => Untouched(r)'
      BY <1>2, <1>3, <1>6 DEF Untouched, Moves, SegAt, S!Exists
    <2>5. SegLife(r)'
      BY <2>1, <2>2, <2>3, <2>4, <1>2, <1>3 DEF SegLife, S!Private
    <2>6. GotOnce(r)'
      BY <2>1, <1>2, <1>3, <1>6 DEF SegReport, GotOnce, Getting, Moves, Kind, SegAt
    <2> QED
      BY <2>1, <2>3, <2>5, <2>6, <1>2, <1>3, <1>4 DEF SegReport, Alive, Destroyed
  <1>11. ASSUME NEW u \in Workers
         PROVE  Watch(u)'
    <2>1. Watch(u)
      BY DEF SysVInv
    <2>2. CASE u = t \/ Kind(u) \notin {"control", "rmid", "detach"}
      BY <1>2, <2>2 DEF Watch, Moves, Kind
    <2>3. CASE u # t /\ Kind(u) \in {"control", "rmid", "detach"} /\ SegAt(u) # s
      <3>1. SegAt(u) \in Segments
        BY <2>3, BusyFits DEF SysVInv, Fits
      <3>2. ASSUME NEW r \in Segments, r # s
            PROVE  S!Attached(r, at', outer') = S!Attached(r, at, outer)
        <4>1. Nattch(r)' = Nattch(r)
          BY <3>2, <1>3, <1>5, <1>6, NattchMoves, SegmentFacts DEF SysVInv
        <4> QED
          BY <4>1 DEF Nattch
      <3>3. S!Attached(SegAt(u), at', outer') = S!Attached(SegAt(u), at, outer)
        BY <3>1, <3>2, <2>3
      <3> QED
        BY <1>2, <1>3, <1>4, <2>1, <2>3, <3>3 DEF Watch, Moves, Kind, SegAt, Nattch
    <2>4. CASE u # t /\ Kind(u) \in {"control", "rmid", "detach"} /\ SegAt(u) = s
      BY <1>2, <1>4, <2>4 DEF Watch, Moves, Kind, SegAt
    <2> QED
      BY <2>2, <2>3, <2>4
  <1> QED
    BY <1>5, <1>8, <1>9, <1>10, <1>11 DEF SysVInv
LEMMA PlaceBusy ==
    ASSUME SysVTypes, NEW a \in Places
    PROVE  S!Busy(a) <=> \E t \in Workers : Place(t) = a
  <1>1. a # NoSeg
    BY SysVAssumption DEF NoSeg
  <1>2. ASSUME NEW t \in Workers, Place(t) = a
        PROVE  \E i \in DOMAIN prog[t] : prog[t][i].at = a
    <2>1. prog[t] # <<>> /\ WellFormed(prog[t])
      BY <1>1, <1>2, IdleProg DEF Place, SysVTypes
    <2> QED
      BY <1>2, <2>1, ProgSteps DEF Place
  <1>3. ASSUME NEW t \in Workers, NEW i \in DOMAIN prog[t], prog[t][i].at = a
        PROVE  Place(t) = a
    <2>1. prog[t] # <<>> /\ WellFormed(prog[t])
      BY <1>3 DEF SysVTypes
    <2> QED
      BY <1>1, <1>3, <2>1, ProgSteps DEF Place
  <1> QED
    BY <1>2, <1>3 DEF S!Busy

LEMMA SegmentSettled ==
    ASSUME SysVTypes, NEW s \in Segments
    PROVE  S!Settled(s) <=> \A t \in Workers : SegAt(t) # s
  <1>1. s # NoSeg
    BY SysVAssumption DEF NoSeg
  <1>2. ASSUME NEW t \in Workers, SegAt(t) = s
        PROVE  \E i \in DOMAIN prog[t] : prog[t][i].seg = s
    <2>1. prog[t] # <<>> /\ WellFormed(prog[t])
      BY <1>1, <1>2, IdleProg DEF SegAt, SysVTypes
    <2> QED
      BY <1>2, <2>1, ProgSteps DEF SegAt
  <1>3. ASSUME NEW t \in Workers, NEW i \in DOMAIN prog[t], prog[t][i].seg = s
        PROVE  SegAt(t) = s
    <2>1. prog[t] # <<>> /\ WellFormed(prog[t])
      BY <1>3 DEF SysVTypes
    <2> QED
      BY <1>1, <1>3, <2>1, ProgSteps DEF SegAt
  <1> QED
    BY <1>2, <1>3 DEF S!Settled

LEMMA ShmdtKeeps ==
    ASSUME SysVInv, NEW t \in Workers, NEW a \in Places, S!Shmdt(t, a)
    PROVE  SysVInv'
  <1> DEFINE s == at[a]
  <1>0. s \in Segments /\ s # NoSeg /\ PlaceInv(a)
    BY DEF S!Shmdt, SysVInv, SysVTypes, NoSeg
  <1>1. Fits("find", s, a) /\ S!Begin(t, Prog("find", s, a))
    BY <1>0 DEF S!Shmdt, Prog, Fits, PlaceKinds, SegmentKinds, InsideKinds, DetachKinds
  <1> HIDE DEF s
  <1>2. /\ Moves(t, "find", s, a)
        /\ Kind(t) = "idle" /\ SegAt(t) = NoSeg /\ Place(t) = NoSeg
        /\ UNCHANGED <<addr2shmid, nattach, leaks, untold>>
    BY <1>1, BeginMoves DEF SysVInv
  <1>3. UNCHANGED <<seg, dest, at, outer, gets, overtaken>> /\ S!Exists(s)
    BY <1>0 DEF S!Shmdt, PlaceInv, s
  <1>4. \A u \in Workers : Place(u) # a
    BY PlaceBusy DEF S!Shmdt, SysVInv
  <1>5. SysVTypes'
    BY <1>2, <1>3 DEF SysVInv, SysVTypes, Moves
  <1>6. PlacesApart'
    BY <1>2, <1>3, <1>4
    DEF SysVInv, PlacesApart, Moves, Kind, SegAt, Place, InsideKinds, DetachKinds, s
  <1>7. ASSUME NEW b \in Places
        PROVE  PlaceInv(b)'
    <2>1. PlaceInv(b)
      BY DEF SysVInv
    <2>2. (Attaching(b)' <=> Attaching(b)) /\ (Leaving(b)' <=> Leaving(b))
      BY <1>2 DEF Attaching, Leaving, Moves, Kind, Place
    <2>3. PlaceKnown(b)'
      BY <2>1, <1>2, <1>3, <1>4 DEF PlaceInv, PlaceKnown, Moves, Kind, Place
    <2> QED
      BY <1>2, <1>3, <2>1, <2>2, <2>3 DEF PlaceInv, PlaceCounted, Holds, S!Exists
  <1>8. ASSUME NEW r \in Segments
        PROVE  SegLife(r)' /\ SegReport(r)'
    <2>1. /\ SegLife(r) /\ SegReport(r) /\ r # NoSeg
          /\ Nattch(r)' = Nattch(r) /\ Refs(r)' = Refs(r)
      BY <1>2, <1>3, SegmentFacts DEF Nattch, Refs
    <2>2. (Getting(r)' <=> Getting(r)) /\ (GoneBy(r)' <=> GoneBy(r))
      BY <1>2 DEF Getting, GoneBy, Moves, Kind, SegAt
    <2>3. Untouched(r) /\ seg[r] = "none" => Untouched(r)'
      BY <1>2, <1>3 DEF Untouched, Moves, SegAt, S!Exists
    <2>4. SegLife(r)'
      BY <2>1, <2>2, <2>3, <1>2, <1>3 DEF SegLife, S!Private
    <2>5. GotOnce(r)'
      BY <2>1, <1>2, <1>3 DEF SegReport, GotOnce, Getting, Moves, Kind, SegAt, s
    <2> QED
      BY <2>1, <2>2, <2>4, <2>5, <1>2, <1>3 DEF SegReport, Alive, Destroyed
  <1>9. ASSUME NEW u \in Workers
        PROVE  Watch(u)'
    <2>1. Watch(u)
      BY DEF SysVInv
    <2> QED
      BY <1>2, <1>3, <2>1 DEF Watch, Moves, Kind, SegAt, Nattch
  <1> QED
    BY <1>5, <1>6, <1>7, <1>8, <1>9 DEF SysVInv

(* The report of shmget.                                                   *)
LEMMA GotKeeps ==
    ASSUME SysVInv, NEW t \in Workers, S!Doing(t, "got"), S!Tell("alloc", "segment", Head(prog[t]).seg),
           S!Continue(t, <<>>),
           UNCHANGED <<seg, dest, at, outer, addr2shmid, nattach, gets, overtaken, untold>>
    PROVE  SysVInv'
  <1> DEFINE s == SegAt(t)
  <1>1. /\ prog[t] # <<>> /\ Head(prog[t]).seg = s /\ Kind(t) = "got" /\ s \in Segments
        /\ Place(t) = NoSeg
    BY DoingKind DEF SysVInv, Fits, SegmentKinds
  <1>2. Moves(t, "idle", NoSeg, NoSeg)
    BY <1>1, ContinueMoves DEF SysVInv, After
  <1>3. S!Tell("alloc", "segment", s) /\ <<"segment", s>> \in S!Keys
    BY <1>1, SegmentFacts
  <1>4. /\ leaks' \in [S!Keys -> [left : Nat, refs : Nat]]
        /\ \A k \in S!Keys : leaks'[k].refs > 0 => leaks'[k].left > 0
        /\ \A k \in S!Keys : k # <<"segment", s>> => leaks'[k] = leaks[k]
        /\ leaks'[<<"segment", s>>].refs = leaks[<<"segment", s>>].refs + 1
        /\ leaks'[<<"segment", s>>].left =
                IF leaks[<<"segment", s>>].refs > 0 THEN leaks[<<"segment", s>>].left
                                                    ELSE leaks[<<"segment", s>>].left + 1
    BY <1>3, LeaksWritten DEF SysVInv
  <1> HIDE DEF s
  <1>5. SysVTypes'
    BY <1>2, <1>4 DEF SysVInv, SysVTypes, Moves
  <1>6. PlacesApart'
    BY <1>2 DEF SysVInv, PlacesApart, Moves, Kind, SegAt, Place, InsideKinds, DetachKinds, s
  <1>7. ASSUME NEW b \in Places
        PROVE  PlaceInv(b)'
    <2>1. PlaceInv(b)
      BY DEF SysVInv
    <2>2. <<"address", b>> \in S!Keys /\ <<"address", b>> # <<"segment", s>>
      BY DEF S!Keys
    <2> QED
      BY <1>1, <1>2, <1>4, <2>1, <2>2
      DEF PlaceInv, PlaceCounted, PlaceKnown, Holds, Leaving, Attaching, S!Exists, Moves, Kind, Place
  <1>8. ASSUME NEW r \in Segments
        PROVE  SegLife(r)' /\ SegReport(r)'
    <2>1. /\ SegLife(r) /\ SegReport(r) /\ r # NoSeg /\ <<"segment", r>> \in S!Keys
          /\ Nattch(r)' = Nattch(r) /\ Refs(r) \in Nat /\ gets[r] \in Nat
      BY SegmentFacts DEF Nattch
    <2>2. (GoneBy(r)' <=> GoneBy(r)) /\ (Untouched(r) => Untouched(r)')
      BY <1>1, <1>2, <2>1 DEF GoneBy, Untouched, Moves, Kind, SegAt
    <2>3. CASE r # s
      <3>1. leaks'[<<"segment", r>>] = leaks[<<"segment", r>>] /\ Refs(r)' = Refs(r)
        BY <2>1, <2>3, <1>4 DEF Refs
      <3>2. (Getting(r)' <=> Getting(r))
        BY <2>1, <2>3, <1>1, <1>2 DEF Getting, Moves, Kind, SegAt, s
      <3>3. SegLife(r)'
        BY <2>1, <2>2, <3>1, <3>2 DEF SegLife, S!Private
      <3>4. GotOnce(r)'
        BY <2>1, <2>3, <3>1, <1>1, <1>2 DEF SegReport, GotOnce, Moves, Kind, SegAt, s
      <3> QED
        BY <2>1, <2>2, <3>1, <3>2, <3>3, <3>4 DEF SegReport, Alive, Destroyed
    <2>4. CASE r = s
      <3>1. /\ Refs(r)' = Refs(r) + 1 /\ Getting(r)
            /\ leaks'[<<"segment", r>>].left = IF Refs(r) > 0 THEN leaks[<<"segment", r>>].left
                                               ELSE leaks[<<"segment", r>>].left + 1
        BY <2>4, <1>1, <1>4 DEF Refs, Getting, s
      <3>2. SegLife(r)'
        BY <2>1, <2>2, <3>1 DEF SegLife, S!Private
      <3>3. ASSUME r \notin untold, gets[r] = 1
            PROVE  /\ Refs(r) = 0 /\ seg[r] # "gone"
                   /\ \A u \in Workers : u # t => SegAt(u) # r
        BY <2>1, <2>4, <3>3, <1>1 DEF SegReport, GotOnce, s
      <3>4. GotOnce(r)'
        BY <2>1, <3>1, <3>3, <1>2 DEF GotOnce, Moves, Kind, SegAt
      <3> QED
        BY <2>1, <2>2, <3>1, <3>2, <3>3, <3>4 DEF SegReport, Alive, Destroyed
    <2> QED
      BY <2>3, <2>4
  <1>9. ASSUME NEW u \in Workers
        PROVE  Watch(u)'
    <2>1. Watch(u)
      BY DEF SysVInv
    <2> QED
      BY <1>2, <2>1 DEF Watch, Moves, Kind, SegAt, Nattch
  <1> QED
    BY <1>5, <1>6, <1>7, <1>8, <1>9 DEF SysVInv
(* A step of a thread that is not about the reports of its segment.        *)
LEMMA QuietSegments ==
    ASSUME SysVInv, NEW t \in Workers, NEW l, NEW x \in {SegAt(t), NoSeg}, NEW b, Moves(t, l, x, b),
           UNCHANGED <<seg, dest, at, outer, gets, overtaken, untold>>,
           \A r \in Segments : leaks'[<<"segment", r>>] = leaks[<<"segment", r>>],
           Kind(t) # "got", l # "got",
           (Kind(t) \in {"gone", "parting"}) <=> (l \in {"gone", "parting"}),
           Kind(t) \in {"gone", "parting"} => x = SegAt(t),
           NEW r \in Segments
    PROVE  SegLife(r)' /\ SegReport(r)'
  <1>1. /\ SegLife(r) /\ SegReport(r) /\ r # NoSeg
        /\ Nattch(r)' = Nattch(r) /\ Refs(r)' = Refs(r)
        /\ leaks'[<<"segment", r>>] = leaks[<<"segment", r>>]
    BY SegmentFacts DEF Nattch, Refs
  <1>2. (Getting(r)' <=> Getting(r)) /\ (GoneBy(r)' <=> GoneBy(r))
    BY DEF Getting, GoneBy, Moves, Kind, SegAt
  <1>3. Untouched(r) => Untouched(r)'
    BY <1>1 DEF Untouched, Moves, SegAt
  <1>4. SegLife(r)'
    BY <1>1, <1>2, <1>3 DEF SegLife, S!Private
  <1>5. GotOnce(r)'
    BY <1>1 DEF SegReport, GotOnce, Moves, Kind, SegAt
  <1> QED
    BY <1>1, <1>2, <1>4, <1>5 DEF SegReport, Alive, Destroyed

(* The report of shmctl.                                                   *)
LEMMA ControlKeeps ==
    ASSUME SysVInv, NEW t \in Workers, S!Doing(t, "control"),
           S!Tell("free", "control", Head(prog[t]).seg), S!Continue(t, <<>>),
           UNCHANGED <<seg, dest, at, outer, addr2shmid, nattach, gets, overtaken, untold>>
    PROVE  SysVInv'
  <1> DEFINE s == SegAt(t)
  <1>1. /\ prog[t] # <<>> /\ Head(prog[t]).seg = s /\ Kind(t) = "control" /\ s \in Segments
        /\ Place(t) = NoSeg
    BY DoingKind DEF SysVInv, Fits, SegmentKinds
  <1>2. Moves(t, "rmid", s, NoSeg)
    BY <1>1, ContinueMoves DEF SysVInv, After
  <1>3. S!Tell("free", "control", s) /\ <<"control", s>> \in S!Keys
    BY <1>1 DEF S!Keys
  <1>4. /\ leaks' \in [S!Keys -> [left : Nat, refs : Nat]]
        /\ \A k \in S!Keys : leaks'[k].refs > 0 => leaks'[k].left > 0
        /\ \A k \in S!Keys : k # <<"control", s>> => leaks'[k] = leaks[k]
    BY <1>3, LeaksWritten DEF SysVInv
  <1>5. SysVTypes'
    BY <1>2, <1>4 DEF SysVInv, SysVTypes, Moves
  <1>6. PlacesApart'
    BY <1>1, <1>2 DEF SysVInv, PlacesApart, Moves, Kind, SegAt, Place, InsideKinds, DetachKinds
  <1>7. ASSUME NEW b \in Places
        PROVE  PlaceInv(b)'
    <2>1. PlaceInv(b)
      BY DEF SysVInv
    <2>2. <<"address", b>> \in S!Keys /\ <<"address", b>> # <<"control", s>>
      BY DEF S!Keys
    <2> QED
      BY <1>1, <1>2, <1>4, <2>1, <2>2
      DEF PlaceInv, PlaceCounted, PlaceKnown, Holds, Leaving, Attaching, S!Exists, Moves, Kind, Place
  <1>8. ASSUME NEW r \in Segments
        PROVE  SegLife(r)' /\ SegReport(r)'
    <2>1. \A q \in Segments : leaks'[<<"segment", q>>] = leaks[<<"segment", q>>]
      BY <1>4 DEF S!Keys
    <2> QED
      BY <1>1, <1>2, <2>1, QuietSegments
  <1>9. ASSUME NEW u \in Workers
        PROVE  Watch(u)'
    <2>1. Watch(u)
      BY DEF SysVInv
    <2> QED
      BY <1>1, <1>2, <2>1 DEF Watch, Moves, Kind, SegAt, Nattch
  <1> QED
    BY <1>5, <1>6, <1>7, <1>8, <1>9 DEF SysVInv

(* The report of shmat.                                                    *)
LEMMA AttachedKeeps ==
    ASSUME SysVInv, NEW t \in Workers, S!Doing(t, "attached"),
           S!Tell("alloc", "address", Head(prog[t]).at), S!Continue(t, <<>>),
           UNCHANGED <<seg, dest, at, outer, addr2shmid, nattach, gets, overtaken, untold>>
    PROVE  SysVInv'
  <1> DEFINE a == Place(t)
  <1>1. /\ prog[t] # <<>> /\ Head(prog[t]).at = a /\ Kind(t) = "attached" /\ a \in Places
    BY DoingKind DEF SysVInv, Fits, PlaceKinds, InsideKinds
  <1>2. Moves(t, "idle", NoSeg, NoSeg)
    BY <1>1, ContinueMoves DEF SysVInv, After
  <1>3. S!Tell("alloc", "address", a) /\ <<"address", a>> \in S!Keys
    BY <1>1 DEF S!Keys
  <1>4. /\ leaks' \in [S!Keys -> [left : Nat, refs : Nat]]
        /\ \A k \in S!Keys : leaks'[k].refs > 0 => leaks'[k].left > 0
        /\ \A k \in S!Keys : k # <<"address", a>> => leaks'[k] = leaks[k]
        /\ leaks'[<<"address", a>>].left = leaks[<<"address", a>>].left + 1
    BY <1>3, LeaksWritten DEF SysVInv
  <1>5. SysVTypes'
    BY <1>2, <1>4 DEF SysVInv, SysVTypes, Moves
  <1>6. PlacesApart'
    BY <1>1, <1>2 DEF SysVInv, PlacesApart, Moves, Kind, SegAt, Place, InsideKinds, DetachKinds
  <1>7. ASSUME NEW b \in Places
        PROVE  PlaceInv(b)'
    <2>1. PlaceInv(b) /\ b # NoSeg
      BY SysVAssumption DEF SysVInv, NoSeg
    <2>2. <<"address", b>> \in S!Keys /\ leaks[<<"address", b>>].left \in Nat
      BY DEF S!Keys, SysVInv, SysVTypes
    <2>3. PlaceKnown(b)'
      BY <1>1, <1>2, <2>1 DEF PlaceInv, PlaceKnown, Moves, Kind, Place
    <2>4. Leaving(b)' <=> Leaving(b)
      BY <1>1, <1>2, <2>1 DEF Leaving, Moves, Kind, Place
    <2>5. CASE b # a
      <3>1. Attaching(b)' <=> Attaching(b)
        BY <1>1, <1>2, <2>1, <2>5 DEF Attaching, Moves, Kind, Place
      <3> QED
        BY <1>4, <2>1, <2>2, <2>3, <2>4, <2>5, <3>1 DEF PlaceInv, PlaceCounted, Holds, S!Exists
    <2>6. CASE b = a
      <3>1. leaks'[<<"address", b>>].left = leaks[<<"address", b>>].left + 1
        BY <2>6, <1>4
      <3> QED
        BY <2>1, <2>2, <2>3, <2>4, <3>1 DEF PlaceInv, PlaceCounted, Holds, S!Exists
    <2> QED
      BY <2>5, <2>6
  <1>8. ASSUME NEW r \in Segments
        PROVE  SegLife(r)' /\ SegReport(r)'
    <2>1. \A q \in Segments : leaks'[<<"segment", q>>] = leaks[<<"segment", q>>]
      BY <1>4 DEF S!Keys
    <2> QED
      BY <1>1, <1>2, <2>1, QuietSegments
  <1>9. ASSUME NEW u \in Workers
        PROVE  Watch(u)'
    <2>1. Watch(u)
      BY DEF SysVInv
    <2> QED
      BY <1>1, <1>2, <2>1 DEF Watch, Moves, Kind, SegAt, Nattch
  <1> QED
    BY <1>5, <1>6, <1>7, <1>8, <1>9 DEF SysVInv

(* The report of shmdt.                                                    *)
LEMMA DetachedKeeps ==
    ASSUME SysVInv, NEW t \in Workers, S!Doing(t, "detached"),
           S!Tell("free", "address", Head(prog[t]).at), S!Continue(t, <<>>),
           UNCHANGED <<seg, dest, at, outer, addr2shmid, nattach, gets, overtaken, untold>>
    PROVE  SysVInv'
  <1> DEFINE a == Place(t)
             l == After(Kind(t))
             x == IF l = "idle" THEN NoSeg ELSE SegAt(t)
  <1>1. /\ prog[t] # <<>> /\ Head(prog[t]).at = a /\ Kind(t) \in {"detached", "parting"}
        /\ a \in Places
    BY DoingKind DEF SysVInv, Fits, PlaceKinds, DetachKinds
  <1>2. /\ Moves(t, l, x, NoSeg) /\ x \in {SegAt(t), NoSeg}
        /\ l = IF Kind(t) = "parting" THEN "gone" ELSE "idle"
        /\ Kind(t) = "parting" => x = SegAt(t)
    BY <1>1, ContinueMoves DEF SysVInv, After
  <1> HIDE DEF l, x
  <1>3. S!Tell("free", "address", a) /\ <<"address", a>> \in S!Keys
    BY <1>1 DEF S!Keys
  <1>4. /\ leaks' \in [S!Keys -> [left : Nat, refs : Nat]]
        /\ \A k \in S!Keys : leaks'[k].refs > 0 => leaks'[k].left > 0
        /\ \A k \in S!Keys : k # <<"address", a>> => leaks'[k] = leaks[k]
        /\ leaks'[<<"address", a>>].left >= leaks[<<"address", a>>].left - 1
    BY <1>3, LeaksWritten DEF SysVInv
  <1>5. SysVTypes'
    BY <1>2, <1>4 DEF SysVInv, SysVTypes, Moves
  <1>6. PlacesApart'
    BY <1>1, <1>2 DEF SysVInv, PlacesApart, Moves, Kind, SegAt, Place, InsideKinds, DetachKinds
  <1>7. ASSUME NEW b \in Places
        PROVE  PlaceInv(b)'
    <2>1. PlaceInv(b) /\ b # NoSeg
      BY SysVAssumption DEF SysVInv, NoSeg
    <2>2. /\ <<"address", b>> \in S!Keys /\ leaks[<<"address", b>>].left \in Nat
          /\ leaks'[<<"address", b>>].left \in Nat
      BY <1>4 DEF S!Keys, SysVInv, SysVTypes
    <2>3. PlaceKnown(b)'
      BY <1>1, <1>2, <2>1 DEF PlaceInv, PlaceKnown, Moves, Kind, Place
    <2>4. Attaching(b)' <=> Attaching(b)
      BY <1>1, <1>2, <2>1 DEF Attaching, Moves, Kind, Place
    <2>5. CASE b # a
      <3>1. Leaving(b)' <=> Leaving(b)
        BY <1>1, <1>2, <2>1, <2>5 DEF Leaving, Moves, Kind, Place
      <3> QED
        BY <1>4, <2>1, <2>2, <2>3, <2>4, <2>5, <3>1 DEF PlaceInv, PlaceCounted, Holds, S!Exists
    <2>6. CASE b = a
      <3>1. leaks'[<<"address", b>>].left >= leaks[<<"address", b>>].left - 1
        BY <2>6, <1>4
      <3>2. Leaving(b)
        BY <2>6, <1>1 DEF Leaving
      <3>3. ~Leaving(b)'
        BY <2>6, <1>1, <1>2 DEF Leaving, Moves, Kind, Place, SysVInv, PlacesApart, DetachKinds
      <3> QED
        BY <2>1, <2>2, <2>3, <2>4, <3>1, <3>2, <3>3 DEF PlaceInv, PlaceCounted, Holds, S!Exists
    <2> QED
      BY <2>5, <2>6
  <1>8. ASSUME NEW r \in Segments
        PROVE  SegLife(r)' /\ SegReport(r)'
    <2>1. \A q \in Segments : leaks'[<<"segment", q>>] = leaks[<<"segment", q>>]
      BY <1>4 DEF S!Keys
    <2> QED
      BY <1>1, <1>2, <2>1, QuietSegments
  <1>9. ASSUME NEW u \in Workers
        PROVE  Watch(u)'
    <2>1. Watch(u)
      BY DEF SysVInv
    <2> QED
      BY <1>1, <1>2, <2>1 DEF Watch, Moves, Kind, SegAt, Nattch
  <1> QED
    BY <1>5, <1>6, <1>7, <1>8, <1>9 DEF SysVInv

(* The report that the segment is gone.                                    *)
LEMMA GoneKeeps ==
    ASSUME SysVInv, NEW t \in Workers, S!Doing(t, "gone"),
           S!Tell("free", "segment", Head(prog[t]).seg), S!Continue(t, <<>>),
           UNCHANGED <<seg, dest, at, outer, addr2shmid, nattach, gets, overtaken, untold>>
    PROVE  SysVInv'
  <1> DEFINE s == SegAt(t)
  <1>1. /\ prog[t] # <<>> /\ Head(prog[t]).seg = s /\ Kind(t) = "gone" /\ s \in Segments
        /\ Place(t) = NoSeg
    BY DoingKind DEF SysVInv, Fits, SegmentKinds
  <1>2. Moves(t, "idle", NoSeg, NoSeg)
    BY <1>1, ContinueMoves DEF SysVInv, After
  <1>3. S!Tell("free", "segment", s) /\ <<"segment", s>> \in S!Keys
    BY <1>1, SegmentFacts
  <1>4. /\ leaks' \in [S!Keys -> [left : Nat, refs : Nat]]
        /\ \A k \in S!Keys : leaks'[k].refs > 0 => leaks'[k].left > 0
        /\ \A k \in S!Keys : k # <<"segment", s>> => leaks'[k] = leaks[k]
        /\ leaks'[<<"segment", s>>].refs =
                IF leaks[<<"segment", s>>].refs = 0 THEN 0 ELSE leaks[<<"segment", s>>].refs - 1
        /\ leaks'[<<"segment", s>>].left =
                IF leaks[<<"segment", s>>].refs = 1 THEN leaks[<<"segment", s>>].left - 1
                                                    ELSE leaks[<<"segment", s>>].left
    BY <1>3, LeaksWritten DEF SysVInv
  <1> HIDE DEF s
  <1>5. SysVTypes'
    BY <1>2, <1>4 DEF SysVInv, SysVTypes, Moves
  <1>6. PlacesApart'
    BY <1>2 DEF SysVInv, PlacesApart, Moves, Kind, SegAt, Place, InsideKinds, DetachKinds
  <1>7. ASSUME NEW b \in Places
        PROVE  PlaceInv(b)'
    <2>1. PlaceInv(b)
      BY DEF SysVInv
    <2>2. <<"address", b>> \in S!Keys /\ <<"address", b>> # <<"segment", s>>
      BY DEF S!Keys
    <2> QED
      BY <1>1, <1>2, <1>4, <2>1, <2>2
      DEF PlaceInv, PlaceCounted, PlaceKnown, Holds, Leaving, Attaching, S!Exists, Moves, Kind, Place
  <1>8. ASSUME NEW r \in Segments
        PROVE  SegLife(r)' /\ SegReport(r)'
    <2>1. /\ SegLife(r) /\ SegReport(r) /\ r # NoSeg /\ <<"segment", r>> \in S!Keys
          /\ Nattch(r)' = Nattch(r) /\ Refs(r) \in Nat
      BY SegmentFacts DEF Nattch
    <2>2. (Getting(r)' <=> Getting(r)) /\ (Untouched(r) => Untouched(r)')
      BY <1>1, <1>2, <2>1 DEF Getting, Untouched, Moves, Kind, SegAt
    <2>3. CASE r # s
      <3>1. leaks'[<<"segment", r>>] = leaks[<<"segment", r>>] /\ Refs(r)' = Refs(r)
        BY <2>1, <2>3, <1>4 DEF Refs
      <3>2. (GoneBy(r)' <=> GoneBy(r))
        BY <2>1, <2>3, <1>1, <1>2 DEF GoneBy, Moves, Kind, SegAt, s
      <3>3. SegLife(r)'
        BY <2>1, <2>2, <3>1, <3>2 DEF SegLife, S!Private
      <3>4. GotOnce(r)'
        BY <2>1, <2>3, <3>1, <1>1, <1>2 DEF SegReport, GotOnce, Moves, Kind, SegAt, s
      <3> QED
        BY <2>1, <2>2, <3>1, <3>2, <3>3, <3>4 DEF SegReport, Alive, Destroyed
    <2>4. CASE r = s
      <3>1. /\ Refs(r)' = IF Refs(r) = 0 THEN 0 ELSE Refs(r) - 1
            /\ GoneBy(r)
            /\ leaks'[<<"segment", r>>].left = IF Refs(r) = 1 THEN leaks[<<"segment", r>>].left - 1
                                               ELSE leaks[<<"segment", r>>].left
        BY <2>4, <1>1, <1>4 DEF Refs, GoneBy, s
      <3>2. SegLife(r)'
        BY <2>1, <2>2, <3>1 DEF SegLife, S!Private
      <3>4. GotOnce(r)'
        BY <2>1, <3>1, <1>1, <1>2 DEF SegReport, GotOnce, Moves, Kind, SegAt
      <3>5. Destroyed(r)'
        BY <2>1, <3>1 DEF SegReport, Destroyed, GotOnce
      <3> QED
        BY <2>1, <2>2, <3>1, <3>2, <3>4, <3>5 DEF SegReport, Alive
    <2> QED
      BY <2>3, <2>4
  <1>9. ASSUME NEW u \in Workers
        PROVE  Watch(u)'
    <2>1. Watch(u)
      BY DEF SysVInv
    <2> QED
      BY <1>2, <2>1 DEF Watch, Moves, Kind, SegAt, Nattch
  <1> QED
    BY <1>5, <1>6, <1>7, <1>8, <1>9 DEF SysVInv
(* shmctl reads the attachment count.                                      *)
LEMMA StatKeeps ==
    ASSUME SysVInv, NEW t \in Workers, S!StatStep(t), S!Doing(t, "stat")
    PROVE  SysVInv'
  <1> DEFINE s == SegAt(t)
  <1>1. /\ prog[t] # <<>> /\ Head(prog[t]).seg = s /\ Kind(t) = "stat" /\ s \in Segments
        /\ Place(t) = NoSeg
    BY DoingKind DEF SysVInv, Fits, SegmentKinds
  <1>2. Moves(t, "control", s, NoSeg)
    BY <1>1, ContinueMoves DEF SysVInv, After, S!StatStep
  <1>3. /\ UNCHANGED <<seg, dest, at, outer, leaks, gets, overtaken, untold, addr2shmid>>
        /\ nattach' = [nattach EXCEPT ![t] = IF seg[s] = "own" THEN Nattch(s) ELSE -1]
    BY <1>1 DEF S!StatStep, S!Doing, Nattch
  <1>4. Nattch(s) \in Nat
    BY <1>1, SegmentFacts
  <1>5. SysVTypes'
    BY <1>2, <1>3, <1>4 DEF SysVInv, SysVTypes, Moves
  <1>6. PlacesApart'
    BY <1>1, <1>2, <1>3 DEF SysVInv, PlacesApart, Moves, Kind, SegAt, Place, InsideKinds, DetachKinds
  <1>7. ASSUME NEW b \in Places
        PROVE  PlaceInv(b)'
    <2>1. PlaceInv(b)
      BY DEF SysVInv
    <2> QED
      BY <1>1, <1>2, <1>3, <2>1
      DEF PlaceInv, PlaceCounted, PlaceKnown, Holds, Leaving, Attaching, S!Exists, Moves, Kind, Place
  <1>8. ASSUME NEW r \in Segments
        PROVE  SegLife(r)' /\ SegReport(r)'
    BY <1>1, <1>2, <1>3, QuietSegments
  <1>9. ASSUME NEW u \in Workers
        PROVE  Watch(u)'
    <2>1. Watch(u) /\ nattach \in [Workers -> Int]
      BY DEF SysVInv, SysVTypes
    <2>2. CASE u # t
      BY <1>2, <1>3, <2>1, <2>2 DEF Watch, Moves, Kind, SegAt, Nattch
    <2>3. CASE u = t
      <3>1. nattach'[u] = IF seg[s] = "own" THEN Nattch(s) ELSE -1
        BY <1>3, <2>1, <2>3
      <3> QED
        BY <1>1, <1>2, <1>3, <2>3, <3>1 DEF Watch, Moves, Kind, SegAt, Nattch
    <2> QED
      BY <2>2, <2>3
  <1> QED
    BY <1>5, <1>6, <1>7, <1>8, <1>9 DEF SysVInv

(* shmdt looks the address up.                                             *)
LEMMA FindKeeps ==
    ASSUME SysVInv, NEW t \in Workers, S!StatStep(t), S!Doing(t, "find")
    PROVE  SysVInv'
  <1> DEFINE s == SegAt(t)
             a == Place(t)
  <1>1. /\ prog[t] # <<>> /\ Head(prog[t]).seg = s /\ Head(prog[t]).at = a /\ Kind(t) = "find"
        /\ s \in Segments /\ a \in Places
    BY DoingKind DEF SysVInv, Fits, PlaceKinds, InsideKinds
  <1>2. Moves(t, "detach", s, a)
    BY <1>1, ContinueMoves DEF SysVInv, After, S!StatStep
  <1>3. /\ UNCHANGED <<seg, dest, at, outer, leaks, gets, overtaken, untold>>
        /\ addr2shmid' = [addr2shmid EXCEPT ![a] = NoSeg]
        /\ nattach' = [nattach EXCEPT ![t] =
                IF addr2shmid[a] # NoSeg /\ s \in dest THEN Nattch(s) ELSE -1]
    BY <1>1 DEF S!StatStep, S!Doing, Nattch, NoSeg
  <1>4. Nattch(s) \in Nat /\ s # NoSeg
    BY <1>1, SegmentFacts
  <1>5. SysVTypes'
    <2>1. addr2shmid' \in [Places -> Segments \cup {NoSeg}]
      BY <1>3 DEF SysVInv, SysVTypes
    <2>2. nattach' \in [Workers -> Int]
      BY <1>3, <1>4 DEF SysVInv, SysVTypes
    <2> QED
      BY <1>2, <1>3, <2>1, <2>2 DEF SysVInv, SysVTypes, Moves
  <1>6. PlacesApart'
    BY <1>1, <1>2, <1>3 DEF SysVInv, PlacesApart, Moves, Kind, SegAt, Place, InsideKinds, DetachKinds
  <1>7. ASSUME NEW b \in Places
        PROVE  PlaceInv(b)'
    <2>1. PlaceInv(b)
      BY DEF SysVInv
    <2>2. (Attaching(b)' <=> Attaching(b)) /\ (Leaving(b)' <=> Leaving(b))
      BY <1>1, <1>2 DEF Attaching, Leaving, Moves, Kind, Place
    <2>3. PlaceKnown(b)'
      <3>1. CASE b = a
        BY <3>1, <1>2 DEF PlaceKnown, Moves, Kind, Place
      <3>2. CASE b # a
        BY <3>2, <2>1, <1>1, <1>2, <1>3
        DEF PlaceInv, PlaceKnown, Moves, Kind, Place, SysVInv, SysVTypes
      <3> QED
        BY <3>1, <3>2
    <2> QED
      BY <1>3, <2>1, <2>2, <2>3 DEF PlaceInv, PlaceCounted, Holds, S!Exists
  <1>8. ASSUME NEW r \in Segments
        PROVE  SegLife(r)' /\ SegReport(r)'
    BY <1>1, <1>2, <1>3, QuietSegments
  <1>9. ASSUME NEW u \in Workers
        PROVE  Watch(u)'
    <2>1. Watch(u) /\ nattach \in [Workers -> Int]
      BY DEF SysVInv, SysVTypes
    <2>2. CASE u # t
      BY <1>2, <1>3, <2>1, <2>2 DEF Watch, Moves, Kind, SegAt, Nattch
    <2>3. CASE u = t
      <3>1. nattach'[u] = IF addr2shmid[a] # NoSeg /\ s \in dest THEN Nattch(s) ELSE -1
        BY <1>3, <2>1, <2>3
      <3>2. ASSUME seg[s] = "own"
            PROVE  addr2shmid[a] # NoSeg
        <4>1. at[a] = s /\ PlaceKnown(a)
          BY <1>1 DEF SysVInv, PlacesApart, PlaceInv, InsideKinds
        <4>2. \A v \in Workers : Place(v) = a => Kind(v) \notin {"map", "detach"}
          BY <1>1 DEF SysVInv, PlacesApart, InsideKinds
        <4> QED
          BY <3>2, <4>1, <4>2, <1>4 DEF PlaceKnown
      <3>3. nattach'[u] # -1 => s \in dest /\ nattach'[u] = Nattch(s)
        BY <3>1
      <3>4. (seg[s] = "own" /\ s \in dest) => nattach'[u] # -1
        BY <3>1, <3>2, <1>4
      <3> QED
        BY <1>2, <1>3, <2>3, <3>3, <3>4 DEF Watch, Moves, Kind, SegAt, Nattch
    <2> QED
      BY <2>2, <2>3
  <1> QED
    BY <1>5, <1>6, <1>7, <1>8, <1>9 DEF SysVInv

(* shmat notes the segment.                                                *)
LEMMA MapKeeps ==
    ASSUME SysVInv, NEW t \in Workers, S!MapStep(t)
    PROVE  SysVInv'
  <1> DEFINE s == SegAt(t)
             a == Place(t)
  <1>1. /\ prog[t] # <<>> /\ Head(prog[t]).seg = s /\ Head(prog[t]).at = a /\ Kind(t) = "map"
        /\ s \in Segments /\ a \in Places
    BY DoingKind DEF SysVInv, Fits, PlaceKinds, InsideKinds, S!MapStep
  <1>2. Moves(t, "attached", s, a)
    BY <1>1, ContinueMoves DEF SysVInv, After, S!MapStep
  <1>3. /\ UNCHANGED <<seg, dest, at, outer, leaks, gets, overtaken, untold, nattach>>
        /\ addr2shmid' = IF seg[s] = "own" THEN [addr2shmid EXCEPT ![a] = s] ELSE addr2shmid
    BY <1>1 DEF S!MapStep
  <1>4. at[a] = s
    BY <1>1 DEF SysVInv, PlacesApart, InsideKinds
  <1>5. SysVTypes'
    BY <1>1, <1>2, <1>3 DEF SysVInv, SysVTypes, Moves
  <1>6. PlacesApart'
    BY <1>1, <1>2, <1>3 DEF SysVInv, PlacesApart, Moves, Kind, SegAt, Place, InsideKinds, DetachKinds
  <1>7. ASSUME NEW b \in Places
        PROVE  PlaceInv(b)'
    <2>1. PlaceInv(b)
      BY DEF SysVInv
    <2>2. (Attaching(b)' <=> Attaching(b)) /\ (Leaving(b)' <=> Leaving(b))
      BY <1>1, <1>2 DEF Attaching, Leaving, Moves, Kind, Place
    <2>3. PlaceKnown(b)'
      <3>1. CASE b = a
        BY <3>1, <1>1, <1>3, <1>4 DEF PlaceKnown, SysVInv, SysVTypes
      <3>2. CASE b # a
        BY <3>2, <2>1, <1>1, <1>2, <1>3
        DEF PlaceInv, PlaceKnown, Moves, Kind, Place, SysVInv, SysVTypes
      <3> QED
        BY <3>1, <3>2
    <2> QED
      BY <1>3, <2>1, <2>2, <2>3 DEF PlaceInv, PlaceCounted, Holds, S!Exists
  <1>8. ASSUME NEW r \in Segments
        PROVE  SegLife(r)' /\ SegReport(r)'
    BY <1>1, <1>2, <1>3, QuietSegments
  <1>9. ASSUME NEW u \in Workers
        PROVE  Watch(u)'
    <2>1. Watch(u)
      BY DEF SysVInv
    <2> QED
      BY <1>1, <1>2, <1>3, <2>1 DEF Watch, Moves, Kind, SegAt, Nattch
  <1> QED
    BY <1>5, <1>6, <1>7, <1>8, <1>9 DEF SysVInv
(* The kernel destroys what is marked for removal and attached nowhere; if *)
(* the mark or the count of one segment changes, that can only be this one. *)
LEMMA ReapedFacts ==
    ASSUME SysVInv, NEW s \in Segments, dest' \subseteq dest \cup {s},
           seg' = S!Reaped(dest', at', outer'),
           \A r \in Segments : r # s => Nattch(r)' = Nattch(r)
    PROVE  /\ seg' \in [Segments -> {"none", "own", "foreign", "gone"}]
           /\ seg'[s] = IF s \in dest' /\ Nattch(s)' = 0 THEN "gone" ELSE seg[s]
           /\ \A r \in Segments : r # s => seg'[r] = seg[r]
  <1>1. /\ seg' \in [Segments -> {"none", "own", "foreign", "gone"}]
        /\ \A r \in Segments :
                seg'[r] = IF r \in dest' /\ Nattch(r)' = 0 THEN "gone" ELSE seg[r]
    BY DEF S!Reaped, SysVInv, SysVTypes, Nattch
  <1>2. ASSUME NEW r \in Segments, r # s, r \in dest', Nattch(r)' = 0
        PROVE  seg[r] = "gone"
    <2>1. Nattch(r) = 0 /\ r \in dest
      BY <1>2
    <2>2. SegLife(r)
      BY <1>2, SegmentFacts
    <2> QED
      BY <2>1, <2>2 DEF SegLife, S!Private
  <1> QED
    BY <1>1, <1>2

LEMMA RmidKeeps ==
    ASSUME SysVInv, NEW t \in Workers, NEW s, s = SegAt(t), S!RmidStep(t)
    PROVE  SysVInv'
  <1> DEFINE told == S!Exists(s) /\ nattach[t] = 0
             l == IF told THEN "gone" ELSE "idle"
             x == IF told THEN s ELSE NoSeg
  <1>1. /\ prog[t] # <<>> /\ Head(prog[t]).seg = s /\ Kind(t) = "rmid" /\ s \in Segments
        /\ Place(t) = NoSeg
    BY DoingKind DEF SysVInv, Fits, SegmentKinds, S!RmidStep
  <1>2. /\ UNCHANGED <<at, outer, addr2shmid, leaks, gets, untold>>
        /\ nattach' = [nattach EXCEPT ![t] = -1]
        /\ S!Exists(s) => /\ dest' = dest \cup {s}
                          /\ seg' = S!Reaped(dest', at, outer)
                          /\ S!Overtake(t, s)
                          /\ S!Continue(t, IF nattach[t] = 0 THEN <<S!Step("gone", s, S!NoSeg)>> ELSE <<>>)
        /\ ~S!Exists(s) => S!Continue(t, <<>>) /\ UNCHANGED <<seg, dest, overtaken>>
    BY <1>1 DEF S!RmidStep
  <1>3. Moves(t, l, x, NoSeg)
    <2>1. CASE told
      <3>1. Tail(prog[t]) = <<>>
        BY <1>1, ProgHead DEF SysVInv, SysVTypes, Kind
      <3>2. Prog("gone", s, NoSeg) = <<S!Step("gone", s, S!NoSeg)>>
        BY DEF Prog, NoSeg
      <3>3. <<S!Step("gone", s, S!NoSeg)>> \o <<>> = <<S!Step("gone", s, S!NoSeg)>>
        OBVIOUS
      <3>4. S!Continue(t, <<S!Step("gone", s, S!NoSeg)>>)
        BY <1>2, <2>1
      <3>5. prog' = [prog EXCEPT ![t] = Prog("gone", s, NoSeg)]
        BY <3>1, <3>2, <3>3, <3>4 DEF S!Continue
      <3>6. Fits("gone", s, NoSeg)
        BY <1>1 DEF Fits, PlaceKinds, SegmentKinds, InsideKinds, DetachKinds
      <3>7. /\ KindOf(Prog("gone", s, NoSeg)) = "gone" /\ SegOf(Prog("gone", s, NoSeg)) = s
            /\ AtOf(Prog("gone", s, NoSeg)) = NoSeg /\ WellFormed(Prog("gone", s, NoSeg))
        BY <3>6, ProgView
      <3>8. Moves(t, "gone", s, NoSeg)
        <4>1. Moves(t, KindOf(Prog("gone", s, NoSeg)), SegOf(Prog("gone", s, NoSeg)),
                       AtOf(Prog("gone", s, NoSeg)))
          BY <3>5, <3>7, Moved DEF SysVInv
        <4> QED
          BY <3>7, <4>1
      <3> QED
        BY <2>1, <3>8
    <2>2. CASE ~told
      <3>1. S!Continue(t, <<>>)
        BY <1>2, <2>2
      <3> QED
        BY <2>2, <3>1, <1>1, ContinueMoves DEF SysVInv, After
    <2> QED
      BY <2>1, <2>2
  <1>4. /\ dest' \subseteq Segments /\ dest \subseteq dest' /\ dest' \subseteq dest \cup {s}
        /\ seg' \in [Segments -> {"none", "own", "foreign", "gone"}]
        /\ \A r \in Segments : r # s => seg'[r] = seg[r]
        /\ S!Exists(s) => s \in dest' /\ seg'[s] = IF Nattch(s) = 0 THEN "gone" ELSE seg[s]
        /\ ~S!Exists(s) => dest' = dest /\ seg' = seg
        /\ overtaken \subseteq overtaken' /\ overtaken' \subseteq overtaken \cup {s}
        /\ \A u \in Workers : (u # t /\ Kind(u) \in {"control", "rmid", "detach"}
                                 /\ SegAt(u) = s) => s \in overtaken' \/ ~S!Exists(s)
    <2>1. CASE S!Exists(s)
      <3>1. \A r \in Segments : Nattch(r)' = Nattch(r)
        BY <1>2 DEF Nattch
      <3>2. /\ seg' \in [Segments -> {"none", "own", "foreign", "gone"}]
            /\ seg'[s] = IF s \in dest' /\ Nattch(s)' = 0 THEN "gone" ELSE seg[s]
            /\ \A r \in Segments : r # s => seg'[r] = seg[r]
        BY <1>1, <1>2, <2>1, <3>1, ReapedFacts
      <3>3. /\ overtaken \subseteq overtaken' /\ overtaken' \subseteq overtaken \cup {s}
            /\ \A u \in Workers : (u # t /\ Kind(u) \in {"control", "rmid", "detach"}
                                     /\ SegAt(u) = s) => s \in overtaken'
        BY <1>1, <1>2, <2>1, OvertakeFacts DEF SysVInv
      <3> QED
        BY <1>1, <1>2, <2>1, <3>1, <3>2, <3>3 DEF SysVInv, SysVTypes
    <2>2. CASE ~S!Exists(s)
      BY <1>2, <2>2 DEF SysVInv, SysVTypes
    <2> QED
      BY <2>1, <2>2
  <1>5. told => s # NoSeg /\ x = s /\ l = "gone"
    BY <1>1, SegmentFacts
  <1>6. ~told => x = NoSeg /\ l = "idle"
    OBVIOUS
  <1> HIDE DEF told, l, x
  <1>7. SysVTypes'
    <2>1. nattach' \in [Workers -> Int]
      BY <1>2 DEF SysVInv, SysVTypes
    <2> QED
      BY <1>2, <1>3, <1>4, <2>1 DEF SysVInv, SysVTypes, Moves
  <1>8. PlacesApart'
    BY <1>1, <1>2, <1>3, <1>5, <1>6
    DEF SysVInv, PlacesApart, Moves, Kind, SegAt, Place, InsideKinds, DetachKinds
  <1>9. ASSUME NEW b \in Places
        PROVE  PlaceInv(b)'
    <2>1. PlaceInv(b) /\ b # NoSeg
      BY SysVAssumption DEF SysVInv, NoSeg
    <2>2. (Attaching(b)' <=> Attaching(b)) /\ (Leaving(b)' <=> Leaving(b))
      BY <1>1, <1>3, <1>5, <1>6, <2>1 DEF Attaching, Leaving, Moves, Kind, Place
    <2>3. at[b] # NoSeg => at[b] \in Segments /\ seg'[at[b]] = seg[at[b]]
      <3>1. ASSUME at[b] # NoSeg
            PROVE  at[b] \in Segments /\ Nattch(at[b]) >= 1
        <4>1. at[b] \in Segments
          BY <3>1 DEF SysVInv, SysVTypes
        <4> QED
          BY <4>1, SegmentFacts
      <3> QED
        BY <3>1, <1>4
    <2>4. PlaceKnown(b)'
      BY <1>1, <1>2, <1>3, <1>5, <1>6, <2>1, <2>3 DEF PlaceInv, PlaceKnown, Moves, Kind, Place
    <2> QED
      BY <1>2, <2>1, <2>2, <2>3, <2>4 DEF PlaceInv, PlaceCounted, Holds, S!Exists
  <1>10. ASSUME NEW r \in Segments
         PROVE  SegLife(r)' /\ SegReport(r)'
    <2>1. /\ SegLife(r) /\ SegReport(r) /\ r # NoSeg /\ Refs(r) \in Nat /\ Nattch(r) \in Nat
          /\ Nattch(r)' = Nattch(r) /\ Refs(r)' = Refs(r) /\ gets[r] \in Nat
      BY <1>2, SegmentFacts DEF Nattch, Refs
    <2>2. /\ Getting(r)' <=> Getting(r)
          /\ Untouched(r) => Untouched(r)'
      BY <1>1, <1>2, <1>3, <1>5, <1>6, <2>1 DEF Getting, Untouched, Moves, Kind, SegAt
    <2>3. r # s \/ ~told => (GoneBy(r)' <=> GoneBy(r))
      BY <1>1, <1>3, <1>5, <1>6, <2>1 DEF GoneBy, Moves, Kind, SegAt
    <2>4. SegLife(r)'
      BY <1>1, <1>2, <1>4, <2>1, <2>2 DEF SegLife, S!Private, S!Exists
    <2>5. GotOnce(r)'
      <3>1. \A u \in Workers : Kind(u)' = "got" => Kind(u) = "got" /\ SegAt(u)' = SegAt(u) /\ u # t
        BY <1>3, <1>5, <1>6 DEF Moves, Kind, SegAt
      <3>2. \A u \in Workers : SegAt(u)' = r => SegAt(u) = r
        BY <1>3, <1>5, <1>6, <2>1 DEF Moves, SegAt
      <3> QED
        BY <1>1, <1>2, <1>4, <2>1, <3>1, <3>2 DEF SegReport, GotOnce
    <2>6. CASE r # s
      BY <1>2, <1>4, <2>1, <2>2, <2>3, <2>4, <2>5, <2>6 DEF SegReport, Alive, Destroyed
    <2>7. CASE r = s
      <3>1. Watch(t)
        BY DEF SysVInv
      <3>2. Alive(r)'
        <4>1. ASSUME seg'[r] = "own", r \notin overtaken'
              PROVE  ~told
          <5>1. seg[s] = "own" /\ s \notin overtaken
            BY <4>1, <2>7, <1>4, <1>1 DEF S!Exists
          <5>2. nattach[t] = Nattch(s)
            BY <5>1, <3>1, <1>1 DEF Watch
          <5> QED
            BY <5>1, <5>2, <4>1, <2>7, <1>4 DEF told, S!Exists
        <4> QED
          BY <4>1, <1>2, <1>4, <2>1, <2>2, <2>3, <2>7 DEF SegReport, Alive, S!Exists
      <3>3. Destroyed(r)'
        <4>1. CASE told
          <5>1. GoneBy(r)'
            BY <4>1, <1>3, <1>5, <2>7 DEF GoneBy, Moves, Kind, SegAt
          <5> QED
            BY <5>1 DEF Destroyed
        <4>2. CASE ~told
          <5>1. ASSUME r \notin overtaken' \cup untold', seg'[r] = "gone"
                PROVE  seg[r] = "gone"
            <6>1. SUFFICES ASSUME seg[r] # "gone" PROVE FALSE
              OBVIOUS
            <6>2. S!Exists(s) /\ Nattch(s) = 0 /\ s \notin overtaken /\ seg[s] = "own"
              BY <5>1, <6>1, <2>7, <2>1, <1>2, <1>4 DEF S!Exists, SegLife, S!Private
            <6>3. nattach[t] = 0
              BY <6>2, <3>1, <1>1 DEF Watch
            <6> QED
              BY <6>2, <6>3, <4>2 DEF told
          <5> QED
            BY <5>1, <4>2, <1>2, <1>4, <2>1, <2>3 DEF SegReport, Destroyed
        <4> QED
          BY <4>1, <4>2
      <3> QED
        BY <2>4, <2>5, <3>2, <3>3 DEF SegReport
    <2> QED
      BY <2>6, <2>7
  <1>11. ASSUME NEW u \in Workers
         PROVE  Watch(u)'
    <2>1. Watch(u) /\ nattach \in [Workers -> Int]
      BY DEF SysVInv, SysVTypes
    <2>2. CASE u = t
      BY <1>3, <1>5, <1>6, <2>2 DEF Watch, Moves, Kind
    <2>3. CASE u # t /\ Kind(u) \notin {"control", "rmid", "detach"}
      BY <1>3, <2>3 DEF Watch, Moves, Kind
    <2>4. CASE u # t /\ Kind(u) \in {"control", "rmid", "detach"}
      <3>1. SegAt(u) \in Segments
        BY <2>4, BusyFits DEF SysVInv, Fits
      <3>2. nattach'[u] = nattach[u] /\ KindOf(prog'[u]) = Kind(u) /\ SegOf(prog'[u]) = SegAt(u)
        BY <1>2, <1>3, <2>1, <2>4 DEF Moves, Kind, SegAt
      <3>3. SegAt(u) \notin overtaken' =>
                /\ SegAt(u) \notin overtaken /\ seg'[SegAt(u)] = seg[SegAt(u)]
                /\ SegAt(u) \in dest' <=> SegAt(u) \in dest
        BY <1>4, <2>4, <3>1
      <3> QED
        BY <1>2, <2>1, <3>2, <3>3 DEF Watch, Kind, SegAt, Nattch
    <2> QED
      BY <2>2, <2>3, <2>4
  <1> QED
    BY <1>7, <1>8, <1>9, <1>10, <1>11 DEF SysVInv
LEMMA PairJoined ==
    ASSUME NEW x, NEW y
    PROVE  <<x>> \o <<y>> = <<x, y>>
  <1> DEFINE X == {x, y}
  <1>1. <<x>> \in Seq(X) /\ <<y>> \in Seq(X) /\ <<x, y>> \in Seq(X)
    OBVIOUS
  <1> HIDE DEF X
  <1>2. /\ <<x>> \o <<y>> \in Seq(X) /\ Len(<<x>> \o <<y>>) = 2
        /\ \A i \in 1..2 : (<<x>> \o <<y>>)[i] = <<x, y>>[i]
    BY <1>1, ConcatProperties
  <1> QED
    BY <1>1, <1>2, SeqEqual

LEMMA DetachKeeps ==
    ASSUME SysVInv, NEW t \in Workers, NEW s, s = SegAt(t), NEW a, a = Place(t), S!DetachStep(t)
    PROVE  SysVInv'
  <1> DEFINE told == nattach[t] = 1
             l == IF told THEN "parting" ELSE "detached"
  <1>1. /\ prog[t] # <<>> /\ Head(prog[t]).seg = s /\ Head(prog[t]).at = a /\ Kind(t) = "detach"
        /\ s \in Segments /\ a \in Places
    BY DoingKind DEF SysVInv, Fits, PlaceKinds, InsideKinds, S!DetachStep
  <1>2. /\ UNCHANGED <<dest, outer, addr2shmid, leaks, gets, untold>>
        /\ nattach' = [nattach EXCEPT ![t] = -1]
        /\ at' = [at EXCEPT ![a] = NoSeg]
        /\ seg' = S!Reaped(dest, at', outer)
        /\ S!Overtake(t, s)
        /\ S!Continue(t, <<S!Step("detached", s, a)>> \o
                            (IF told THEN <<S!Step("gone", s, S!NoSeg)>> ELSE <<>>))
    BY <1>1 DEF S!DetachStep, NoSeg
  <1>3. Moves(t, l, s, a)
    <2>1. Tail(prog[t]) = <<>>
      BY <1>1, ProgHead DEF SysVInv, SysVTypes, Kind
    <2>2. Prog(l, s, a) = <<S!Step("detached", s, a)>> \o
                            (IF told THEN <<S!Step("gone", s, S!NoSeg)>> ELSE <<>>)
      <3>1. CASE told
        <4>1. Prog(l, s, a) = <<S!Step("detached", s, a), S!Step("gone", s, S!NoSeg)>>
          BY <3>1 DEF Prog, NoSeg
        <4> QED
          BY <3>1, <4>1, PairJoined
      <3>2. CASE ~told
        <4>1. Prog(l, s, a) = <<S!Step("detached", s, a)>>
          BY <3>2 DEF Prog
        <4>2. \A x : <<x>> \o <<>> = <<x>>
          OBVIOUS
        <4> QED
          BY <3>2, <4>1, <4>2
      <3> QED
        BY <3>1, <3>2
    <2>3. Prog(l, s, a) \o <<>> = Prog(l, s, a)
      <3>1. CASE told
        <4>1. Prog(l, s, a) = <<S!Step("detached", s, a), S!Step("gone", s, S!NoSeg)>>
          BY <3>1 DEF Prog, NoSeg
        <4>2. \A x, y : <<x, y>> \o <<>> = <<x, y>>
          OBVIOUS
        <4> QED
          BY <4>1, <4>2
      <3>2. CASE ~told
        <4>1. Prog(l, s, a) = <<S!Step("detached", s, a)>>
          BY <3>2 DEF Prog
        <4>2. \A x : <<x>> \o <<>> = <<x>>
          OBVIOUS
        <4> QED
          BY <4>1, <4>2
      <3> QED
        BY <3>1, <3>2
    <2>4. Fits(l, s, a)
      BY <1>1 DEF Fits, PlaceKinds, SegmentKinds, InsideKinds, DetachKinds
    <2> HIDE DEF l, told
    <2>5. prog' = [prog EXCEPT ![t] = Prog(l, s, a)]
      BY <1>2, <2>1, <2>2, <2>3 DEF S!Continue
    <2>6. /\ KindOf(Prog(l, s, a)) = l /\ SegOf(Prog(l, s, a)) = s /\ AtOf(Prog(l, s, a)) = a
          /\ WellFormed(Prog(l, s, a))
      BY <2>4, ProgView
    <2>7. Moves(t, KindOf(Prog(l, s, a)), SegOf(Prog(l, s, a)), AtOf(Prog(l, s, a)))
      BY <2>5, <2>6, Moved DEF SysVInv
    <2> QED
      BY <2>6, <2>7
  <1>4. at[a] = s /\ \A u \in Workers : u # t /\ Place(u) = a => Kind(u) \notin InsideKinds \cup DetachKinds
    BY <1>1 DEF SysVInv, PlacesApart, InsideKinds, DetachKinds
  <1>5. /\ at' \in [Places -> Segments \cup {NoSeg}] /\ at'[a] = NoSeg
        /\ \A b \in Places : b # a => at'[b] = at[b]
    BY <1>1, <1>2 DEF SysVInv, SysVTypes
  <1>6. \A r \in Segments : Nattch(r)' = IF r = s THEN Nattch(r) - 1 ELSE Nattch(r)
    <2>1. ASSUME NEW r \in Segments
          PROVE  /\ Nattch(r) = Cardinality(PlacesOf(r)) + outer[r] /\ IsFiniteSet(PlacesOf(r))
                 /\ Cardinality(PlacesOf(r)) \in Nat /\ outer[r] \in Nat /\ r # NoSeg
                 /\ Nattch(r)' = Cardinality(PlacesOf(r)') + outer'[r]
      <3>1. Nattch(r)' = Cardinality(PlacesOf(r)') + outer'[r]
        BY DEF Nattch, S!Attached, PlacesOf, S!Cardinality, Cardinality
      <3> QED
        BY <3>1, NattchType, SegmentFacts DEF SysVInv, SysVTypes
    <2>2. ASSUME NEW r \in Segments, r # s
          PROVE  Nattch(r)' = Nattch(r)
      <3>1. PlacesOf(r)' = PlacesOf(r)
        BY <1>4, <1>5, <2>1, <2>2 DEF PlacesOf
      <3> QED
        BY <1>2, <2>1, <3>1
    <2>3. Nattch(s)' = Nattch(s) - 1
      <3>1. PlacesOf(s)' = PlacesOf(s) \ {a} /\ a \in PlacesOf(s)
        BY <1>1, <1>4, <1>5, <2>1 DEF PlacesOf
      <3>2. Cardinality(PlacesOf(s)') = Cardinality(PlacesOf(s)) - 1
        BY <1>1, <2>1, <3>1, FS_RemoveElement
      <3>3. /\ Nattch(s) = Cardinality(PlacesOf(s)) + outer[s] /\ outer[s] \in Nat
            /\ Cardinality(PlacesOf(s)) \in Nat
            /\ Nattch(s)' = Cardinality(PlacesOf(s)') + outer'[s]
        BY <1>1, <2>1
      <3> QED
        BY <1>2, <3>2, <3>3
    <2> QED
      BY <2>2, <2>3
  <1>7. /\ seg' \in [Segments -> {"none", "own", "foreign", "gone"}]
        /\ seg'[s] = IF s \in dest /\ Nattch(s) - 1 = 0 THEN "gone" ELSE seg[s]
        /\ \A r \in Segments : r # s => seg'[r] = seg[r]
    <2>1. /\ seg' = S!Reaped(dest', at', outer') /\ dest' \subseteq dest \cup {s}
          /\ \A r \in Segments : r # s => Nattch(r)' = Nattch(r)
          /\ Nattch(s)' = Nattch(s) - 1
      BY <1>1, <1>2, <1>6
    <2>2. /\ seg' \in [Segments -> {"none", "own", "foreign", "gone"}]
          /\ seg'[s] = IF s \in dest' /\ Nattch(s)' = 0 THEN "gone" ELSE seg[s]
          /\ \A r \in Segments : r # s => seg'[r] = seg[r]
      BY <1>1, <2>1, ReapedFacts
    <2> QED
      BY <1>2, <2>1, <2>2
  <1>8. /\ overtaken \subseteq overtaken' /\ overtaken' \subseteq overtaken \cup {s}
        /\ \A u \in Workers : (u # t /\ Kind(u) \in {"control", "rmid", "detach"}
                                 /\ SegAt(u) = s) => s \in overtaken'
    BY <1>1, <1>2, OvertakeFacts DEF SysVInv
  <1>9. l = (IF told THEN "parting" ELSE "detached") /\ a # NoSeg /\ s # NoSeg
    BY <1>1, SysVAssumption, SegmentFacts DEF NoSeg
  <1> HIDE DEF told, l
  <1>10. SysVTypes'
    <2>1. nattach' \in [Workers -> Int]
      BY <1>2 DEF SysVInv, SysVTypes
    <2> QED
      BY <1>2, <1>3, <1>5, <1>7, <2>1 DEF SysVInv, SysVTypes, Moves
  <1>11. PlacesApart'
    <2>1. \A u \in Workers : Kind(u)' \in InsideKinds => u # t /\ Kind(u) \in InsideKinds /\ Place(u)' # a
      BY <1>3, <1>4, <1>9 DEF Moves, Kind, Place, InsideKinds
    <2>2. \A u \in Workers : Kind(u) \in InsideKinds => Place(u) \in Places
      BY BusyFits DEF SysVInv, Fits, PlaceKinds, InsideKinds
    <2>3. \A u \in Workers : Kind(u)' \in DetachKinds => Kind(u) \in DetachKinds
      BY <1>1, <1>3 DEF Moves, Kind, DetachKinds
    <2>4. \A u \in Workers : SegAt(u)' = SegAt(u) /\ Place(u)' = Place(u)
      BY <1>3 DEF Moves, SegAt, Place
    <2>5. \A u, v \in Workers : (u # v /\ Place(u)' = Place(v)') =>
                /\ ~(Kind(u)' \in InsideKinds /\ Kind(v)' \in InsideKinds)
                /\ ~(Kind(u)' \in DetachKinds /\ Kind(v)' \in DetachKinds)
      BY <2>1, <2>3, <2>4 DEF SysVInv, PlacesApart
    <2>6. ASSUME NEW u \in Workers, Kind(u)' \in InsideKinds
          PROVE  at'[Place(u)'] = SegAt(u)'
      BY <2>1, <2>2, <2>4, <2>6, <1>5 DEF SysVInv, PlacesApart
    <2> QED
      BY <2>5, <2>6 DEF PlacesApart
  <1>12. ASSUME NEW b \in Places
         PROVE  PlaceInv(b)'
    <2>1. PlaceInv(b)
      BY DEF SysVInv
    <2>2. CASE b = a
      <3>1. ~Attaching(a) /\ ~Leaving(a)
        BY <1>1, <1>4 DEF Attaching, Leaving, InsideKinds, DetachKinds
      <3>2. leaks'[<<"address", b>>].left >= 1
        BY <1>2, <1>4, <1>9, <2>1, <2>2, <3>1 DEF PlaceInv, PlaceCounted, Holds
      <3> QED
        BY <1>5, <2>2, <3>2 DEF PlaceInv, PlaceCounted, PlaceKnown, Holds
    <2>3. CASE b # a
      <3>1. (Attaching(b)' <=> Attaching(b)) /\ (Leaving(b)' <=> Leaving(b))
        BY <1>3, <2>3 DEF Attaching, Leaving, Moves, Kind, Place
      <3>2. at'[b] = at[b]
        BY <1>5, <2>3
      <3>3. at[b] # NoSeg => at[b] \in Segments /\ seg'[at[b]] = seg[at[b]]
        <4>1. ASSUME at[b] # NoSeg
              PROVE  at[b] \in Segments
          BY <4>1 DEF SysVInv, SysVTypes
        <4>2. ASSUME at[b] = s
              PROVE  Nattch(s) - 1 # 0
          <5>1. a \in PlacesOf(s) /\ b \in PlacesOf(s) \ {a}
            BY <4>2, <1>1, <1>4, <2>3 DEF PlacesOf
          <5>2. /\ Nattch(s) = Cardinality(PlacesOf(s)) + outer[s] /\ IsFiniteSet(PlacesOf(s))
                /\ Cardinality(PlacesOf(s)) \in Nat /\ outer[s] \in Nat
            BY <1>1, NattchType DEF SysVInv, SysVTypes
          <5>3. /\ IsFiniteSet(PlacesOf(s) \ {a})
                /\ Cardinality(PlacesOf(s) \ {a}) = Cardinality(PlacesOf(s)) - 1
                /\ Cardinality(PlacesOf(s) \ {a}) \in Nat
            BY FS_CardinalityType, <5>1, <5>2, FS_RemoveElement
          <5>4. Cardinality(PlacesOf(s) \ {a}) # 0
            BY <5>1, <5>3, FS_EmptySet
          <5> QED
            BY <5>2, <5>3, <5>4
        <4> QED
          BY <4>1, <4>2, <1>7
      <3>4. PlaceKnown(b)'
        BY <1>2, <1>3, <2>1, <2>3, <3>2, <3>3 DEF PlaceInv, PlaceKnown, Moves, Kind, Place
      <3> QED
        BY <1>2, <2>1, <3>1, <3>2, <3>3, <3>4 DEF PlaceInv, PlaceCounted, Holds, S!Exists
    <2> QED
      BY <2>2, <2>3
  <1>13. S!Exists(s)
    BY <1>1, <1>4, SegmentFacts
  <1>14. ASSUME NEW r \in Segments
         PROVE  SegLife(r)' /\ SegReport(r)'
    <2>1. /\ SegLife(r) /\ SegReport(r) /\ r # NoSeg /\ Refs(r) \in Nat /\ Nattch(r) \in Nat
          /\ Refs(r)' = Refs(r) /\ gets[r] \in Nat
      BY <1>2, SegmentFacts DEF Refs
    <2>2. Nattch(r)' = IF r = s THEN Nattch(r) - 1 ELSE Nattch(r)
      BY <1>6
    <2>3. /\ Getting(r)' <=> Getting(r)
          /\ Untouched(r) => Untouched(r)'
      BY <1>1, <1>3, <1>5, <1>9, <2>1 DEF Getting, Untouched, Moves, Kind, SegAt
    <2>4. r # s \/ ~told => (GoneBy(r)' <=> GoneBy(r))
      BY <1>1, <1>3, <1>9 DEF GoneBy, Moves, Kind, SegAt
    <2>5. SegLife(r)'
      <3>1. Nattch(s) >= 1
        BY <1>1, <1>4, SegmentFacts
      <3>2. CASE r # s
        BY <1>2, <1>7, <2>1, <2>2, <2>3, <3>2 DEF SegLife, S!Private
      <3>3. CASE r = s
        <4>1. /\ Nattch(r)' = Nattch(r) - 1 /\ Nattch(r) >= 1 /\ S!Exists(r)
              /\ seg'[r] = IF r \in dest /\ Nattch(r) - 1 = 0 THEN "gone" ELSE seg[r]
          BY <1>7, <1>13, <2>2, <3>1, <3>3
        <4> QED
          BY <1>2, <2>1, <2>3, <4>1 DEF SegLife, S!Private, S!Exists
      <3> QED
        BY <3>2, <3>3
    <2>6. GotOnce(r)'
      <3>1. \A u \in Workers : Kind(u)' = "got" => Kind(u) = "got" /\ u # t
        BY <1>3, <1>9 DEF Moves, Kind
      <3>2. \A u \in Workers : SegAt(u)' = SegAt(u)
        BY <1>3 DEF Moves, SegAt
      <3>3. \A b \in Places : at[b] # r => at'[b] # r
        BY <1>5, <2>1
      <3>4. r # s => seg'[r] = seg[r]
        BY <1>7
      <3>5. SegAt(t) = s
        OBVIOUS
      <3> QED
        BY <1>1, <1>2, <2>1, <3>1, <3>2, <3>3, <3>4, <3>5 DEF SegReport, GotOnce
    <2>7. CASE r # s
      BY <1>2, <1>7, <1>8, <2>1, <2>3, <2>4, <2>5, <2>6, <2>7 DEF SegReport, Alive, Destroyed
    <2>8. CASE r = s
      <3>1. Watch(t) /\ SegAt(t) = s
        BY DEF SysVInv
      <3>2. Alive(r)'
        <4>1. ASSUME seg'[r] = "own", r \notin overtaken'
              PROVE  ~told
          <5>1. seg[s] = "own" /\ s \notin overtaken
            BY <4>1, <2>8, <1>7, <1>8
          <5>2. told => s \in dest /\ Nattch(s) = 1
            BY <5>1, <3>1, <1>1 DEF Watch, told
          <5> QED
            BY <5>2, <4>1, <2>8, <1>7
        <4> QED
          BY <4>1, <1>2, <1>7, <1>8, <2>1, <2>3, <2>4, <2>8 DEF SegReport, Alive
      <3>3. Destroyed(r)'
        <4>1. CASE told
          <5>1. GoneBy(r)'
            BY <4>1, <1>3, <1>9, <2>8 DEF GoneBy, Moves, Kind, SegAt
          <5> QED
            BY <5>1 DEF Destroyed
        <4>2. CASE ~told
          <5>1. ASSUME r \notin overtaken' \cup untold', seg'[r] = "gone"
                PROVE  FALSE
            <6>1. s \in dest /\ Nattch(s) = 1 /\ s \notin overtaken /\ seg[s] = "own"
              <7>1. /\ s \notin overtaken /\ s \notin untold /\ seg'[s] = "gone"
                    /\ seg[s] \in {"own", "foreign"} /\ Nattch(s) \in Nat /\ SegLife(s)
                BY <5>1, <2>8, <2>1, <1>2, <1>8, <1>13 DEF S!Exists
              <7>2. s \in dest /\ Nattch(s) - 1 = 0
                BY <7>1, <1>7
              <7> QED
                BY <7>1, <7>2 DEF SegLife, S!Private
            <6>2. nattach[t] = 1
              BY <6>1, <3>1, <1>1 DEF Watch
            <6> QED
              BY <6>2, <4>2 DEF told
          <5> QED
            BY <5>1 DEF Destroyed
        <4> QED
          BY <4>1, <4>2
      <3> QED
        BY <2>5, <2>6, <3>2, <3>3 DEF SegReport
    <2> QED
      BY <2>7, <2>8
  <1>15. ASSUME NEW u \in Workers
         PROVE  Watch(u)'
    <2>1. Watch(u) /\ nattach \in [Workers -> Int]
      BY DEF SysVInv, SysVTypes
    <2>2. CASE u = t
      BY <1>3, <1>9, <2>2 DEF Watch, Moves, Kind
    <2>3. CASE u # t /\ Kind(u) \notin {"control", "rmid", "detach"}
      BY <1>3, <2>3 DEF Watch, Moves, Kind
    <2>4. CASE u # t /\ Kind(u) \in {"control", "rmid", "detach"}
      <3>1. SegAt(u) \in Segments
        BY <2>4, BusyFits DEF SysVInv, Fits
      <3>2. nattach'[u] = nattach[u] /\ KindOf(prog'[u]) = Kind(u) /\ SegOf(prog'[u]) = SegAt(u)
        BY <1>2, <1>3, <2>1, <2>4 DEF Moves, Kind, SegAt
      <3>3. SegAt(u) \notin overtaken' =>
                /\ SegAt(u) \notin overtaken /\ seg'[SegAt(u)] = seg[SegAt(u)]
                /\ S!Attached(SegAt(u), at', outer') = Nattch(SegAt(u))
        <4>1. \A r \in Segments : r # s => S!Attached(r, at', outer') = Nattch(r)
          BY <1>6 DEF Nattch
        <4> QED
          BY <4>1, <1>7, <1>8, <2>4, <3>1
      <3> QED
        BY <1>2, <2>1, <3>2, <3>3 DEF Watch, Kind, SegAt, Nattch
    <2> QED
      BY <2>2, <2>3, <2>4
  <1> QED
    BY <1>10, <1>11, <1>12, <1>14, <1>15 DEF SysVInv
LEMMA OtherProcessKeeps ==
    ASSUME SysVInv, NEW s \in Segments, S!OtherProcess(s)
    PROVE  SysVInv'
  <1>1. /\ S!Exists(s) /\ UNCHANGED <<at, addr2shmid, prog, nattach, leaks, gets>>
        /\ seg' = S!Reaped(dest', at, outer') /\ S!Overtake(NoSeg, s)
        /\ untold' = IF seg'[s] = "gone" THEN untold \cup {s} ELSE untold
        /\ dest' \subseteq dest \cup {s} /\ dest \subseteq dest'
        /\ outer' \in [Segments -> Nat] /\ \A r \in Segments : r # s => outer'[r] = outer[r]
    BY DEF S!OtherProcess, NoSeg, SysVInv, SysVTypes
  <1>2. ASSUME NEW r \in Segments, r # s
        PROVE  Nattch(r)' = Nattch(r)
    BY <1>1, <1>2 DEF Nattch, S!Attached
  <1>3. Nattch(s)' \in Nat /\ \A a \in Places : at[a] = s => Nattch(s)' >= 1
    <2>1. Nattch(s)' = Cardinality(PlacesOf(s)) + outer'[s]
      BY <1>1 DEF Nattch, S!Attached, PlacesOf, S!Cardinality, Cardinality
    <2>2. outer'[s] \in Nat /\ Cardinality(PlacesOf(s)) \in Nat /\ IsFiniteSet(PlacesOf(s))
      BY <1>1, NattchType DEF SysVInv
    <2>3. ASSUME NEW a \in Places, at[a] = s
          PROVE  Cardinality(PlacesOf(s)) # 0
      BY <2>3, <2>2, FS_EmptySet DEF PlacesOf
    <2> QED
      BY <2>1, <2>2, <2>3
  <1>4. /\ seg' \in [Segments -> {"none", "own", "foreign", "gone"}]
        /\ seg'[s] = IF s \in dest' /\ Nattch(s)' = 0 THEN "gone" ELSE seg[s]
        /\ \A r \in Segments : r # s => seg'[r] = seg[r]
    BY <1>1, <1>2, ReapedFacts
  <1>5. /\ overtaken \subseteq overtaken' /\ overtaken' \subseteq overtaken \cup {s}
        /\ \A u \in Workers : (Kind(u) \in {"control", "rmid", "detach"} /\ SegAt(u) = s)
                => s \in overtaken'
    <2>1. \A u \in Workers : u # NoSeg
      BY SysVAssumption DEF NoSeg
    <2> QED
      BY <1>1, <2>1, OvertakeFacts DEF SysVInv
  <1>6. \A u \in Workers : Kind(u)' = Kind(u) /\ SegAt(u)' = SegAt(u) /\ Place(u)' = Place(u)
    BY <1>1 DEF Kind, SegAt, Place
  <1>7. SysVTypes'
    BY <1>1, <1>4 DEF SysVInv, SysVTypes
  <1>8. PlacesApart'
    BY <1>1, <1>6 DEF SysVInv, PlacesApart
  <1>9. ASSUME NEW b \in Places
        PROVE  PlaceInv(b)'
    <2>1. PlaceInv(b)
      BY DEF SysVInv
    <2>2. (Attaching(b)' <=> Attaching(b)) /\ (Leaving(b)' <=> Leaving(b))
      BY <1>6 DEF Attaching, Leaving
    <2>3. at[b] # NoSeg => at[b] \in Segments /\ seg'[at[b]] = seg[at[b]]
      BY <1>3, <1>4 DEF SysVInv, SysVTypes
    <2>4. PlaceKnown(b)'
      BY <1>1, <1>6, <2>1, <2>3 DEF PlaceInv, PlaceKnown
    <2> QED
      BY <1>1, <2>1, <2>2, <2>3, <2>4 DEF PlaceInv, PlaceCounted, Holds, S!Exists
  <1>10. ASSUME NEW r \in Segments
         PROVE  SegLife(r)' /\ SegReport(r)'
    <2>1. /\ SegLife(r) /\ SegReport(r) /\ Refs(r)' = Refs(r)
      BY <1>1, SegmentFacts DEF Refs
    <2>2. /\ (Getting(r)' <=> Getting(r)) /\ (GoneBy(r)' <=> GoneBy(r))
          /\ Untouched(r)' <=> Untouched(r)
      BY <1>1, <1>6 DEF Getting, GoneBy, Untouched
    <2>3. CASE r # s
      <3>1. /\ seg'[r] = seg[r] /\ Nattch(r)' = Nattch(r) /\ (r \in dest' <=> r \in dest)
            /\ (r \in untold' <=> r \in untold) /\ (r \in overtaken' <=> r \in overtaken)
        BY <2>3, <1>1, <1>2, <1>4, <1>5
      <3>2. SegLife(r)'
        BY <1>1, <2>1, <2>2, <3>1 DEF SegLife, S!Private
      <3>3. GotOnce(r)'
        BY <1>1, <1>6, <2>1, <3>1 DEF SegReport, GotOnce
      <3> QED
        BY <1>1, <2>1, <2>2, <3>1, <3>2, <3>3 DEF SegReport, Alive, Destroyed
    <2>4. CASE r = s
      <3>1. /\ seg'[r] # "gone" => seg'[r] = seg[r] /\ untold' = untold
            /\ seg'[r] = "gone" => r \in untold'
            /\ S!Exists(r) /\ (r \notin overtaken' => r \notin overtaken)
            /\ (r \in dest' /\ seg'[r] # "gone") => Nattch(r)' # 0
        BY <2>4, <1>1, <1>4, <1>5
      <3>2. Nattch(r)' \in Nat
        BY <2>4, <1>3
      <3>3. SegLife(r)'
        BY <1>1, <2>1, <2>2, <3>1, <3>2 DEF SegLife, S!Private, S!Exists
      <3>4. GotOnce(r)'
        BY <1>1, <1>6, <2>1, <3>1 DEF SegReport, GotOnce
      <3> QED
        BY <1>1, <2>1, <2>2, <3>1, <3>3, <3>4 DEF SegReport, Alive, Destroyed
    <2> QED
      BY <2>3, <2>4
  <1>11. ASSUME NEW u \in Workers
         PROVE  Watch(u)'
    <2>1. Watch(u)
      BY DEF SysVInv
    <2>2. CASE Kind(u) \notin {"control", "rmid", "detach"}
      BY <1>6, <2>2 DEF Watch
    <2>3. CASE Kind(u) \in {"control", "rmid", "detach"}
      <3>1. SegAt(u) \in Segments
        BY <2>3, BusyFits DEF SysVInv, Fits
      <3>2. \A r \in Segments : r # s => S!Attached(r, at', outer') = Nattch(r)
        BY <1>2 DEF Nattch
      <3>3. SegAt(u) \notin overtaken' =>
                /\ SegAt(u) \notin overtaken /\ seg'[SegAt(u)] = seg[SegAt(u)]
                /\ SegAt(u) \in dest' <=> SegAt(u) \in dest
                /\ S!Attached(SegAt(u), at', outer') = Nattch(SegAt(u))
        BY <1>1, <1>4, <1>5, <2>3, <3>1, <3>2
      <3> QED
        BY <1>1, <1>6, <2>1, <3>3 DEF Watch, Nattch
    <2> QED
      BY <2>2, <2>3
  <1> QED
    BY <1>7, <1>8, <1>9, <1>10, <1>11 DEF SysVInv

LEMMA SysVKeeps ==
    ASSUME SysVInv, S!Next
    PROVE  SysVInv'
  <1>1. ASSUME NEW s \in Segments, S!OtherProcess(s) PROVE SysVInv'
    BY <1>1, OtherProcessKeeps
  <1>2. ASSUME NEW t \in Workers, S!ReportStep(t) PROVE SysVInv'
    BY <1>2, GotKeeps, ControlKeeps, AttachedKeeps, DetachedKeeps, GoneKeeps DEF S!ReportStep
  <1>3. ASSUME NEW t \in Workers, S!StatStep(t) PROVE SysVInv'
    <2>1. S!Doing(t, "stat") \/ S!Doing(t, "find")
      BY <1>3 DEF S!StatStep
    <2> QED
      BY <1>3, <2>1, StatKeeps, FindKeeps
  <1>4. ASSUME NEW t \in Workers, S!MapStep(t) PROVE SysVInv'
    BY <1>4, MapKeeps
  <1>5. ASSUME NEW t \in Workers, S!RmidStep(t) PROVE SysVInv'
    <2>1. PICK s : s = SegAt(t)
      OBVIOUS
    <2> QED
      BY <1>5, <2>1, RmidKeeps
  <1>6. ASSUME NEW t \in Workers, S!DetachStep(t) PROVE SysVInv'
    <2>1. PICK s : s = SegAt(t)
      OBVIOUS
    <2>2. PICK a : a = Place(t)
      OBVIOUS
    <2> QED
      BY <1>6, <2>1, <2>2, DetachKeeps
  <1>7. ASSUME NEW t \in Workers, NEW s \in Segments,
               S!Shmget(t, s) \/ S!ShmgetPrivate(t, s) \/ S!ShmctlRmid(t, s)
        PROVE  SysVInv'
    BY <1>7, ShmgetKeeps, ShmgetPrivateKeeps, ShmctlKeeps
  <1>8. ASSUME NEW t \in Workers, NEW s \in Segments, NEW a \in Places, S!Shmat(t, s, a)
        PROVE  SysVInv'
    BY <1>8, ShmatKeeps
  <1>9. ASSUME NEW t \in Workers, NEW a \in Places, S!Shmdt(t, a)
        PROVE  SysVInv'
    BY <1>9, ShmdtKeeps
  <1> QED
    BY <1>1, <1>2, <1>3, <1>4, <1>5, <1>6, <1>7, <1>8, <1>9 DEF S!Next

LEMMA SysVReported ==
    ASSUME SysVInv
    PROVE  S!SegmentIsReported /\ S!DestroyedIsNotReported /\ S!AttachedIsReported
  <1>1. S!SegmentIsReported
    <2>1. ASSUME NEW s \in Segments \ overtaken, seg[s] = "own", S!Settled(s)
          PROVE  leaks[<<"segment", s>>].left = IF S!Private(s) THEN 0 ELSE 1
      <3>1. SegLife(s) /\ SegReport(s) /\ \A t \in Workers : SegAt(t) # s
        BY <2>1, SegmentFacts, SegmentSettled DEF SysVInv
      <3> QED
        BY <2>1, <3>1 DEF SegLife, SegReport, Alive, Getting, S!Private
    <2> QED
      BY <2>1 DEF S!SegmentIsReported
  <1>2. S!DestroyedIsNotReported
    <2>1. ASSUME NEW s \in Segments \ (overtaken \cup untold), seg[s] = "gone", gets[s] = 1,
                 S!Settled(s)
          PROVE  leaks[<<"segment", s>>].left = 0
      <3>1. SegLife(s) /\ SegReport(s) /\ \A t \in Workers : SegAt(t) # s
        BY <2>1, SegmentFacts, SegmentSettled DEF SysVInv
      <3> QED
        BY <2>1, <3>1 DEF SegLife, S!Private, SegReport, Destroyed, GoneBy
    <2> QED
      BY <2>1 DEF S!DestroyedIsNotReported
  <1>3. S!AttachedIsReported
    <2>1. ASSUME NEW a \in Places, at[a] # NoSeg, ~S!Busy(a)
          PROVE  /\ leaks[<<"address", a>>].left >= 1
                 /\ (seg[at[a]] = "own") => addr2shmid[a] = at[a]
      <3>1. PlaceInv(a) /\ \A t \in Workers : Place(t) # a
        BY <2>1, PlaceBusy DEF SysVInv
      <3> QED
        BY <2>1, <3>1 DEF PlaceInv, PlaceCounted, PlaceKnown, Holds, Attaching
    <2> QED
      BY <2>1 DEF S!AttachedIsReported, NoSeg
  <1> QED
    BY <1>1, <1>2, <1>3

(* In every interleaving of the wrappers with each other and with the      *)
(* calls of other processes, for any number of threads, segments and       *)
(* addresses: an own segment made with IPC_CREAT is in the report while it *)
(* exists and, if it was got once, not after it was destroyed, and one     *)
(* made without the flag never is, unless somebody changed the attachments *)
(* between the library's look at them (shmctl, shmdt) and its call; and    *)
(* every attached address is in the report and in addr2shmid.              *)
THEOREM SysVReport == MCSpec => []SegmentsAreReported
  <1> DEFINE I == api = "sysv" => SysVInv
  <1>1. MCInit => I
    BY SysVInitial DEF MCInit
  <1>2. I /\ [MCNext]_<<vars, svars, api>> => I'
    <2> SUFFICES ASSUME I, [MCNext]_<<vars, svars, api>>, api' = "sysv"
                 PROVE  SysVInv'
      OBVIOUS
    <2>1. CASE MCNext
      BY <2>1, SysVKeeps DEF MCNext
    <2>2. CASE UNCHANGED <<vars, svars, api>>
      <3>1. SysVInv /\ UNCHANGED <<seg, dest, at, outer, addr2shmid, prog, nattach, leaks, gets, overtaken,
                      untold>>
        BY <2>2 DEF svars
      <3> QED
        BY <3>1 DEF SysVInv, SysVTypes, PlacesApart, PlaceInv, PlaceCounted, PlaceKnown, Holds,
             Attaching, Leaving, S!Exists, SegLife, S!Private, SegReport, Alive, GotOnce, Destroyed, Watch,
             Nattch, Refs, Getting, GoneBy, Untouched, Kind, SegAt, Place
    <2> QED
      BY <2>1, <2>2
  <1>3. I => SegmentsAreReported
    BY SysVReported DEF SegmentsAreReported
  <1> QED
    BY <1>1, <1>2, <1>3, PTL DEF MCSpec

(***************************************************************************)
(* The POSIX library.  Again a thread's program is known from what it does *)
(* next; "creat", "hash" and "object" are the parts of shm_open with       *)
(* O_CREAT, "open" that of shm_open without it, "fd" the end of both.      *)
(***************************************************************************)
OpenKinds == {"creat", "hash", "object", "open", "fd", "file"}
MapKinds  == {"map", "mapped"}
NewKinds  == {"creat", "hash", "object"}
OldKinds  == {"unhash", "unobject"}

PProg(k, f, n, a) ==
    CASE k = "creat"    -> <<StoreFd(f, "posix"), FindHash(n), TellObject("alloc", n), TellFd(f)>>
      [] k = "hash"     -> <<FindHash(n), TellObject("alloc", n), TellFd(f)>>
      [] k = "object"   -> <<TellObject("alloc", n), TellFd(f)>>
      [] k = "open"     -> <<StoreFd(f, "posix"), TellFd(f)>>
      [] k = "fd"       -> <<TellFd(f)>>
      [] k = "file"     -> <<StoreFd(f, "file")>>
      [] k = "unhash"   -> <<FindHash(n), TellObject("free", n)>>
      [] k = "unobject" -> <<TellObject("free", n)>>
      [] k = "map"      -> <<StoreAddr(a, f), TellMap("alloc", a, f)>>
      [] k = "mapped"   -> <<TellMap("alloc", a, f)>>
      [] k = "unmap"    -> <<TellMap("free", a, NoFd)>>
      [] OTHER          -> <<TellClose(f)>>

PKindOf(p) ==
    CASE p = <<>> -> "idle"
      [] p # <<>> /\ p[1].do = "fdreg_store_fd" ->
            IF p[1].type = "file" THEN "file" ELSE IF Len(p) = 2 THEN "open" ELSE "creat"
      [] p # <<>> /\ p[1].do = "hash"       -> IF Len(p) = 3 THEN "hash" ELSE "unhash"
      [] p # <<>> /\ p[1].do = "object"     -> IF Len(p) = 2 THEN "object" ELSE "unobject"
      [] p # <<>> /\ p[1].do = "addr_store" -> "map"
      [] p # <<>> /\ p[1].do = "map"        -> IF p[1].call = "alloc" THEN "mapped" ELSE "unmap"
      [] OTHER                              -> p[1].do

PFdOf(p) ==
    CASE PKindOf(p) \in {"creat", "open", "fd", "file", "map", "mapped", "close"} -> p[1].fd
      [] PKindOf(p) = "hash"   -> p[3].fd
      [] PKindOf(p) = "object" -> p[2].fd
      [] OTHER                 -> NoFd

PNameOf(p) ==
    CASE PKindOf(p) \in {"hash", "object", "unhash", "unobject"} -> p[1].name
      [] PKindOf(p) = "creat" -> p[2].name
      [] OTHER                -> NoFd

PAtOf(p) == IF PKindOf(p) \in {"map", "mapped", "unmap"} THEN p[1].at ELSE NoFd

PFits(k, f, n, a) ==
    /\ k \in OpenKinds \cup MapKinds \cup OldKinds \cup {"unmap", "close"}
    /\ k \in OpenKinds \cup {"close"} => f \in Fds
    /\ k \in MapKinds => f \in Fds \cup {NoFd}
    /\ k \in OldKinds \cup {"unmap"} => f = NoFd
    /\ IF k \in NewKinds \cup OldKinds THEN n \in Names ELSE n = NoFd
    /\ IF k \in MapKinds \cup {"unmap"} THEN a \in Addrs ELSE a = NoFd

PWell(p) == p # <<>> =>
    /\ PFits(PKindOf(p), PFdOf(p), PNameOf(p), PAtOf(p))
    /\ p = PProg(PKindOf(p), PFdOf(p), PNameOf(p), PAtOf(p))

PKind(t) == PKindOf(todo[t])
PFd(t)   == PFdOf(todo[t])
PName(t) == PNameOf(todo[t])
PAt(t)   == PAtOf(todo[t])

Opening(t, f)   == PKind(t) \in OpenKinds /\ PFd(t) = f
ClosingBy(t, f) == PKind(t) = "close" /\ PFd(t) = f
Mapping(t, a)   == PKind(t) \in MapKinds /\ PAt(t) = a
Unmappers(a)    == {t \in Threads : PKind(t) = "unmap" /\ PAt(t) = a}

PosixTypes ==
    /\ kfd \in [Fds -> {"free", "posix", "file", "other"}]
    /\ kmap \in [Addrs -> {"free", "posix", "file", "other", "anon"}]
    /\ kobj \subseteq Names
    /\ fdreg \in [Fds -> FdTypes]
    /\ addr \in [Addrs -> Fds \cup {NoFd}]
    /\ nreg \in [Names -> Ids \cup {NoId}] /\ newid \in [Threads -> Ids \cup {NoId}]
    /\ DOMAIN todo = Threads /\ \A t \in Threads : PWell(todo[t])
    /\ filter \in [Keys -> [left : Nat, refs : {0, 1}]]
    /\ \A k \in Keys : filter[k].refs = 1 => filter[k].left > 0

FdEntry(f) == filter[<<"pshmfd", f>>]

(***************************************************************************)
(* A descriptor: busy while one thread opens it.  If it was not given out  *)
(* while its close was unreported, the report is right when nobody is at   *)
(* it, and while the close is unreported the registry knows its type.      *)
(***************************************************************************)
FdExact(f) ==
    /\ f \in busy =>
        /\ FdEntry(f).left = 0 /\ \A t \in Threads : ~ClosingBy(t, f)
        /\ \A t \in Threads : (Opening(t, f) /\ PKind(t) \in {"hash", "object", "fd"})
                                => fdreg[f] = "posix"
    /\ (f \notin busy /\ kfd[f] = "posix") =>
        /\ FdEntry(f) = [left |-> 1, refs |-> 1] /\ fdreg[f] = "posix"
        /\ \A t \in Threads : ~ClosingBy(t, f)
    /\ (f \notin busy /\ kfd[f] = "file") =>
        FdEntry(f).left = 0 /\ \A t \in Threads : ~ClosingBy(t, f)
    /\ (f \notin busy /\ kfd[f] \in {"free", "other"}) =>
        \/ FdEntry(f).left = 0
        \/ /\ FdEntry(f) = [left |-> 1, refs |-> 1] /\ fdreg[f] = "posix"
           /\ \E t \in Threads : ClosingBy(t, f)

FdInv(f) ==
    /\ f \in busy <=> \E t \in Threads : Opening(t, f)
    /\ \A t \in Threads : Opening(t, f) =>
            /\ kfd[f] = IF PKind(t) = "file" THEN "file" ELSE "posix"
            /\ \A u \in Threads : Opening(u, f) => u = t
    /\ f \notin raced => FdExact(f)

(***************************************************************************)
(* An address.  The report holds a call for the mapping and for each       *)
(* munmap that is not reported yet; it is exact unless the address was     *)
(* given out too early or its descriptor registered with another type.     *)
(***************************************************************************)
MapLeft(m, a) == filter[<<m, a>>].left
Lefts(a)      == MapLeft("pshmmap", a) + MapLeft("fshmmap", a) + MapLeft("shmmap", a)
Live(a)       == kmap[a] # "free" /\ a \notin busy

MapExact(a) ==
    /\ kmap[a] # "free" => Unmappers(a) = {}
    /\ \A t, u \in Unmappers(a) : t = u
    /\ a \in busy =>
        /\ \A m \in MapTypes : MapLeft(m, a) = 0
        /\ \A t \in Threads : (Mapping(t, a) /\ PKind(t) = "mapped") => addr[a] = PFd(t)
    /\ (Live(a) \/ Unmappers(a) # {}) => \A m \in MapTypes :
            filter[<<m, a>>] = IF m = MapType(addr[a]) THEN [left |-> 1, refs |-> 1]
                                                       ELSE [left |-> 0, refs |-> 0]
    /\ (kmap[a] = "free" /\ Unmappers(a) = {}) => \A m \in MapTypes : MapLeft(m, a) = 0

MapInv(a) ==
    /\ a \in busy <=> \E t \in Threads : Mapping(t, a)
    /\ \A t \in Threads : Mapping(t, a) =>
            kmap[a] # "free" /\ \A u \in Threads : Mapping(u, a) => u = t
    /\ Lefts(a) >= Cardinality(Unmappers(a)) + (IF Live(a) THEN 1 ELSE 0)
    /\ a \notin raced \cup confused => MapExact(a)

(***************************************************************************)
(* Objects and their ids.  Makers and enders are the threads that have not *)
(* reported a creation or a removal yet.  A name without an id has no call *)
(* in the trace, so at least as many makers as it needs; an id has as many *)
(* calls in the report as its names need beyond their makers.              *)
(***************************************************************************)
Makers(n) == {t \in Threads : PKind(t) \in NewKinds /\ PName(t) = n}
Enders(n) == {t \in Threads : PKind(t) \in OldKinds /\ PName(t) = n}
Makes(i)  == {t \in Threads : PKind(t) \in NewKinds /\ nreg[PName(t)] = i}
Ends(i)   == {t \in Threads : PKind(t) \in OldKinds /\ nreg[PName(t)] = i}
Alike(i)  == {n \in kobj : nreg[n] = i}

NameInv(n) ==
    nreg[n] = NoId =>
        Cardinality(Makers(n)) >= Cardinality(Enders(n)) + (IF n \in kobj THEN 1 ELSE 0)

IdInv(i) ==
    filter[<<"pshmobj", i>>].left + Cardinality(Makes(i)) >=
        Cardinality(Alike(i)) + Cardinality(Ends(i))

NewIds ==
    \A t \in Threads :
        /\ PKind(t) \notin {"object", "unobject"} => newid[t] = NoId
        /\ (PKind(t) \in {"object", "unobject"} /\ nreg[PName(t)] = NoId) => newid[t] # NoId

Apart ==
    ~clashed =>
        /\ \A t, u \in Threads : (newid[t] # NoId /\ newid[u] # NoId) => t = u
        /\ \A t \in Threads, m \in Names : newid[t] # NoId => nreg[m] # newid[t]
        /\ DistinctIds

PosixInv ==
    /\ PosixTypes
    /\ \A f \in Fds : FdInv(f)
    /\ \A a \in Addrs : MapInv(a)
    /\ \A n \in Names : NameInv(n)
    /\ \A i \in Ids : IdInv(i)
    /\ NewIds
    /\ Apart

LEMMA PIdle ==
    /\ PKindOf(<<>>) = "idle" /\ PFdOf(<<>>) = NoFd /\ PNameOf(<<>>) = NoFd
    /\ PAtOf(<<>>) = NoFd /\ PWell(<<>>)
  BY DEF PKindOf, PFdOf, PNameOf, PAtOf, PWell

LEMMA PProgView ==
    ASSUME NEW k, NEW f, NEW n, NEW a, PFits(k, f, n, a), NEW p, p = PProg(k, f, n, a)
    PROVE  /\ p # <<>> /\ PKindOf(p) = k /\ PFdOf(p) = f /\ PNameOf(p) = n /\ PAtOf(p) = a
           /\ PWell(p)
  <1> USE DEF PFits, OpenKinds, MapKinds, NewKinds, OldKinds
  <1>1. p # <<>> /\ PKindOf(p) = k
    <2>1. CASE k = "creat"
      BY <2>1 DEF PProg, PKindOf, StoreFd
    <2>2. CASE k = "hash"
      BY <2>2 DEF PProg, PKindOf, FindHash
    <2>3. CASE k = "object"
      BY <2>3 DEF PProg, PKindOf, TellObject
    <2>4. CASE k = "open"
      BY <2>4 DEF PProg, PKindOf, StoreFd
    <2>5. CASE k = "fd"
      BY <2>5 DEF PProg, PKindOf, TellFd
    <2>6. CASE k = "file"
      BY <2>6 DEF PProg, PKindOf, StoreFd
    <2>7. CASE k = "unhash"
      BY <2>7 DEF PProg, PKindOf, FindHash
    <2>8. CASE k = "unobject"
      BY <2>8 DEF PProg, PKindOf, TellObject
    <2>9. CASE k = "map"
      BY <2>9 DEF PProg, PKindOf, StoreAddr
    <2>10. CASE k = "mapped"
      BY <2>10 DEF PProg, PKindOf, TellMap
    <2>11. CASE k = "unmap"
      BY <2>11 DEF PProg, PKindOf, TellMap
    <2>12. CASE k = "close"
      BY <2>12 DEF PProg, PKindOf, TellClose
    <2> QED
      BY <2>1, <2>2, <2>3, <2>4, <2>5, <2>6, <2>7, <2>8, <2>9, <2>10, <2>11, <2>12
  <1>2. PFdOf(p) = f
    <2>1. CASE k = "creat"
      BY <2>1, <1>1 DEF PProg, PFdOf, StoreFd
    <2>2. CASE k = "hash"
      BY <2>2, <1>1 DEF PProg, PFdOf, FindHash, TellFd
    <2>3. CASE k = "object"
      BY <2>3, <1>1 DEF PProg, PFdOf, TellObject, TellFd
    <2>4. CASE k = "open"
      BY <2>4, <1>1 DEF PProg, PFdOf, StoreFd
    <2>5. CASE k = "fd"
      BY <2>5, <1>1 DEF PProg, PFdOf, TellFd
    <2>6. CASE k = "file"
      BY <2>6, <1>1 DEF PProg, PFdOf, StoreFd
    <2>7. CASE k = "unhash"
      BY <2>7, <1>1 DEF PProg, PFdOf, FindHash
    <2>8. CASE k = "unobject"
      BY <2>8, <1>1 DEF PProg, PFdOf, TellObject
    <2>9. CASE k = "map"
      BY <2>9, <1>1 DEF PProg, PFdOf, StoreAddr
    <2>10. CASE k = "mapped"
      BY <2>10, <1>1 DEF PProg, PFdOf, TellMap
    <2>11. CASE k = "unmap"
      BY <2>11, <1>1 DEF PProg, PFdOf, TellMap
    <2>12. CASE k = "close"
      BY <2>12, <1>1 DEF PProg, PFdOf, TellClose
    <2> QED
      BY <2>1, <2>2, <2>3, <2>4, <2>5, <2>6, <2>7, <2>8, <2>9, <2>10, <2>11, <2>12
  <1>3. PNameOf(p) = n /\ PAtOf(p) = a
    <2>1. CASE k = "creat"
      BY <2>1, <1>1 DEF PProg, PNameOf, PAtOf, StoreFd, FindHash
    <2>2. CASE k = "hash"
      BY <2>2, <1>1 DEF PProg, PNameOf, PAtOf, FindHash
    <2>3. CASE k = "object"
      BY <2>3, <1>1 DEF PProg, PNameOf, PAtOf, TellObject
    <2>4. CASE k = "open"
      BY <2>4, <1>1 DEF PProg, PNameOf, PAtOf, StoreFd
    <2>5. CASE k = "fd"
      BY <2>5, <1>1 DEF PProg, PNameOf, PAtOf, TellFd
    <2>6. CASE k = "file"
      BY <2>6, <1>1 DEF PProg, PNameOf, PAtOf, StoreFd
    <2>7. CASE k = "unhash"
      BY <2>7, <1>1 DEF PProg, PNameOf, PAtOf, FindHash
    <2>8. CASE k = "unobject"
      BY <2>8, <1>1 DEF PProg, PNameOf, PAtOf, TellObject
    <2>9. CASE k = "map"
      BY <2>9, <1>1 DEF PProg, PNameOf, PAtOf, StoreAddr
    <2>10. CASE k = "mapped"
      BY <2>10, <1>1 DEF PProg, PNameOf, PAtOf, TellMap
    <2>11. CASE k = "unmap"
      BY <2>11, <1>1 DEF PProg, PNameOf, PAtOf, TellMap
    <2>12. CASE k = "close"
      BY <2>12, <1>1 DEF PProg, PNameOf, PAtOf, TellClose
    <2> QED
      BY <2>1, <2>2, <2>3, <2>4, <2>5, <2>6, <2>7, <2>8, <2>9, <2>10, <2>11, <2>12
  <1> QED
    BY <1>1, <1>2, <1>3, Zenon DEF PWell

(* The next step of a program, and the program that is left after it.      *)
PStep(k, f, n, a) ==
    CASE k \in {"creat", "open"} -> StoreFd(f, "posix")
      [] k = "file"              -> StoreFd(f, "file")
      [] k \in {"hash", "unhash"} -> FindHash(n)
      [] k = "object"            -> TellObject("alloc", n)
      [] k = "unobject"          -> TellObject("free", n)
      [] k = "fd"                -> TellFd(f)
      [] k = "map"               -> StoreAddr(a, f)
      [] k = "mapped"            -> TellMap("alloc", a, f)
      [] k = "unmap"             -> TellMap("free", a, NoFd)
      [] OTHER                   -> TellClose(f)

PAfter(k) ==
    CASE k = "creat" -> "hash" [] k = "hash" -> "object" [] k \in {"object", "open"} -> "fd"
      [] k = "unhash" -> "unobject" [] k = "map" -> "mapped" [] OTHER -> "idle"

PFdAfter(k, f)   == IF PAfter(k) = "idle" THEN NoFd ELSE f
PNameAfter(k, n) == IF PAfter(k) \in {"idle", "fd"} THEN NoFd ELSE n
PAtAfter(k, a)   == IF PAfter(k) = "idle" THEN NoFd ELSE a

LEMMA PHead ==
    ASSUME NEW p, p # <<>>, PWell(p),
           NEW k, k = PKindOf(p), NEW f, f = PFdOf(p), NEW n, n = PNameOf(p), NEW a, a = PAtOf(p)
    PROVE  /\ PFits(k, f, n, a)
           /\ Head(p) = PStep(k, f, n, a)
           /\ Tail(p) = <<>> <=> PAfter(k) = "idle"
           /\ PWell(Tail(p))
           /\ PKindOf(Tail(p)) = PAfter(k) /\ PFdOf(Tail(p)) = PFdAfter(k, f)
           /\ PNameOf(Tail(p)) = PNameAfter(k, n) /\ PAtOf(Tail(p)) = PAtAfter(k, a)
  <1>1. PFits(k, f, n, a) /\ p = PProg(k, f, n, a)
    BY DEF PWell
  <1>2. Head(p) = PStep(k, f, n, a)
    <2>1. CASE k = "creat"
      BY <2>1, <1>1 DEF PProg, PStep
    <2>2. CASE k = "hash"
      BY <2>2, <1>1 DEF PProg, PStep
    <2>3. CASE k = "object"
      BY <2>3, <1>1 DEF PProg, PStep
    <2>4. CASE k = "open"
      BY <2>4, <1>1 DEF PProg, PStep
    <2>5. CASE k = "fd"
      BY <2>5, <1>1 DEF PProg, PStep
    <2>6. CASE k = "file"
      BY <2>6, <1>1 DEF PProg, PStep
    <2>7. CASE k = "unhash"
      BY <2>7, <1>1 DEF PProg, PStep
    <2>8. CASE k = "unobject"
      BY <2>8, <1>1 DEF PProg, PStep
    <2>9. CASE k = "map"
      BY <2>9, <1>1 DEF PProg, PStep
    <2>10. CASE k = "mapped"
      BY <2>10, <1>1 DEF PProg, PStep
    <2>11. CASE k = "unmap"
      BY <2>11, <1>1 DEF PProg, PStep
    <2>12. CASE k = "close"
      BY <2>12, <1>1 DEF PProg, PStep
    <2> QED
      BY <2>1, <2>2, <2>3, <2>4, <2>5, <2>6, <2>7, <2>8, <2>9, <2>10, <2>11, <2>12, <1>1
         DEF PFits, OpenKinds, MapKinds, OldKinds
  <1>3. CASE PAfter(k) = "idle"
    <2>1. Tail(p) = <<>>
      <3>1. CASE k = "fd"
        BY <3>1, <1>1 DEF PProg
      <3>2. CASE k = "file"
        BY <3>2, <1>1 DEF PProg
      <3>3. CASE k = "unobject"
        BY <3>3, <1>1 DEF PProg
      <3>4. CASE k = "mapped"
        BY <3>4, <1>1 DEF PProg
      <3>5. CASE k = "unmap"
        BY <3>5, <1>1 DEF PProg
      <3>6. CASE k = "close"
        BY <3>6, <1>1 DEF PProg
      <3> QED
        BY <3>1, <3>2, <3>3, <3>4, <3>5, <3>6, <1>1, <1>3
           DEF PAfter, PFits, OpenKinds, MapKinds, OldKinds
    <2> QED
      BY <2>1, <1>1, <1>2, <1>3, PIdle DEF PFdAfter, PNameAfter, PAtAfter
  <1>4. CASE PAfter(k) # "idle"
    <2> DEFINE l == PAfter(k)
               g == PFdAfter(k, f)
               m == PNameAfter(k, n)
               b == PAtAfter(k, a)
    <2>1. Tail(p) = PProg(l, g, m, b) /\ PFits(l, g, m, b)
      <3>1. CASE k = "creat"
        BY <3>1, <1>1 DEF PProg, PAfter, PFdAfter, PNameAfter, PAtAfter, PFits, OpenKinds,
           MapKinds, NewKinds, OldKinds
      <3>2. CASE k = "hash"
        BY <3>2, <1>1 DEF PProg, PAfter, PFdAfter, PNameAfter, PAtAfter, PFits, OpenKinds,
           MapKinds, NewKinds, OldKinds
      <3>3. CASE k = "object"
        BY <3>3, <1>1 DEF PProg, PAfter, PFdAfter, PNameAfter, PAtAfter, PFits, OpenKinds,
           MapKinds, NewKinds, OldKinds
      <3>4. CASE k = "open"
        BY <3>4, <1>1 DEF PProg, PAfter, PFdAfter, PNameAfter, PAtAfter, PFits, OpenKinds,
           MapKinds, NewKinds, OldKinds
      <3>5. CASE k = "unhash"
        BY <3>5, <1>1 DEF PProg, PAfter, PFdAfter, PNameAfter, PAtAfter, PFits, OpenKinds,
           MapKinds, NewKinds, OldKinds
      <3>6. CASE k = "map"
        BY <3>6, <1>1 DEF PProg, PAfter, PFdAfter, PNameAfter, PAtAfter, PFits, OpenKinds,
           MapKinds, NewKinds, OldKinds
      <3> QED
        BY <3>1, <3>2, <3>3, <3>4, <3>5, <3>6, <1>4 DEF PAfter
    <2> HIDE DEF l, g, m, b
    <2>2. /\ Tail(p) # <<>> /\ PKindOf(Tail(p)) = l /\ PFdOf(Tail(p)) = g
          /\ PNameOf(Tail(p)) = m /\ PAtOf(Tail(p)) = b /\ PWell(Tail(p))
      <3>1. PICK q : q = PProg(l, g, m, b)
        OBVIOUS
      <3>2. /\ q # <<>> /\ PKindOf(q) = l /\ PFdOf(q) = g /\ PNameOf(q) = m /\ PAtOf(q) = b
            /\ PWell(q)
        BY <2>1, <3>1, PProgView
      <3> QED
        BY <3>1, <3>2, <2>1
    <2> QED
      BY <2>2, <1>1, <1>2, <1>4 DEF l, g, m, b
  <1> QED
    BY <1>3, <1>4

(***************************************************************************)
(* What a step does to the programs.                                       *)
(***************************************************************************)
PMoves(t, k, f, n, a) ==
    /\ DOMAIN todo' = Threads /\ \A u \in Threads : PWell(todo'[u])
    /\ \A u \in Threads : u # t => todo'[u] = todo[u]
    /\ PKindOf(todo'[t]) = k /\ PFdOf(todo'[t]) = f
    /\ PNameOf(todo'[t]) = n /\ PAtOf(todo'[t]) = a

LEMMA PMoved ==
    ASSUME PosixTypes, NEW t \in Threads, NEW p, PWell(p), todo' = [todo EXCEPT ![t] = p]
    PROVE  PMoves(t, PKindOf(p), PFdOf(p), PNameOf(p), PAtOf(p))
  <1>1. DOMAIN todo' = Threads /\ todo'[t] = p /\ \A u \in Threads : u # t => todo'[u] = todo[u]
    BY DEF PosixTypes
  <1>2. \A u \in Threads : PWell(todo'[u])
    BY <1>1 DEF PosixTypes
  <1> QED
    BY <1>1, <1>2 DEF PMoves

LEMMA PBegins ==
    ASSUME PosixTypes, NEW t \in Threads, NEW k, NEW f, NEW n, NEW a, PFits(k, f, n, a),
           Begin(t, PProg(k, f, n, a))
    PROVE  /\ PMoves(t, k, f, n, a)
           /\ PKind(t) = "idle" /\ PFd(t) = NoFd /\ PName(t) = NoFd /\ PAt(t) = NoFd
           /\ UNCHANGED <<fdreg, addr, nreg, newid, filter, confused, clashed>>
  <1>1. /\ todo[t] = <<>> /\ todo' = [todo EXCEPT ![t] = PProg(k, f, n, a)]
        /\ UNCHANGED <<fdreg, addr, nreg, newid, filter, confused, clashed>>
    BY DEF Begin
  <1>2. PKind(t) = "idle" /\ PFd(t) = NoFd /\ PName(t) = NoFd /\ PAt(t) = NoFd
    BY <1>1, PIdle DEF PKind, PFd, PName, PAt
  <1> DEFINE p == PProg(k, f, n, a)
  <1>3. PKindOf(p) = k /\ PFdOf(p) = f /\ PNameOf(p) = n /\ PAtOf(p) = a /\ PWell(p)
    BY PProgView
  <1>4. PMoves(t, PKindOf(p), PFdOf(p), PNameOf(p), PAtOf(p))
    BY <1>1, <1>3, PMoved
  <1> QED
    BY <1>1, <1>2, <1>3, <1>4

LEMMA PContinues ==
    ASSUME PosixTypes, NEW t \in Threads, todo[t] # <<>>, todo' = [todo EXCEPT ![t] = Tail(@)],
           NEW k, k = PKind(t), NEW f, f = PFd(t), NEW n, n = PName(t), NEW a, a = PAt(t)
    PROVE  /\ PMoves(t, PAfter(k), PFdAfter(k, f), PNameAfter(k, n), PAtAfter(k, a))
           /\ PFits(k, f, n, a) /\ Head(todo[t]) = PStep(k, f, n, a)
           /\ Tail(todo[t]) = <<>> <=> PAfter(k) = "idle"
  <1> DEFINE p == todo[t]
  <1>1. p # <<>> /\ PWell(p) /\ k = PKindOf(p) /\ f = PFdOf(p) /\ n = PNameOf(p) /\ a = PAtOf(p)
    BY DEF PosixTypes, PKind, PFd, PName, PAt
  <1>2. /\ PFits(k, f, n, a)
        /\ Head(p) = PStep(k, f, n, a)
        /\ Tail(p) = <<>> <=> PAfter(k) = "idle"
        /\ PWell(Tail(p))
        /\ PKindOf(Tail(p)) = PAfter(k) /\ PFdOf(Tail(p)) = PFdAfter(k, f)
        /\ PNameOf(Tail(p)) = PNameAfter(k, n) /\ PAtOf(Tail(p)) = PAtAfter(k, a)
    <2> HIDE DEF p
    <2> QED
      BY <1>1, PHead
  <1>3. todo' = [todo EXCEPT ![t] = Tail(p)]
    BY DEF PosixTypes
  <1>4. PMoves(t, PKindOf(Tail(p)), PFdOf(Tail(p)), PNameOf(Tail(p)), PAtOf(Tail(p)))
    BY <1>2, <1>3, PMoved
  <1> QED
    BY <1>2, <1>4

(* The steps that the model looks for in a program.                        *)
LEMMA PSteps ==
    ASSUME NEW p, p # <<>>, PWell(p),
           NEW k, k = PKindOf(p), NEW f, f = PFdOf(p), NEW n, n = PNameOf(p), NEW a, a = PAtOf(p)
    PROVE  /\ \A g : (\E i \in DOMAIN p : p[i] = TellClose(g)) <=> (k = "close" /\ f = g)
           /\ \A b : (\E i \in DOMAIN p : p[i].do = "map" /\ p[i].call = "free" /\ p[i].at = b)
                        <=> (k = "unmap" /\ a = b)
           /\ \A b, g : (\E i \in DOMAIN p : p[i] = StoreAddr(b, g))
                        <=> (k = "map" /\ a = b /\ f = g)
  <1>1. PFits(k, f, n, a) /\ p = PProg(k, f, n, a)
    BY DEF PWell
  <1>2. /\ \A g : TellClose(g).do = "close" /\ TellClose(g).fd = g
        /\ \A b, g : /\ StoreAddr(b, g).do = "addr_store" /\ StoreAddr(b, g).at = b
                     /\ StoreAddr(b, g).fd = g
    BY DEF TellClose, StoreAddr
  <1>3. CASE k = "creat"
    <2>1. DOMAIN p = {1, 2, 3, 4} /\ p[1].do = "fdreg_store_fd" /\ p[2].do = "hash" /\ p[3].do = "object" /\ p[4].do = "fd"
      BY <1>1, <1>3 DEF PProg, StoreFd, StoreAddr, TellFd, FindHash, TellObject, TellMap, TellClose
    <2> QED
      BY <2>1, <1>2, <1>3
  <1>4. CASE k = "hash"
    <2>1. DOMAIN p = {1, 2, 3} /\ p[1].do = "hash" /\ p[2].do = "object" /\ p[3].do = "fd"
      BY <1>1, <1>4 DEF PProg, StoreFd, StoreAddr, TellFd, FindHash, TellObject, TellMap, TellClose
    <2> QED
      BY <2>1, <1>2, <1>4
  <1>5. CASE k = "object"
    <2>1. DOMAIN p = {1, 2} /\ p[1].do = "object" /\ p[2].do = "fd"
      BY <1>1, <1>5 DEF PProg, StoreFd, StoreAddr, TellFd, FindHash, TellObject, TellMap, TellClose
    <2> QED
      BY <2>1, <1>2, <1>5
  <1>6. CASE k = "open"
    <2>1. DOMAIN p = {1, 2} /\ p[1].do = "fdreg_store_fd" /\ p[2].do = "fd"
      BY <1>1, <1>6 DEF PProg, StoreFd, StoreAddr, TellFd, FindHash, TellObject, TellMap, TellClose
    <2> QED
      BY <2>1, <1>2, <1>6
  <1>7. CASE k = "fd"
    <2>1. DOMAIN p = {1} /\ p[1].do = "fd"
      BY <1>1, <1>7 DEF PProg, StoreFd, StoreAddr, TellFd, FindHash, TellObject, TellMap, TellClose
    <2> QED
      BY <2>1, <1>2, <1>7
  <1>8. CASE k = "file"
    <2>1. DOMAIN p = {1} /\ p[1].do = "fdreg_store_fd"
      BY <1>1, <1>8 DEF PProg, StoreFd, StoreAddr, TellFd, FindHash, TellObject, TellMap, TellClose
    <2> QED
      BY <2>1, <1>2, <1>8
  <1>9. CASE k = "unhash"
    <2>1. DOMAIN p = {1, 2} /\ p[1].do = "hash" /\ p[2].do = "object"
      BY <1>1, <1>9 DEF PProg, StoreFd, StoreAddr, TellFd, FindHash, TellObject, TellMap, TellClose
    <2> QED
      BY <2>1, <1>2, <1>9
  <1>10. CASE k = "unobject"
    <2>1. DOMAIN p = {1} /\ p[1].do = "object"
      BY <1>1, <1>10 DEF PProg, StoreFd, StoreAddr, TellFd, FindHash, TellObject, TellMap, TellClose
    <2> QED
      BY <2>1, <1>2, <1>10
  <1>11. CASE k = "map"
    <2>1. DOMAIN p = {1, 2} /\ p[1].do = "addr_store" /\ p[2].do = "map" /\ p[1] = StoreAddr(a, f) /\ p[2].call = "alloc"
      BY <1>1, <1>11 DEF PProg, StoreFd, StoreAddr, TellFd, FindHash, TellObject, TellMap, TellClose
    <2> QED
      BY <2>1, <1>2, <1>11
  <1>12. CASE k = "mapped"
    <2>1. DOMAIN p = {1} /\ p[1].do = "map" /\ p[1].call = "alloc"
      BY <1>1, <1>12 DEF PProg, StoreFd, StoreAddr, TellFd, FindHash, TellObject, TellMap, TellClose
    <2> QED
      BY <2>1, <1>2, <1>12
  <1>13. CASE k = "unmap"
    <2>1. DOMAIN p = {1} /\ p[1].do = "map" /\ p[1].call = "free" /\ p[1].at = a
      BY <1>1, <1>13 DEF PProg, StoreFd, StoreAddr, TellFd, FindHash, TellObject, TellMap, TellClose
    <2> QED
      BY <2>1, <1>2, <1>13
  <1>14. CASE k = "close"
    <2>1. DOMAIN p = {1} /\ p[1].do = "close" /\ p[1] = TellClose(f)
      BY <1>1, <1>14 DEF PProg, StoreFd, StoreAddr, TellFd, FindHash, TellObject, TellMap, TellClose
    <2> QED
      BY <2>1, <1>2, <1>14
  <1> QED
    BY <1>3, <1>4, <1>5, <1>6, <1>7, <1>8, <1>9, <1>10, <1>11, <1>12, <1>13, <1>14, <1>1 DEF PFits, OpenKinds, MapKinds, OldKinds

(* The same for the threads of a state.                                    *)
LEMMA PThreads ==
    ASSUME PosixTypes
    PROVE  /\ \A t \in Threads : /\ todo[t] = <<>> <=> PKind(t) = "idle"
                                 /\ todo[t] # <<>> => PFits(PKind(t), PFd(t), PName(t), PAt(t))
           /\ \A g : Closing(g) = {t \in Threads : ClosingBy(t, g)}
           /\ \A b : Unmapping(b) = Unmappers(b)
           /\ \A t \in Threads : \A b, g :
                (\E i \in DOMAIN todo[t] : todo[t][i] = StoreAddr(b, g))
                    <=> (PKind(t) = "map" /\ PAt(t) = b /\ PFd(t) = g)
  <1>1. ASSUME NEW t \in Threads
        PROVE  /\ todo[t] = <<>> <=> PKind(t) = "idle"
               /\ todo[t] # <<>> => PFits(PKind(t), PFd(t), PName(t), PAt(t))
               /\ \A g : (\E i \in DOMAIN todo[t] : todo[t][i] = TellClose(g)) <=> ClosingBy(t, g)
               /\ \A b : (\E i \in DOMAIN todo[t] : /\ todo[t][i].do = "map"
                                                   /\ todo[t][i].call = "free"
                                                   /\ todo[t][i].at = b)
                        <=> (PKind(t) = "unmap" /\ PAt(t) = b)
               /\ \A b, g : (\E i \in DOMAIN todo[t] : todo[t][i] = StoreAddr(b, g))
                        <=> (PKind(t) = "map" /\ PAt(t) = b /\ PFd(t) = g)
    <2>1. PICK p : p = todo[t]
      OBVIOUS
    <2>2. /\ PWell(p) /\ PKind(t) = PKindOf(p) /\ PFd(t) = PFdOf(p) /\ PName(t) = PNameOf(p)
          /\ PAt(t) = PAtOf(p)
      BY <2>1 DEF PosixTypes, PKind, PFd, PName, PAt
    <2>3. CASE p = <<>>
      <3>1. DOMAIN p = {}
        BY <2>3
      <3> QED
        BY <2>1, <2>2, <2>3, <3>1, PIdle DEF ClosingBy
    <2>4. CASE p # <<>>
      <3>1. PFits(PKindOf(p), PFdOf(p), PNameOf(p), PAtOf(p)) /\ PKindOf(p) # "idle"
        BY <2>2, <2>4 DEF PWell, PFits, OpenKinds, MapKinds, OldKinds
      <3>2. /\ \A g : (\E i \in DOMAIN p : p[i] = TellClose(g))
                            <=> (PKindOf(p) = "close" /\ PFdOf(p) = g)
            /\ \A b : (\E i \in DOMAIN p : p[i].do = "map" /\ p[i].call = "free" /\ p[i].at = b)
                            <=> (PKindOf(p) = "unmap" /\ PAtOf(p) = b)
            /\ \A b, g : (\E i \in DOMAIN p : p[i] = StoreAddr(b, g))
                            <=> (PKindOf(p) = "map" /\ PAtOf(p) = b /\ PFdOf(p) = g)
        BY <2>2, <2>4, PSteps
      <3> QED
        BY <2>1, <2>2, <2>4, <3>1, <3>2 DEF ClosingBy
    <2> QED
      BY <2>3, <2>4
  <1>2. ASSUME NEW g PROVE Closing(g) = {t \in Threads : ClosingBy(t, g)}
    BY <1>1 DEF Closing
  <1>3. ASSUME NEW b PROVE Unmapping(b) = Unmappers(b)
    BY <1>1 DEF Unmapping, Unmappers
  <1> QED
    BY <1>1, <1>2, <1>3

(***************************************************************************)
(* What a written call does to the report.                                 *)
(***************************************************************************)
Fed(c, r, i) == filter' = RemoveFreed(filter, Call(c, r, i))

LEMMA FilterFed ==
    ASSUME PosixTypes, NEW c \in {"alloc", "free"}, NEW r, NEW i, <<r, i>> \in Keys, Fed(c, r, i),
           NEW e, e = filter[<<r, i>>], NEW h, h = filter'[<<r, i>>]
    PROVE  /\ filter' \in [Keys -> [left : Nat, refs : {0, 1}]]
           /\ \A k \in Keys : filter'[k].refs = 1 => filter'[k].left > 0
           /\ \A k \in Keys : k # <<r, i>> => filter'[k] = filter[k]
           /\ e.left \in Nat /\ e.refs \in {0, 1} /\ (e.refs = 1 => e.left > 0)
           /\ c = "alloc" => h = [left |-> e.left + 1, refs |-> 1]
           /\ c = "free" => h = IF e.refs = 0 THEN e ELSE [left |-> e.left - 1, refs |-> 0]
  <1> DEFINE n == IF c = "alloc" THEN [left |-> e.left + 1, refs |-> 1]
                  ELSE IF e.refs = 0 THEN e ELSE [left |-> e.left - 1, refs |-> 0]
  <1>1. e \in [left : Nat, refs : {0, 1}] /\ (e.refs = 1 => e.left > 0)
    BY DEF PosixTypes
  <1>2. filter' = [filter EXCEPT ![<<r, i>>] = n]
    BY DEF Fed, RemoveFreed, Call, Resource, AllocCall, FreeCall
  <1>3. h = n
    BY <1>2 DEF PosixTypes
  <1>4. n \in [left : Nat, refs : {0, 1}] /\ (n.refs = 1 => n.left > 0)
    BY <1>1
  <1> HIDE DEF n
  <1>5. /\ filter' \in [Keys -> [left : Nat, refs : {0, 1}]]
        /\ \A k \in Keys : filter'[k].refs = 1 => filter'[k].left > 0
        /\ \A k \in Keys : k # <<r, i>> => filter'[k] = filter[k]
    BY <1>2, <1>4 DEF PosixTypes
  <1>6. e.left \in Nat /\ e.refs \in {0, 1}
    BY <1>1
  <1> QED
    BY <1>1, <1>3, <1>5, <1>6 DEF n

(* The keys of the report.                                                 *)
LEMMA KeysAre ==
    /\ \A m \in MapTypes, a \in Addrs : <<m, a>> \in Keys
    /\ \A f \in Fds : <<"pshmfd", f>> \in Keys
    /\ \A i \in Ids : <<"pshmobj", i>> \in Keys
  BY DEF Keys

LEMMA MapTypeIs ==
    ASSUME NEW f
    PROVE  /\ MapType(f) \in MapTypes
           /\ MapType(f) \notin {"pshmfd", "pshmobj"}
  BY DEF MapType, MapTypes

(***************************************************************************)
(* One step of a wrapper.                                                  *)
(***************************************************************************)
Stores(k) == k \in {"creat", "open", "file"}

Confuses(f, type) ==
    {a \in Addrs : /\ kmap[a] # "free" \/ Unmappers(a) # {}
                   /\ \/ addr[a] = f
                      \/ \E u \in Threads : PKind(u) = "map" /\ PAt(u) = a /\ PFd(u) = f
                   /\ fdreg[f] # type}

StoredType(k) == IF k = "file" THEN "file" ELSE "posix"

Steps(t, k, f, n, a) ==
    /\ PMoves(t, PAfter(k), PFdAfter(k, f), PNameAfter(k, n), PAtAfter(k, a))
    /\ PFits(k, f, n, a)
    /\ PKind(t) = k /\ PFd(t) = f /\ PName(t) = n /\ PAt(t) = a
    /\ UNCHANGED <<kfd, kmap, kobj, raced>>
    /\ fdreg' = IF Stores(k) THEN [fdreg EXCEPT ![f] = StoredType(k)] ELSE fdreg
    /\ confused' = IF Stores(k) THEN confused \cup Confuses(f, StoredType(k)) ELSE confused
    /\ addr' = IF k = "map" THEN [addr EXCEPT ![a] = f] ELSE addr
    /\ nreg' = IF k \in {"object", "unobject"} THEN [nreg EXCEPT ![n] = GetHash(t, n)] ELSE nreg
    /\ newid' = [newid EXCEPT ![t] =
                    IF k \in {"hash", "unhash"} /\ nreg[n] = NoId THEN CalcHash(n) ELSE NoId]
    /\ clashed' = IF k \in {"hash", "unhash"} /\ nreg[n] = NoId
                  THEN clashed \/ \E u \in Threads : newid[u] # NoId ELSE clashed
    /\ busy' = CASE k \in {"fd", "file"} -> busy \ {f} [] k = "mapped" -> busy \ {a}
                 [] OTHER -> busy
    /\ k = "fd"       => Fed("alloc", "pshmfd", f)
    /\ k = "object"   => Fed("alloc", "pshmobj", GetHash(t, n))
    /\ k = "unobject" => Fed("free", "pshmobj", GetHash(t, n))
    /\ k = "mapped"   => Fed("alloc", MapType(f), a)
    /\ k = "unmap"    => Fed("free", MapType(addr[a]), a)
    /\ (k = "close" /\ fdreg[f] = "posix") => Fed("free", "pshmfd", f)
    /\ (k \in {"creat", "hash", "open", "file", "unhash", "map"}
            \/ (k = "close" /\ fdreg[f] # "posix")) => filter' = filter

LEMMA WrapperSteps ==
    ASSUME PosixTypes, NEW t \in Threads, WrapperStep(t)
    PROVE  Steps(t, PKind(t), PFd(t), PName(t), PAt(t))
  <1>1. PICK k, f, n, a : k = PKind(t) /\ f = PFd(t) /\ n = PName(t) /\ a = PAt(t)
    OBVIOUS
  <1>2. PICK step : step = Head(todo[t])
    OBVIOUS
  <1>3. /\ todo[t] # <<>> /\ todo' = [todo EXCEPT ![t] = Tail(@)]
        /\ UNCHANGED <<kfd, kmap, kobj, raced>>
        /\ fdreg' = IF step.do = "fdreg_store_fd"
                    THEN [fdreg EXCEPT ![step.fd] = step.type] ELSE fdreg
        /\ addr' = IF step.do = "addr_store" THEN [addr EXCEPT ![step.at] = step.fd] ELSE addr
        /\ nreg' = IF step.do = "object"
                   THEN [nreg EXCEPT ![step.name] = GetHash(t, step.name)] ELSE nreg
        /\ newid' = [newid EXCEPT ![t] =
                        IF step.do = "hash" /\ nreg[step.name] = NoId
                        THEN CalcHash(step.name) ELSE NoId]
        /\ clashed' = IF step.do = "hash" /\ nreg[step.name] = NoId
                      THEN clashed \/ \E u \in Threads : newid[u] # NoId ELSE clashed
    BY <1>2 DEF WrapperStep
  <1>4. filter' = IF Written(t, step) = {} THEN filter
                  ELSE RemoveFreed(filter, CHOOSE c \in Written(t, step) : TRUE)
    BY <1>2 DEF WrapperStep
  <1>5. confused' = IF step.do = "fdreg_store_fd"
                    THEN confused \cup Confuses(step.fd, step.type) ELSE confused
    <2> DEFINE C == {b \in Addrs :
                        /\ kmap[b] # "free" \/ Unmapping(b) # {}
                        /\ addr[b] = step.fd \/ \E u \in Threads :
                              \E i \in DOMAIN todo[u] : todo[u][i] = StoreAddr(b, step.fd)
                        /\ fdreg[step.fd] # step.type}
    <2>1. confused' = IF step.do = "fdreg_store_fd" THEN confused \cup C ELSE confused
      BY <1>2 DEF WrapperStep
    <2>2. ASSUME NEW b \in Addrs PROVE b \in C <=> b \in Confuses(step.fd, step.type)
      <3>1. Unmapping(b) = Unmappers(b)
        BY PThreads
      <3>2. (\E u \in Threads : \E i \in DOMAIN todo[u] : todo[u][i] = StoreAddr(b, step.fd))
                <=> \E u \in Threads : PKind(u) = "map" /\ PAt(u) = b /\ PFd(u) = step.fd
        BY PThreads
      <3> QED
        BY <3>1, <3>2, Zenon DEF Confuses
    <2>3. C \subseteq Addrs /\ Confuses(step.fd, step.type) \subseteq Addrs
      BY DEF Confuses
    <2> HIDE DEF C
    <2>4. C = Confuses(step.fd, step.type)
      BY <2>2, <2>3
    <2> QED
      BY <2>1, <2>4
  <1>6. busy' = CASE Tail(todo[t]) = <<>> /\ step.do \in {"fd", "fdreg_store_fd"} -> busy \ {step.fd}
                  [] Tail(todo[t]) = <<>> /\ step.do = "map" /\ step.call = "alloc" -> busy \ {step.at}
                  [] OTHER -> busy
    BY <1>2 DEF WrapperStep
  <1>7. /\ PMoves(t, PAfter(k), PFdAfter(k, f), PNameAfter(k, n), PAtAfter(k, a))
        /\ PFits(k, f, n, a) /\ step = PStep(k, f, n, a)
        /\ Tail(todo[t]) = <<>> <=> PAfter(k) = "idle"
    BY <1>1, <1>2, <1>3, PContinues
  <1>8. ASSUME NEW c, Written(t, step) = {c} PROVE filter' = RemoveFreed(filter, c)
    BY <1>4, <1>8
  <1> HIDE DEF Steps
  <1>9. Steps(t, k, f, n, a)
    <2>1. CASE k = "creat"
      <3>1. step.do = "fdreg_store_fd" /\ step.fd = f /\ step.type = "posix"
        BY <1>7, <2>1 DEF PStep, StoreFd
      <3>2. Written(t, step) = {}
        BY <3>1 DEF Written
      <3>3. filter' = filter
        BY <3>2, <1>4
      <3> QED
        BY <1>1, <1>3, <1>5, <1>6, <1>7, <2>1, <3>1, <3>3 DEF Steps, Stores, StoredType, Fed, PAfter
    <2>2. CASE k = "hash"
      <3>1. step.do = "hash" /\ step.name = n
        BY <1>7, <2>2 DEF PStep, FindHash
      <3>2. Written(t, step) = {}
        BY <3>1 DEF Written
      <3>3. filter' = filter
        BY <3>2, <1>4
      <3> QED
        BY <1>1, <1>3, <1>5, <1>6, <1>7, <2>2, <3>1, <3>3 DEF Steps, Stores, StoredType, Fed, PAfter
    <2>3. CASE k = "object"
      <3>1. step.do = "object" /\ step.call = "alloc" /\ step.name = n
        BY <1>7, <2>3 DEF PStep, TellObject
      <3>2. Written(t, step) = {Call("alloc", "pshmobj", GetHash(t, n))}
        BY <3>1 DEF Written
      <3>3. filter' = RemoveFreed(filter, Call("alloc", "pshmobj", GetHash(t, n)))
        BY <3>2, <1>8
      <3> QED
        BY <1>1, <1>3, <1>5, <1>6, <1>7, <2>3, <3>1, <3>3 DEF Steps, Stores, StoredType, Fed, PAfter
    <2>4. CASE k = "open"
      <3>1. step.do = "fdreg_store_fd" /\ step.fd = f /\ step.type = "posix"
        BY <1>7, <2>4 DEF PStep, StoreFd
      <3>2. Written(t, step) = {}
        BY <3>1 DEF Written
      <3>3. filter' = filter
        BY <3>2, <1>4
      <3> QED
        BY <1>1, <1>3, <1>5, <1>6, <1>7, <2>4, <3>1, <3>3 DEF Steps, Stores, StoredType, Fed, PAfter
    <2>5. CASE k = "fd"
      <3>1. step.do = "fd" /\ step.fd = f
        BY <1>7, <2>5 DEF PStep, TellFd
      <3>2. Written(t, step) = {Call("alloc", "pshmfd", f)}
        BY <3>1 DEF Written
      <3>3. filter' = RemoveFreed(filter, Call("alloc", "pshmfd", f))
        BY <3>2, <1>8
      <3> QED
        BY <1>1, <1>3, <1>5, <1>6, <1>7, <2>5, <3>1, <3>3 DEF Steps, Stores, StoredType, Fed, PAfter
    <2>6. CASE k = "file"
      <3>1. step.do = "fdreg_store_fd" /\ step.fd = f /\ step.type = "file"
        BY <1>7, <2>6 DEF PStep, StoreFd
      <3>2. Written(t, step) = {}
        BY <3>1 DEF Written
      <3>3. filter' = filter
        BY <3>2, <1>4
      <3> QED
        BY <1>1, <1>3, <1>5, <1>6, <1>7, <2>6, <3>1, <3>3 DEF Steps, Stores, StoredType, Fed, PAfter
    <2>7. CASE k = "unhash"
      <3>1. step.do = "hash" /\ step.name = n
        BY <1>7, <2>7 DEF PStep, FindHash
      <3>2. Written(t, step) = {}
        BY <3>1 DEF Written
      <3>3. filter' = filter
        BY <3>2, <1>4
      <3> QED
        BY <1>1, <1>3, <1>5, <1>6, <1>7, <2>7, <3>1, <3>3 DEF Steps, Stores, StoredType, Fed, PAfter
    <2>8. CASE k = "unobject"
      <3>1. step.do = "object" /\ step.call = "free" /\ step.name = n
        BY <1>7, <2>8 DEF PStep, TellObject
      <3>2. Written(t, step) = {Call("free", "pshmobj", GetHash(t, n))}
        BY <3>1 DEF Written
      <3>3. filter' = RemoveFreed(filter, Call("free", "pshmobj", GetHash(t, n)))
        BY <3>2, <1>8
      <3> QED
        BY <1>1, <1>3, <1>5, <1>6, <1>7, <2>8, <3>1, <3>3 DEF Steps, Stores, StoredType, Fed, PAfter
    <2>9. CASE k = "map"
      <3>1. step.do = "addr_store" /\ step.at = a /\ step.fd = f
        BY <1>7, <2>9 DEF PStep, StoreAddr
      <3>2. Written(t, step) = {}
        BY <3>1 DEF Written
      <3>3. filter' = filter
        BY <3>2, <1>4
      <3> QED
        BY <1>1, <1>3, <1>5, <1>6, <1>7, <2>9, <3>1, <3>3 DEF Steps, Stores, StoredType, Fed, PAfter
    <2>10. CASE k = "mapped"
      <3>1. step.do = "map" /\ step.call = "alloc" /\ step.at = a /\ step.fd = f
        BY <1>7, <2>10 DEF PStep, TellMap
      <3>2. Written(t, step) = {Call("alloc", MapType(f), a)}
        BY <3>1 DEF Written
      <3>3. filter' = RemoveFreed(filter, Call("alloc", MapType(f), a))
        BY <3>2, <1>8
      <3> QED
        BY <1>1, <1>3, <1>5, <1>6, <1>7, <2>10, <3>1, <3>3 DEF Steps, Stores, StoredType, Fed, PAfter
    <2>11. CASE k = "unmap"
      <3>1. step.do = "map" /\ step.call = "free" /\ step.at = a
        BY <1>7, <2>11 DEF PStep, TellMap
      <3>2. Written(t, step) = {Call("free", MapType(addr[a]), a)}
        BY <3>1 DEF Written
      <3>3. filter' = RemoveFreed(filter, Call("free", MapType(addr[a]), a))
        BY <3>2, <1>8
      <3> QED
        BY <1>1, <1>3, <1>5, <1>6, <1>7, <2>11, <3>1, <3>3 DEF Steps, Stores, StoredType, Fed, PAfter
    <2>12. CASE k = "close"
      <3>1. step.do = "close" /\ step.fd = f
        BY <1>7, <2>12 DEF PStep, TellClose
      <3>2. Written(t, step) = IF fdreg[f] = "posix" THEN {Call("free", "pshmfd", f)} ELSE {}
        BY <3>1 DEF Written
      <3>3. IF fdreg[f] = "posix" THEN filter' = RemoveFreed(filter, Call("free", "pshmfd", f))
                                  ELSE filter' = filter
        BY <3>2, <1>4, <1>8
      <3> QED
        BY <1>1, <1>3, <1>5, <1>6, <1>7, <2>12, <3>1, <3>3 DEF Steps, Stores, StoredType, Fed, PAfter
    <2> QED
      BY <2>1, <2>2, <2>3, <2>4, <2>5, <2>6, <2>7, <2>8, <2>9, <2>10, <2>11, <2>12, <1>7 DEF PFits, OpenKinds, MapKinds, OldKinds
  <1> QED
    BY <1>1, <1>9

(***************************************************************************)
(* Ids: there are more ids than names, so the search finds one that no     *)
(* name has.                                                               *)
(***************************************************************************)
LEMMA SomeIdIsFree ==
    ASSUME PosixTypes
    PROVE  \E i \in Ids : \A m \in Names : nreg[m] # i
  <1> SUFFICES ASSUME \A i \in Ids : \E m \in Names : nreg[m] = i
               PROVE  FALSE
    OBVIOUS
  <1> DEFINE h == [i \in Ids |-> CHOOSE m \in Names : nreg[m] = i]
  <1>1. \A i \in Ids : h[i] \in Names /\ nreg[h[i]] = i
    OBVIOUS
  <1>2. HashSize \in Nat /\ Cardinality(Names) \in Nat /\ Cardinality(Names) < HashSize
        /\ IsFiniteSet(Names)
    BY BoundsAssumption, ProcessAssumption, FS_CardinalityType
  <1>3. IsFiniteSet(Ids) /\ Cardinality(Ids) = HashSize
    <2>1. PICK a \in Int, b \in Int : a = 0 /\ b = HashSize - 1
      BY <1>2
    <2>2. Ids = a..b /\ ~(a > b) /\ b - a + 1 = HashSize
      BY <2>1, <1>2 DEF Ids
    <2>3. IsFiniteSet(a..b) /\ Cardinality(a..b) = IF a > b THEN 0 ELSE b - a + 1
      BY <2>1, FS_Interval, Zenon
    <2> QED
      BY <2>2, <2>3
  <1>4. h \in [Ids -> Names]
    BY <1>1
  <1> HIDE DEF h
  <1>5. \E x, y \in Ids : x # y /\ h[x] = h[y]
    BY <1>2, <1>3, <1>4, FS_PigeonHole
  <1> QED
    BY <1>1, <1>5

LEMMA CalcHashFree ==
    ASSUME PosixTypes, NEW n \in Names
    PROVE  CalcHash(n) \in Ids /\ CalcHash(n) # NoId /\ \A m \in Names : nreg[m] # CalcHash(n)
  <1> DEFINE id(k) == (RawHash[n] + k) % HashSize
             free  == {k \in Ids : \A m \in Names : nreg[m] # id(k)}
             k0    == CHOOSE k \in free : \A l \in free : k <= l
  <1>1. HashSize \in Nat /\ HashSize > 0 /\ RawHash[n] \in 0..(HashSize - 1)
    BY BoundsAssumption, ProcessAssumption, FS_CardinalityType
  <1>2. PICK i \in Ids : \A m \in Names : nreg[m] # i
    BY SomeIdIsFree
  <1>3. PICK k \in Ids : id(k) = i
    <2>1. CASE i >= RawHash[n]
      <3>1. i - RawHash[n] \in Ids
        BY <1>1, <2>1 DEF Ids
      <3>2. RawHash[n] + (i - RawHash[n]) = i /\ i \in 0..(HashSize - 1)
        BY <1>1, <2>1 DEF Ids
      <3>3. i % HashSize = i
        BY <1>1, <3>2
      <3> QED
        BY <3>1, <3>2, <3>3
    <2>2. CASE i < RawHash[n]
      <3>1. i + HashSize - RawHash[n] \in Ids
        BY <1>1, <2>2 DEF Ids
      <3>2. RawHash[n] + (i + HashSize - RawHash[n]) = i + HashSize /\ i \in 0..(HashSize - 1)
        BY <1>1, <2>2 DEF Ids
      <3>3. (i + HashSize) % HashSize = i
        BY <1>1, <3>2
      <3> QED
        BY <3>1, <3>2, <3>3
    <2> QED
      BY <1>1, <2>1, <2>2 DEF Ids
  <1>4. k \in free
    BY <1>2, <1>3
  <1>5. free \in SUBSET Nat /\ free # {}
    BY <1>1, <1>4 DEF Ids
  <1>6. \E x \in free : \A l \in free : x <= l
    <2> HIDE DEF free
    <2> QED
      BY <1>5, LeastElement
  <1>7. k0 \in free
    <2> HIDE DEF free
    <2> QED
      BY <1>6
  <1>8. CalcHash(n) = id(k0)
    BY DEF CalcHash
  <1>9. \A m \in Names : nreg[m] # id(k0)
    BY <1>7
  <1>10. k0 \in Nat
    BY <1>5, <1>7
  <1> HIDE DEF k0, free
  <1>11. id(k0) \in Ids /\ id(k0) # NoId
    BY <1>1, <1>10 DEF Ids, NoId
  <1> QED
    BY <1>8, <1>9, <1>11

LEMMA GetHashIs ==
    ASSUME PosixTypes, NewIds, NEW t \in Threads, PKind(t) \in {"object", "unobject"},
           NEW n \in Names, n = PName(t)
    PROVE  /\ GetHash(t, n) \in Ids /\ GetHash(t, n) # NoId
           /\ nreg[n] # NoId => GetHash(t, n) = nreg[n]
           /\ nreg[n] = NoId => GetHash(t, n) = newid[t] /\ newid[t] # NoId
  <1>1. NoId \notin Ids
    BY BoundsAssumption DEF Ids, NoId
  <1> QED
    BY <1>1 DEF GetHash, PosixTypes, NewIds

(***************************************************************************)
(* Types.                                                                  *)
(***************************************************************************)
Typed == /\ kfd \in [Fds -> {"free", "posix", "file", "other"}]
         /\ kmap \in [Addrs -> {"free", "posix", "file", "other", "anon"}]
         /\ kobj \subseteq Names

LEMMA BegunTypes ==
    ASSUME PosixTypes, NEW t, NEW k, NEW f, NEW n, NEW a, PMoves(t, k, f, n, a), Typed',
           UNCHANGED <<fdreg, addr, nreg, newid, filter>>
    PROVE  PosixTypes'
  BY DEF PosixTypes, PMoves, Typed

LEMMA SteppedTypes ==
    ASSUME PosixTypes, NewIds, NEW t \in Threads, NEW k, NEW f, NEW n, NEW a, Steps(t, k, f, n, a)
    PROVE  PosixTypes'
  <1>1. /\ PMoves(t, PAfter(k), PFdAfter(k, f), PNameAfter(k, n), PAtAfter(k, a))
        /\ PFits(k, f, n, a) /\ PKind(t) = k /\ PName(t) = n
    BY DEF Steps
  <1>2. Typed' /\ DOMAIN todo' = Threads /\ \A u \in Threads : PWell(todo'[u])
    BY <1>1 DEF Steps, PMoves, PosixTypes, Typed
  <1>3. fdreg' \in [Fds -> FdTypes]
    <2>1. Stores(k) => f \in Fds
      BY <1>1 DEF PFits, Stores, OpenKinds
    <2>2. StoredType(k) \in FdTypes
      BY DEF StoredType, FdTypes
    <2>3. fdreg' = IF Stores(k) THEN [fdreg EXCEPT ![f] = StoredType(k)] ELSE fdreg
      BY DEF Steps
    <2> QED
      BY <2>1, <2>2, <2>3 DEF PosixTypes
  <1>4. addr' \in [Addrs -> Fds \cup {NoFd}]
    <2>1. k = "map" => a \in Addrs /\ f \in Fds \cup {NoFd}
      BY <1>1 DEF PFits, MapKinds
    <2>2. addr' = IF k = "map" THEN [addr EXCEPT ![a] = f] ELSE addr
      BY DEF Steps
    <2> QED
      BY <2>1, <2>2 DEF PosixTypes
  <1>5. k \in {"object", "unobject"} => n \in Names /\ GetHash(t, n) \in Ids
    BY <1>1, GetHashIs DEF PFits, NewKinds, OldKinds
  <1>6. nreg' \in [Names -> Ids \cup {NoId}]
    <2>1. nreg' = IF k \in {"object", "unobject"} THEN [nreg EXCEPT ![n] = GetHash(t, n)] ELSE nreg
      BY DEF Steps
    <2> QED
      BY <2>1, <1>5 DEF PosixTypes
  <1>7. newid' \in [Threads -> Ids \cup {NoId}]
    <2>1. newid' = [newid EXCEPT ![t] =
                    IF k \in {"hash", "unhash"} /\ nreg[n] = NoId THEN CalcHash(n) ELSE NoId]
      BY DEF Steps
    <2>2. k \in {"hash", "unhash"} => CalcHash(n) \in Ids
      BY <1>1, CalcHashFree DEF PFits, NewKinds, OldKinds
    <2> QED
      BY <2>1, <2>2 DEF PosixTypes
  <1>8. /\ filter' \in [Keys -> [left : Nat, refs : {0, 1}]]
        /\ \A x \in Keys : filter'[x].refs = 1 => filter'[x].left > 0
    <2>1. ASSUME filter' = filter
          PROVE  /\ filter' \in [Keys -> [left : Nat, refs : {0, 1}]]
                 /\ \A x \in Keys : filter'[x].refs = 1 => filter'[x].left > 0
      BY <2>1 DEF PosixTypes
    <2>2. ASSUME NEW c \in {"alloc", "free"}, NEW r, NEW i, <<r, i>> \in Keys, Fed(c, r, i)
          PROVE  /\ filter' \in [Keys -> [left : Nat, refs : {0, 1}]]
                 /\ \A x \in Keys : filter'[x].refs = 1 => filter'[x].left > 0
      BY <2>2, FilterFed
    <2>3. CASE k \in {"creat", "hash", "open", "file", "unhash", "map"}
      BY <2>1, <2>3 DEF Steps
    <2>4. CASE k = "close" /\ fdreg[f] # "posix"
      BY <2>1, <2>4 DEF Steps
    <2>5. CASE k \in {"fd", "close"} /\ filter' # filter
      <3>1. f \in Fds
        BY <1>1, <2>5 DEF PFits, OpenKinds
      <3>2. Fed("alloc", "pshmfd", f) \/ Fed("free", "pshmfd", f)
        BY <2>5 DEF Steps
      <3> QED
        BY <3>1, <3>2, <2>2, KeysAre
    <2>6. CASE k \in {"object", "unobject"}
      <3>1. Fed("alloc", "pshmobj", GetHash(t, n)) \/ Fed("free", "pshmobj", GetHash(t, n))
        BY <2>6 DEF Steps
      <3> QED
        BY <3>1, <2>2, <2>6, <1>5, KeysAre
    <2>7. CASE k \in {"mapped", "unmap"}
      <3>1. a \in Addrs
        BY <1>1, <2>7 DEF PFits, MapKinds
      <3>2. Fed("alloc", MapType(f), a) \/ Fed("free", MapType(addr[a]), a)
        BY <2>7 DEF Steps
      <3>3. <<MapType(f), a>> \in Keys /\ <<MapType(addr[a]), a>> \in Keys
        BY <3>1, MapTypeIs, KeysAre
      <3> QED
        BY <3>2, <3>3, <2>2
    <2> QED
      BY <1>1, <2>1, <2>3, <2>4, <2>5, <2>6, <2>7 DEF PFits, OpenKinds, MapKinds, OldKinds
  <1> QED
    BY <1>2, <1>3, <1>4, <1>6, <1>7, <1>8 DEF PosixTypes, Typed

(***************************************************************************)
(* Where a step changes the report.                                        *)
(***************************************************************************)
LEMMA Untold ==
    ASSUME PosixTypes, NewIds, NEW t \in Threads, NEW k, NEW f, NEW n, NEW a, Steps(t, k, f, n, a),
           NEW key \in Keys,
           ~(k \in {"fd", "close"} /\ key = <<"pshmfd", f>>),
           ~(k \in {"object", "unobject"} /\ key = <<"pshmobj", GetHash(t, n)>>),
           ~(k \in {"mapped", "unmap"} /\ \E m \in MapTypes : key = <<m, a>>)
    PROVE  filter'[key] = filter[key]
  <1>1. PFits(k, f, n, a) /\ PKind(t) = k /\ PName(t) = n
    BY DEF Steps
  <1>2. ASSUME NEW c \in {"alloc", "free"}, NEW r, NEW i, <<r, i>> \in Keys, Fed(c, r, i),
               key # <<r, i>>
        PROVE  filter'[key] = filter[key]
    BY <1>2, FilterFed
  <1>3. CASE k \in {"creat", "hash", "open", "file", "unhash", "map"}
    BY <1>3 DEF Steps
  <1>4. CASE k = "close" /\ fdreg[f] # "posix"
    BY <1>4 DEF Steps
  <1>5. CASE k = "fd" \/ (k = "close" /\ fdreg[f] = "posix")
    <2>1. f \in Fds
      BY <1>1, <1>5 DEF PFits, OpenKinds
    <2>2. Fed("alloc", "pshmfd", f) \/ Fed("free", "pshmfd", f)
      BY <1>5 DEF Steps
    <2> QED
      BY <2>1, <2>2, <1>2, <1>5, KeysAre
  <1>6. CASE k \in {"object", "unobject"}
    <2>1. Fed("alloc", "pshmobj", GetHash(t, n)) \/ Fed("free", "pshmobj", GetHash(t, n))
      BY <1>6 DEF Steps
    <2>2. n \in Names
      BY <1>1, <1>6 DEF PFits, NewKinds, OldKinds
    <2>3. GetHash(t, n) \in Ids
      BY <1>1, <1>6, <2>2, GetHashIs
    <2> QED
      BY <2>1, <2>3, <1>2, <1>6, KeysAre
  <1>7. CASE k \in {"mapped", "unmap"}
    <2>1. a \in Addrs
      BY <1>1, <1>7 DEF PFits, MapKinds
    <2>2. Fed("alloc", MapType(f), a) \/ Fed("free", MapType(addr[a]), a)
      BY <1>7 DEF Steps
    <2>3. /\ <<MapType(f), a>> \in Keys /\ <<MapType(addr[a]), a>> \in Keys
          /\ key # <<MapType(f), a>> /\ key # <<MapType(addr[a]), a>>
      BY <2>1, <1>7, MapTypeIs, KeysAre
    <2> QED
      BY <2>2, <2>3, <1>2
  <1> QED
    BY <1>1, <1>3, <1>4, <1>5, <1>6, <1>7 DEF PFits, OpenKinds, MapKinds, OldKinds

LEMMA UntoldFd ==
    ASSUME PosixTypes, NewIds, NEW t \in Threads, NEW k, NEW f, NEW n, NEW a, Steps(t, k, f, n, a),
           NEW g \in Fds, ~(k \in {"fd", "close"} /\ f = g)
    PROVE  FdEntry(g)' = FdEntry(g)
  <1>1. <<"pshmfd", g>> \in Keys /\ \A m \in MapTypes : <<"pshmfd", g>> # <<m, a>>
    BY KeysAre DEF MapTypes
  <1>2. f # g => <<"pshmfd", g>> # <<"pshmfd", f>>
    OBVIOUS
  <1>3. <<"pshmfd", g>> # <<"pshmobj", GetHash(t, n)>>
    OBVIOUS
  <1> QED
    BY <1>1, <1>2, <1>3, Untold DEF FdEntry

LEMMA UntoldMap ==
    ASSUME PosixTypes, NewIds, NEW t \in Threads, NEW k, NEW f, NEW n, NEW a, Steps(t, k, f, n, a),
           NEW b \in Addrs, ~(k \in {"mapped", "unmap"} /\ a = b), NEW m \in MapTypes
    PROVE  filter'[<<m, b>>] = filter[<<m, b>>]
  <1>1. <<m, b>> \in Keys /\ (a # b => \A l \in MapTypes : <<m, b>> # <<l, a>>)
    BY KeysAre
  <1>2. <<m, b>> # <<"pshmobj", GetHash(t, n)>> /\ <<m, b>> # <<"pshmfd", f>>
    BY DEF MapTypes
  <1> QED
    BY <1>1, <1>2, Untold

LEMMA UntoldObject ==
    ASSUME PosixTypes, NewIds, NEW t \in Threads, NEW k, NEW f, NEW n, NEW a, Steps(t, k, f, n, a),
           NEW i \in Ids, ~(k \in {"object", "unobject"} /\ i = GetHash(t, n))
    PROVE  filter'[<<"pshmobj", i>>] = filter[<<"pshmobj", i>>]
  <1>1. <<"pshmobj", i>> \in Keys /\ \A m \in MapTypes : <<"pshmobj", i>> # <<m, a>>
    BY KeysAre DEF MapTypes
  <1>2. i # GetHash(t, n) => <<"pshmobj", i>> # <<"pshmobj", GetHash(t, n)>>
    OBVIOUS
  <1>3. <<"pshmobj", i>> # <<"pshmfd", f>>
    OBVIOUS
  <1> QED
    BY <1>1, <1>2, <1>3, Untold

(***************************************************************************)
(* Descriptors.                                                            *)
(***************************************************************************)
FdKinds == OpenKinds \cup {"close"}

(* Threads that are not at a descriptor leave what they see of it.         *)
LEMMA FdOthers ==
    ASSUME NEW t \in Threads, NEW k, NEW f, NEW n, NEW a, PMoves(t, k, f, n, a),
           NEW g \in Fds, NEW u \in Threads,
           u = t => /\ ~(PKind(t) \in FdKinds /\ PFd(t) = g)
                    /\ ~(k \in FdKinds /\ f = g)
    PROVE  /\ Opening(u, g)' <=> Opening(u, g)
           /\ ClosingBy(u, g)' <=> ClosingBy(u, g)
           /\ Opening(u, g) => PKind(u)' = PKind(u)
  BY DEF PMoves, Opening, ClosingBy, PKind, PFd, FdKinds

LEMMA FdFrame ==
    ASSUME NEW g \in Fds, FdInv(g), NEW t \in Threads, NEW k, NEW f, NEW n, NEW a,
           PMoves(t, k, f, n, a),
           ~(PKind(t) \in FdKinds /\ PFd(t) = g), ~(k \in FdKinds /\ f = g),
           kfd'[g] = kfd[g], fdreg'[g] = fdreg[g], FdEntry(g)' = FdEntry(g),
           g \in busy' <=> g \in busy, g \in raced => g \in raced'
    PROVE  FdInv(g)'
  <1>1. \A u \in Threads : /\ Opening(u, g)' <=> Opening(u, g)
                           /\ ClosingBy(u, g)' <=> ClosingBy(u, g)
                           /\ Opening(u, g) => PKind(u)' = PKind(u)
    BY FdOthers
  <1>2. g \notin raced' => FdExact(g)'
    BY <1>1 DEF FdInv, FdExact
  <1> QED
    BY <1>1, <1>2 DEF FdInv

LEMMA FdGivenOut ==
    ASSUME PosixTypes, NEW g \in Fds, FdInv(g), NEW t \in Threads,
           NEW k \in {"creat", "open", "file"}, NEW n, NEW a, PMoves(t, k, g, n, a),
           PKind(t) = "idle", kfd[g] = "free", kfd' = [kfd EXCEPT ![g] = StoredType(k)],
           UNCHANGED <<fdreg, filter>>, GiveOut(g, Closing(g))
    PROVE  FdInv(g)'
  <1>1. \A u \in Threads : ~Opening(u, g)
    BY DEF FdInv
  <1>2. \A u \in Threads : u # t => (~Opening(u, g)' /\ (ClosingBy(u, g)' <=> ClosingBy(u, g)))
    BY <1>1, FdOthers
  <1>3. Opening(t, g)' /\ PKind(t)' = k /\ ~ClosingBy(t, g)' /\ kfd'[g] = StoredType(k)
    BY DEF PMoves, Opening, ClosingBy, PKind, PFd, OpenKinds, PosixTypes
  <1>4. g \in busy' /\ (g \notin raced' => g \notin raced /\ \A u \in Threads : ~ClosingBy(u, g))
    BY PThreads DEF GiveOut
  <1>5. g \notin raced' => FdExact(g)'
    <2> SUFFICES ASSUME g \notin raced' PROVE FdExact(g)'
      OBVIOUS
    <2>1. g \notin busy /\ FdEntry(g).left = 0
      BY <1>1, <1>4 DEF FdInv, FdExact
    <2>2. FdEntry(g)' = FdEntry(g)
      BY DEF FdEntry
    <2> QED
      BY <2>1, <2>2, <1>2, <1>3, <1>4 DEF FdExact
  <1> QED
    BY <1>2, <1>3, <1>4, <1>5 DEF FdInv, StoredType

LEMMA FdClosed ==
    ASSUME PosixTypes, NEW g \in Fds, FdInv(g), NEW t \in Threads, NEW n, NEW a,
           PMoves(t, "close", g, n, a), PKind(t) = "idle", kfd[g] # "free", g \notin busy,
           kfd' = [kfd EXCEPT ![g] = "free"], UNCHANGED <<fdreg, filter, busy, raced>>
    PROVE  FdInv(g)'
  <1>1. \A u \in Threads : ~Opening(u, g)
    BY DEF FdInv
  <1>2. \A u \in Threads : u # t => (~Opening(u, g)' /\ (ClosingBy(u, g)' <=> ClosingBy(u, g)))
    BY <1>1, FdOthers
  <1>3. ~Opening(t, g)' /\ ClosingBy(t, g)' /\ kfd'[g] = "free"
    BY DEF PMoves, Opening, ClosingBy, PKind, PFd, OpenKinds, PosixTypes
  <1>4. g \notin raced => FdExact(g)'
    <2> SUFFICES ASSUME g \notin raced PROVE FdExact(g)'
      OBVIOUS
    <2>1. FdExact(g) /\ FdEntry(g)' = FdEntry(g) /\ kfd[g] \in {"posix", "file", "other"}
      BY DEF FdEntry, FdInv, PosixTypes
    <2> QED
      BY <2>1, <1>2, <1>3 DEF FdExact
  <1> QED
    BY <1>2, <1>3, <1>4 DEF FdInv

LEMMA FdUntraced ==
    ASSUME PosixTypes, NEW f \in Fds, OpenUntraced(f), NEW g \in Fds, FdInv(g)
    PROVE  FdInv(g)'
  <1>1. /\ kfd[f] = "free" /\ kfd' = [kfd EXCEPT ![f] = "other"]
        /\ UNCHANGED <<fdreg, todo, busy, filter, raced>>
    BY DEF OpenUntraced
  <1>2. \A u \in Threads : /\ Opening(u, g)' <=> Opening(u, g)
                           /\ ClosingBy(u, g)' <=> ClosingBy(u, g)
                           /\ PKind(u)' = PKind(u)
    BY <1>1 DEF Opening, ClosingBy, PKind, PFd
  <1>3. FdEntry(g)' = FdEntry(g)
    BY <1>1 DEF FdEntry
  <1>4. CASE g = f
    <2>1. kfd'[g] = "other" /\ kfd[g] = "free"
      BY <1>1, <1>4 DEF PosixTypes
    <2>2. \A u \in Threads : ~Opening(u, g)
      BY <2>1 DEF FdInv
    <2>3. g \notin raced => FdExact(g)'
      BY <2>1, <2>2, <1>1, <1>2, <1>3 DEF FdInv, FdExact
    <2> QED
      BY <2>1, <2>2, <2>3, <1>1, <1>2 DEF FdInv
  <1>5. CASE g # f
    <2>1. kfd'[g] = kfd[g]
      BY <1>1, <1>5 DEF PosixTypes
    <2>2. g \notin raced => FdExact(g)'
      BY <2>1, <1>1, <1>2, <1>3 DEF FdInv, FdExact
    <2> QED
      BY <2>1, <2>2, <1>1, <1>2 DEF FdInv
  <1> QED
    BY <1>4, <1>5

LEMMA FdStepped ==
    ASSUME PosixTypes, NewIds, NEW t \in Threads, NEW k, NEW f, NEW n, NEW a, Steps(t, k, f, n, a),
           NEW g \in Fds, FdInv(g)
    PROVE  FdInv(g)'
  <1>1. /\ PMoves(t, PAfter(k), PFdAfter(k, f), PNameAfter(k, n), PAtAfter(k, a))
        /\ PFits(k, f, n, a) /\ PKind(t) = k /\ PFd(t) = f
        /\ UNCHANGED <<kfd, raced>>
        /\ fdreg' = IF Stores(k) THEN [fdreg EXCEPT ![f] = StoredType(k)] ELSE fdreg
        /\ busy' = CASE k \in {"fd", "file"} -> busy \ {f} [] k = "mapped" -> busy \ {a}
                     [] OTHER -> busy
    BY DEF Steps
  <1>2. k = "mapped" => a # g
    BY <1>1, ProcessAssumption DEF PFits, MapKinds
  <1>3. CASE ~(k \in FdKinds /\ f = g)
    <2>1. ~(PAfter(k) \in FdKinds /\ PFdAfter(k, f) = g)
      BY <1>1, <1>3 DEF PAfter, PFdAfter, FdKinds, OpenKinds, PFits, MapKinds, OldKinds
    <2>2. fdreg'[g] = fdreg[g]
      BY <1>1, <1>3 DEF Stores, FdKinds, OpenKinds, PosixTypes
    <2>3. FdEntry(g)' = FdEntry(g)
      BY <1>3, UntoldFd DEF FdKinds, OpenKinds
    <2>4. g \in busy' <=> g \in busy
      BY <1>1, <1>2, <1>3 DEF FdKinds, OpenKinds
    <2> HIDE DEF Steps
    <2> QED
      BY <1>1, <1>3, <2>1, <2>2, <2>3, <2>4, FdFrame
  <1>4. CASE k \in FdKinds /\ f = g
    <2>1. \A u \in Threads : u # t => /\ Opening(u, g)' <=> Opening(u, g)
                                      /\ ClosingBy(u, g)' <=> ClosingBy(u, g)
                                      /\ Opening(u, g) => PKind(u)' = PKind(u)
      BY <1>1, FdOthers
    <2>2. PKind(t)' = PAfter(k) /\ PFd(t)' = PFdAfter(k, f)
      BY <1>1 DEF PMoves, PKind, PFd
    <2>3. CASE k \in {"creat", "hash", "object", "open"}
      <3>1. Opening(t, g) /\ Opening(t, g)' /\ ~ClosingBy(t, g) /\ ~ClosingBy(t, g)'
        BY <1>1, <1>4, <2>2, <2>3 DEF Opening, ClosingBy, PAfter, PFdAfter, OpenKinds
      <3>2. FdEntry(g)' = FdEntry(g) /\ busy' = busy /\ raced' = raced /\ kfd' = kfd
        BY <1>1, <2>3, UntoldFd
      <3>3. k \in {"creat", "open"} => fdreg'[g] = "posix"
        BY <1>1, <1>4 DEF Stores, StoredType, PosixTypes
      <3>4. k \in {"hash", "object"} => fdreg'[g] = fdreg[g]
        BY <1>1 DEF Stores
      <3>5. PKind(t) = k /\ PKind(t)' \in {"hash", "object", "fd"}
        BY <1>1, <2>2, <2>3 DEF PAfter
      <3>6. g \in busy /\ \A u \in Threads : Opening(u, g) => u = t
        BY <3>1 DEF FdInv
      <3>7. g \notin raced => FdExact(g)'
        BY <2>1, <3>1, <3>2, <3>3, <3>4, <3>5, <3>6, <2>3 DEF FdInv, FdExact
      <3> QED
        BY <2>1, <2>3, <3>1, <3>2, <3>5, <3>6, <3>7 DEF FdInv
    <2>4. CASE k \in {"fd", "file"}
      <3>1. Opening(t, g) /\ ~Opening(t, g)' /\ ~ClosingBy(t, g) /\ ~ClosingBy(t, g)'
        BY <1>1, <1>4, <2>2, <2>4 DEF Opening, ClosingBy, PAfter, PFdAfter, OpenKinds
      <3>2. busy' = busy \ {g} /\ raced' = raced /\ kfd' = kfd
        BY <1>1, <1>4, <2>4
      <3>3. PKind(t) = k
        BY <1>1
      <3>4. g \in busy /\ \A u \in Threads : Opening(u, g) => u = t
        BY <3>1 DEF FdInv
      <3>5. kfd[g] = IF k = "file" THEN "file" ELSE "posix"
        BY <3>1, <3>3 DEF FdInv
      <3>6. g \notin raced => FdExact(g)'
        <4> SUFFICES ASSUME g \notin raced PROVE FdExact(g)'
          OBVIOUS
        <4>1. FdEntry(g).left = 0 /\ \A u \in Threads : ~ClosingBy(u, g)
          BY <3>4 DEF FdInv, FdExact
        <4>2. CASE k = "file"
          <5>1. FdEntry(g)' = FdEntry(g)
            BY <4>2, UntoldFd
          <5> QED
            BY <5>1, <4>1, <4>2, <2>1, <3>1, <3>2, <3>5 DEF FdExact
        <4>3. CASE k = "fd"
          <5>1. fdreg[g] = "posix" /\ fdreg' = fdreg
            BY <1>1, <3>1, <3>3, <3>4, <4>3 DEF FdInv, FdExact, Stores
          <5>2. FdEntry(g)' = [left |-> FdEntry(g).left + 1, refs |-> 1]
            BY <4>3, <1>4, FilterFed, KeysAre DEF Steps, FdEntry
          <5>3. FdEntry(g)' = [left |-> 1, refs |-> 1]
            BY <5>2, <4>1
          <5> QED
            BY <5>1, <5>3, <4>1, <4>3, <2>1, <3>1, <3>2, <3>5 DEF FdExact
        <4> QED
          BY <2>4, <4>2, <4>3
      <3> QED
        BY <2>1, <3>1, <3>2, <3>4, <3>6 DEF FdInv
    <2>5. CASE k = "close"
      <3>1. ~Opening(t, g) /\ ~Opening(t, g)' /\ ClosingBy(t, g) /\ ~ClosingBy(t, g)'
        BY <1>1, <1>4, <2>2, <2>5 DEF Opening, ClosingBy, PAfter, PFdAfter, OpenKinds
      <3>2. busy' = busy /\ raced' = raced /\ kfd' = kfd /\ fdreg' = fdreg
        BY <1>1, <2>5 DEF Stores
      <3>3. g \notin raced => FdExact(g)'
        <4> SUFFICES ASSUME g \notin raced PROVE FdExact(g)'
          OBVIOUS
        <4>1. g \notin busy /\ kfd[g] \in {"free", "other"}
          BY <3>1 DEF FdInv, FdExact, PosixTypes
        <4>2. \/ FdEntry(g).left = 0
              \/ FdEntry(g) = [left |-> 1, refs |-> 1] /\ fdreg[g] = "posix"
          BY <4>1 DEF FdInv, FdExact
        <4>3. FdEntry(g)'.left = 0
          <5>1. CASE fdreg[g] = "posix"
            <6>1. /\ FdEntry(g)' = IF FdEntry(g).refs = 0 THEN FdEntry(g)
                                   ELSE [left |-> FdEntry(g).left - 1, refs |-> 0]
                  /\ FdEntry(g).refs \in {0, 1} /\ (FdEntry(g).refs = 1 => FdEntry(g).left > 0)
              BY <5>1, <2>5, <1>4, FilterFed, KeysAre DEF Steps, FdEntry
            <6> QED
              BY <6>1, <4>2
          <5>2. CASE fdreg[g] # "posix"
            <6>1. FdEntry(g)' = FdEntry(g)
              BY <5>2, <2>5, <1>4 DEF Steps, FdEntry
            <6> QED
              BY <6>1, <5>2, <4>2
          <5> QED
            BY <5>1, <5>2
        <4> QED
          BY <4>1, <4>3, <3>2 DEF FdExact
      <3> QED
        BY <2>1, <3>1, <3>2, <3>3 DEF FdInv
    <2> QED
      BY <1>4, <2>3, <2>4, <2>5 DEF FdKinds, OpenKinds
  <1> QED
    BY <1>3, <1>4

(***************************************************************************)
(* Addresses.                                                              *)
(***************************************************************************)
AtKinds == MapKinds \cup {"unmap"}

LEMMA MapOthers ==
    ASSUME NEW t \in Threads, NEW k, NEW f, NEW n, NEW a, PMoves(t, k, f, n, a),
           NEW b \in Addrs, NEW u \in Threads,
           u = t => /\ ~(PKind(t) \in AtKinds /\ PAt(t) = b)
                    /\ ~(k \in AtKinds /\ a = b)
    PROVE  /\ Mapping(u, b)' <=> Mapping(u, b)
           /\ (u \in Unmappers(b))' <=> u \in Unmappers(b)
           /\ Mapping(u, b) => PKind(u)' = PKind(u) /\ PFd(u)' = PFd(u)
  BY DEF PMoves, Mapping, Unmappers, PKind, PFd, PAt, AtKinds

LEMMA UnmappersAre ==
    ASSUME NEW b \in Addrs
    PROVE  /\ IsFiniteSet(Unmappers(b)) /\ Cardinality(Unmappers(b)) \in Nat
           /\ Unmappers(b) \subseteq Threads
  <1>1. Unmappers(b) \in SUBSET Threads
    BY DEF Unmappers
  <1> QED
    BY <1>1, ProcessAssumption, FS_Subset, FS_CardinalityType

LEMMA LeftsAre ==
    ASSUME PosixTypes, NEW b \in Addrs
    PROVE  /\ \A m \in MapTypes : /\ MapLeft(m, b) \in Nat /\ filter[<<m, b>>].left = MapLeft(m, b)
                                  /\ filter[<<m, b>>] \in [left : Nat, refs : {0, 1}]
                                  /\ filter[<<m, b>>].refs = 1 => MapLeft(m, b) > 0
           /\ Lefts(b) \in Nat
  <1>1. \A m \in MapTypes : filter[<<m, b>>] \in [left : Nat, refs : {0, 1}]
    BY KeysAre DEF PosixTypes
  <1>2. \A m \in MapTypes : filter[<<m, b>>].refs = 1 => MapLeft(m, b) > 0
    BY KeysAre DEF PosixTypes, MapLeft
  <1>3. \A m \in MapTypes : MapLeft(m, b) \in Nat
    BY <1>1 DEF MapLeft
  <1>4. Lefts(b) \in Nat
    BY <1>3 DEF Lefts, MapTypes
  <1> QED
    BY <1>1, <1>2, <1>3, <1>4 DEF MapLeft

LEMMA MapFrame ==
    ASSUME NEW b \in Addrs, MapInv(b), NEW t \in Threads, NEW k, NEW f, NEW n, NEW a,
           PMoves(t, k, f, n, a),
           ~(PKind(t) \in AtKinds /\ PAt(t) = b), ~(k \in AtKinds /\ a = b),
           kmap'[b] = kmap[b], addr'[b] = addr[b],
           \A m \in MapTypes : filter'[<<m, b>>] = filter[<<m, b>>],
           b \in busy' <=> b \in busy, b \in raced \cup confused => b \in raced' \cup confused',
           (b \notin raced' \cup confused' /\ (Live(b) \/ Unmappers(b) # {})) =>
                MapType(addr[b])' = MapType(addr[b])
    PROVE  MapInv(b)'
  <1>1. \A u \in Threads : /\ Mapping(u, b)' <=> Mapping(u, b)
                           /\ (u \in Unmappers(b))' <=> u \in Unmappers(b)
                           /\ Mapping(u, b) => PKind(u)' = PKind(u) /\ PFd(u)' = PFd(u)
    BY MapOthers
  <1>2. Unmappers(b)' = Unmappers(b)
    <2>1. Unmappers(b)' \subseteq Threads /\ Unmappers(b) \subseteq Threads
      BY DEF Unmappers
    <2> QED
      BY <1>1, <2>1
  <1>3. \A m \in MapTypes : MapLeft(m, b)' = MapLeft(m, b)
    BY DEF MapLeft
  <1>4. Lefts(b)' = Lefts(b)
    BY <1>3 DEF Lefts, MapTypes
  <1>5. Live(b)' <=> Live(b)
    BY DEF Live
  <1>6. b \notin raced' \cup confused' => MapExact(b)'
    <2> SUFFICES ASSUME b \notin raced' \cup confused' PROVE MapExact(b)'
      OBVIOUS
    <2>1. MapExact(b)
      BY DEF MapInv
    <2> QED
      BY <1>1, <1>2, <1>3, <1>5, <2>1 DEF MapExact
  <1>7. (b \in busy <=> \E u \in Threads : Mapping(u, b))'
    BY <1>1 DEF MapInv
  <1>8. (\A u \in Threads : Mapping(u, b) =>
            kmap[b] # "free" /\ \A v \in Threads : Mapping(v, b) => v = u)'
    BY <1>1 DEF MapInv
  <1>9. (Lefts(b) >= Cardinality(Unmappers(b)) + (IF Live(b) THEN 1 ELSE 0))'
    BY <1>2, <1>4, <1>5 DEF MapInv
  <1> QED
    BY <1>6, <1>7, <1>8, <1>9 DEF MapInv

LEMMA MapGivenOut ==
    ASSUME PosixTypes, NEW b \in Addrs, MapInv(b), NEW t \in Threads, NEW f, NEW n,
           PMoves(t, "map", f, n, b), PKind(t) = "idle", kmap[b] = "free", kmap'[b] # "free",
           UNCHANGED <<fdreg, addr, filter, confused>>, GiveOut(b, Unmapping(b))
    PROVE  MapInv(b)'
  <1>1. \A u \in Threads : ~Mapping(u, b)
    BY DEF MapInv
  <1>2. \A u \in Threads : u # t => ~Mapping(u, b)' /\ ((u \in Unmappers(b))' <=> u \in Unmappers(b))
    BY <1>1, MapOthers
  <1>3. Mapping(t, b)' /\ t \notin Unmappers(b) /\ ~(t \in Unmappers(b))' /\ PKind(t)' = "map"
    BY DEF PMoves, Mapping, Unmappers, PKind, PAt, MapKinds
  <1>4. Unmappers(b)' = Unmappers(b)
    <2>1. Unmappers(b)' \subseteq Threads /\ Unmappers(b) \subseteq Threads
      BY DEF Unmappers
    <2> QED
      BY <1>2, <1>3, <2>1
  <1>5. b \in busy' /\ (b \notin raced' => b \notin raced /\ Unmappers(b) = {})
    BY PThreads DEF GiveOut
  <1>6. /\ \A m \in MapTypes : MapLeft(m, b)' = MapLeft(m, b)
        /\ Lefts(b)' = Lefts(b)
    BY DEF MapLeft, Lefts
  <1>7. ~Live(b)' /\ ~Live(b)
    BY <1>5 DEF Live
  <1>8. b \notin raced' \cup confused' => MapExact(b)'
    <2> SUFFICES ASSUME b \notin raced' \cup confused' PROVE MapExact(b)'
      OBVIOUS
    <2>1. MapExact(b) /\ Unmappers(b) = {}
      BY <1>5 DEF MapInv
    <2>2. \A m \in MapTypes : MapLeft(m, b) = 0
      BY <2>1 DEF MapExact
    <2>3. \A u \in Threads : ~(Mapping(u, b) /\ PKind(u) = "mapped")'
      BY <1>2, <1>3
    <2> QED
      BY <1>4, <1>6, <1>7, <2>1, <2>2, <2>3 DEF MapExact
  <1>9. (Lefts(b) >= Cardinality(Unmappers(b)) + (IF Live(b) THEN 1 ELSE 0))'
    BY <1>4, <1>6, <1>7 DEF MapInv
  <1> QED
    BY <1>2, <1>3, <1>5, <1>8, <1>9 DEF MapInv

LEMMA MapReleased ==
    ASSUME PosixTypes, NEW b \in Addrs, MapInv(b), NEW t \in Threads, NEW f, NEW n,
           PMoves(t, "unmap", f, n, b), PKind(t) = "idle", kmap[b] # "free", b \notin busy,
           kmap' = [kmap EXCEPT ![b] = "free"],
           UNCHANGED <<fdreg, addr, filter, busy, raced, confused>>
    PROVE  MapInv(b)'
  <1>1. \A u \in Threads : ~Mapping(u, b)
    BY DEF MapInv
  <1>2. \A u \in Threads : u # t => ~Mapping(u, b)' /\ ((u \in Unmappers(b))' <=> u \in Unmappers(b))
    BY <1>1, MapOthers
  <1>3. ~Mapping(t, b)' /\ t \notin Unmappers(b) /\ (t \in Unmappers(b))' /\ kmap'[b] = "free"
    BY DEF PMoves, Mapping, Unmappers, PKind, PAt, MapKinds, PosixTypes
  <1>4. Unmappers(b)' = Unmappers(b) \cup {t}
    <2>1. Unmappers(b)' \subseteq Threads /\ Unmappers(b) \subseteq Threads
      BY DEF Unmappers
    <2> QED
      BY <1>2, <1>3, <2>1
  <1>5. Cardinality(Unmappers(b)') = Cardinality(Unmappers(b)) + 1
    BY <1>3, <1>4, UnmappersAre, FS_AddElement
  <1>6. /\ \A m \in MapTypes : MapLeft(m, b)' = MapLeft(m, b)
        /\ Lefts(b)' = Lefts(b)
    BY DEF MapLeft, Lefts
  <1>7. ~Live(b)' /\ Live(b)
    BY <1>3 DEF Live
  <1>8. b \notin raced' \cup confused' => MapExact(b)'
    <2> SUFFICES ASSUME b \notin raced' \cup confused' PROVE MapExact(b)'
      OBVIOUS
    <2>1. MapExact(b)
      BY DEF MapInv
    <2>2. Unmappers(b) = {} /\ Unmappers(b)' = {t}
      BY <2>1, <1>4 DEF MapExact
    <2>3. MapType(addr[b])' = MapType(addr[b])
      BY DEF MapType
    <2> QED
      BY <1>3, <1>7, <2>1, <2>2, <2>3 DEF MapExact
  <1>9. (Lefts(b) >= Cardinality(Unmappers(b)) + (IF Live(b) THEN 1 ELSE 0))'
    BY <1>5, <1>6, <1>7, UnmappersAre, LeftsAre DEF MapInv
  <1> QED
    BY <1>1, <1>2, <1>3, <1>8, <1>9 DEF MapInv

(* The three numbers of calls of an address when one of them changes.      *)
LEMMA LeftsMove ==
    ASSUME PosixTypes, PosixTypes', NEW b \in Addrs, NEW l \in MapTypes, NEW d \in Int,
           MapLeft(l, b)' = MapLeft(l, b) + d,
           \A m \in MapTypes : m # l => MapLeft(m, b)' = MapLeft(m, b)
    PROVE  Lefts(b)' = Lefts(b) + d
  <1>1. \A m \in MapTypes : MapLeft(m, b) \in Nat
    BY LeftsAre
  <1>2. l \in {"pshmmap", "fshmmap", "shmmap"} /\ MapTypes = {"pshmmap", "fshmmap", "shmmap"}
    BY DEF MapTypes
  <1>3. CASE l = "pshmmap"
    BY <1>1, <1>2, <1>3 DEF Lefts
  <1>4. CASE l = "fshmmap"
    BY <1>1, <1>2, <1>4 DEF Lefts
  <1>5. CASE l = "shmmap"
    BY <1>1, <1>2, <1>5 DEF Lefts
  <1> QED
    BY <1>2, <1>3, <1>4, <1>5

LEMMA MapStepped ==
    ASSUME PosixTypes, PosixTypes', NewIds, NEW t \in Threads, NEW k, NEW f, NEW n, NEW a,
           Steps(t, k, f, n, a), NEW b \in Addrs, MapInv(b)
    PROVE  MapInv(b)'
  <1>1. /\ PMoves(t, PAfter(k), PFdAfter(k, f), PNameAfter(k, n), PAtAfter(k, a))
        /\ PFits(k, f, n, a) /\ PKind(t) = k /\ PFd(t) = f /\ PAt(t) = a
        /\ UNCHANGED <<kmap, raced>>
        /\ fdreg' = IF Stores(k) THEN [fdreg EXCEPT ![f] = StoredType(k)] ELSE fdreg
        /\ confused' = IF Stores(k) THEN confused \cup Confuses(f, StoredType(k)) ELSE confused
        /\ addr' = IF k = "map" THEN [addr EXCEPT ![a] = f] ELSE addr
        /\ busy' = CASE k \in {"fd", "file"} -> busy \ {f} [] k = "mapped" -> busy \ {a}
                     [] OTHER -> busy
    BY DEF Steps
  <1>2. k \in {"fd", "file"} => f # b
    BY <1>1, ProcessAssumption DEF PFits, OpenKinds
  <1>3. CASE ~(k \in AtKinds /\ a = b)
    <2>1. ~(PAfter(k) \in AtKinds /\ PAtAfter(k, a) = b)
      BY <1>1, <1>3 DEF PAfter, PAtAfter, AtKinds, MapKinds
    <2>2. addr'[b] = addr[b]
      BY <1>1, <1>3 DEF AtKinds, MapKinds, PosixTypes
    <2>3. \A m \in MapTypes : filter'[<<m, b>>] = filter[<<m, b>>]
      BY <1>3, UntoldMap DEF AtKinds, MapKinds
    <2>4. b \in busy' <=> b \in busy
      BY <1>1, <1>2, <1>3 DEF AtKinds, MapKinds
    <2>5. b \in raced \cup confused => b \in raced' \cup confused'
      BY <1>1
    <2>6. ASSUME b \notin raced' \cup confused', Live(b) \/ Unmappers(b) # {}
          PROVE  MapType(addr[b])' = MapType(addr[b])
      <3>1. CASE ~Stores(k)
        BY <3>1, <1>1, <2>2 DEF MapType
      <3>2. CASE Stores(k)
        <4>1. b \notin Confuses(f, StoredType(k)) /\ f \in Fds
          BY <3>2, <2>6, <1>1 DEF Stores, PFits, OpenKinds
        <4>2. addr[b] # f \/ fdreg[f] = StoredType(k)
          BY <4>1, <2>6 DEF Confuses, Live
        <4>3. addr[b] # NoFd => addr[b] \in Fds
          BY DEF PosixTypes
        <4>4. addr[b] # NoFd => fdreg'[addr[b]] = fdreg[addr[b]]
          BY <4>1, <4>2, <4>3, <3>2, <1>1 DEF PosixTypes
        <4> QED
          BY <4>4, <2>2 DEF MapType
      <3> QED
        BY <3>1, <3>2
    <2> HIDE DEF Steps
    <2> QED
      BY <1>1, <1>3, <2>1, <2>2, <2>3, <2>4, <2>5, <2>6, MapFrame
  <1>4. CASE k \in AtKinds /\ a = b
    <2>1. /\ fdreg' = fdreg /\ confused' = confused /\ raced' = raced /\ kmap' = kmap
      BY <1>1, <1>4 DEF Stores, AtKinds, MapKinds
    <2>2. \A u \in Threads : u # t => /\ Mapping(u, b)' <=> Mapping(u, b)
                                      /\ (u \in Unmappers(b))' <=> u \in Unmappers(b)
                                      /\ Mapping(u, b) => PKind(u)' = PKind(u) /\ PFd(u)' = PFd(u)
      BY <1>1, MapOthers
    <2>3. Unmappers(b)' \subseteq Threads /\ Unmappers(b) \subseteq Threads
      BY DEF Unmappers
    <2>4. PKind(t)' = PAfter(k) /\ PFd(t)' = PFdAfter(k, f) /\ PAt(t)' = PAtAfter(k, a)
      BY <1>1 DEF PMoves, PKind, PFd, PAt
    <2>5. CASE k = "map"
      <3>1. Mapping(t, b) /\ Mapping(t, b)' /\ t \notin Unmappers(b) /\ ~(t \in Unmappers(b))'
        BY <1>1, <1>4, <2>4, <2>5 DEF Mapping, Unmappers, MapKinds, PAfter, PAtAfter
      <3>2. Unmappers(b)' = Unmappers(b)
        BY <2>2, <2>3, <3>1
      <3>3. \A m \in MapTypes : filter'[<<m, b>>] = filter[<<m, b>>]
        BY <2>5, UntoldMap
      <3>4. (\A m \in MapTypes : MapLeft(m, b)' = MapLeft(m, b)) /\ Lefts(b)' = Lefts(b)
        BY <3>3 DEF MapLeft, Lefts, MapTypes
      <3>5. busy' = busy /\ addr'[b] = f /\ PFd(t)' = f
        BY <1>1, <1>4, <2>4, <2>5 DEF PFdAfter, PAfter, PosixTypes
      <3>6. b \in busy /\ kmap[b] # "free" /\ \A u \in Threads : Mapping(u, b) => u = t
        BY <3>1 DEF MapInv
      <3>7. ~Live(b)' /\ ~Live(b)
        BY <3>5, <3>6 DEF Live
      <3>8. b \notin raced' \cup confused' => MapExact(b)'
        <4> SUFFICES ASSUME b \notin raced' \cup confused' PROVE MapExact(b)'
          OBVIOUS
        <4>1. MapExact(b) /\ Unmappers(b) = {} /\ \A m \in MapTypes : MapLeft(m, b) = 0
          BY <2>1, <3>6 DEF MapInv, MapExact
        <4>2. \A u \in Threads : (Mapping(u, b) => u = t)'
          BY <2>2, <3>6
        <4> QED
          BY <2>1, <3>2, <3>4, <3>5, <3>6, <3>7, <4>1, <4>2 DEF MapExact
      <3>9. (Lefts(b) >= Cardinality(Unmappers(b)) + (IF Live(b) THEN 1 ELSE 0))'
        BY <3>2, <3>4, <3>7 DEF MapInv
      <3> QED
        BY <2>1, <2>2, <3>1, <3>5, <3>6, <3>8, <3>9 DEF MapInv
    <2>6. CASE k = "mapped"
      <3>1. Mapping(t, b) /\ ~Mapping(t, b)' /\ t \notin Unmappers(b) /\ ~(t \in Unmappers(b))'
        BY <1>1, <1>4, <2>4, <2>6 DEF Mapping, Unmappers, MapKinds, PAfter, PAtAfter
      <3>2. Unmappers(b)' = Unmappers(b)
        BY <2>2, <2>3, <3>1
      <3>3. PICK l : l = MapType(f)
        OBVIOUS
      <3>4. l \in MapTypes /\ <<l, b>> \in Keys /\ Fed("alloc", l, b)
        BY <1>4, <2>6, <3>3, MapTypeIs, KeysAre DEF Steps
      <3>5. /\ filter'[<<l, b>>] = [left |-> filter[<<l, b>>].left + 1, refs |-> 1]
            /\ \A x \in Keys : x # <<l, b>> => filter'[x] = filter[x]
        BY <3>4, FilterFed
      <3>6. \A m \in MapTypes : m # l => filter'[<<m, b>>] = filter[<<m, b>>]
        BY <3>5, KeysAre
      <3>7. /\ MapLeft(l, b)' = MapLeft(l, b) + 1
            /\ \A m \in MapTypes : m # l => MapLeft(m, b)' = MapLeft(m, b)
        BY <3>5, <3>6 DEF MapLeft
      <3>8. Lefts(b)' = Lefts(b) + 1
        BY <3>4, <3>7, LeftsMove
      <3>9. busy' = busy \ {b} /\ addr' = addr
        BY <1>1, <1>4, <2>6
      <3>10. b \in busy /\ kmap[b] # "free" /\ \A u \in Threads : Mapping(u, b) => u = t
        BY <3>1 DEF MapInv
      <3>11. Live(b)' /\ ~Live(b) /\ b \notin busy'
        BY <2>1, <3>9, <3>10 DEF Live
      <3>12. b \notin raced' \cup confused' => MapExact(b)'
        <4> SUFFICES ASSUME b \notin raced' \cup confused' PROVE MapExact(b)'
          OBVIOUS
        <4>1. /\ MapExact(b) /\ Unmappers(b) = {} /\ \A m \in MapTypes : MapLeft(m, b) = 0
              /\ addr[b] = f
          BY <1>1, <2>1, <2>6, <3>1, <3>10 DEF MapInv, MapExact
        <4>2. MapType(addr[b])' = l
          BY <4>1, <2>1, <3>3, <3>9 DEF MapType
        <4>3. filter'[<<l, b>>] = [left |-> 1, refs |-> 1]
          BY <4>1, <3>4, <3>5 DEF MapLeft
        <4>4. ASSUME NEW m \in MapTypes, m # l
              PROVE  filter'[<<m, b>>] = [left |-> 0, refs |-> 0]
          <5>1. /\ filter[<<m, b>>] \in [left : Nat, refs : {0, 1}]
                /\ filter[<<m, b>>].left = 0 /\ ~(filter[<<m, b>>].refs = 1)
            BY <4>1, LeftsAre DEF MapLeft
          <5> QED
            BY <5>1, <4>4, <3>6
        <4> QED
          BY <2>1, <3>2, <3>10, <3>11, <4>1, <4>2, <4>3, <4>4 DEF MapExact
      <3>13. (Lefts(b) >= Cardinality(Unmappers(b)) + (IF Live(b) THEN 1 ELSE 0))'
        BY <3>2, <3>8, <3>11, UnmappersAre, LeftsAre DEF MapInv
      <3> QED
        BY <2>1, <2>2, <3>1, <3>10, <3>11, <3>12, <3>13 DEF MapInv
    <2>7. CASE k = "unmap"
      <3>1. ~Mapping(t, b) /\ ~Mapping(t, b)' /\ t \in Unmappers(b) /\ ~(t \in Unmappers(b))'
        BY <1>1, <1>4, <2>4, <2>7 DEF Mapping, Unmappers, MapKinds, PAfter, PAtAfter
      <3>2. Unmappers(b)' = Unmappers(b) \ {t}
        BY <2>2, <2>3, <3>1
      <3>3. Cardinality(Unmappers(b)') = Cardinality(Unmappers(b)) - 1
        BY <3>1, <3>2, UnmappersAre, FS_RemoveElement
      <3>4. PICK l : l = MapType(addr[b])
        OBVIOUS
      <3>5. l \in MapTypes /\ <<l, b>> \in Keys /\ Fed("free", l, b)
        BY <1>4, <2>7, <3>4, MapTypeIs, KeysAre DEF Steps
      <3>6. PICK e : e = filter[<<l, b>>]
        OBVIOUS
      <3>7. /\ filter'[<<l, b>>] = IF e.refs = 0 THEN e ELSE [left |-> e.left - 1, refs |-> 0]
            /\ \A x \in Keys : x # <<l, b>> => filter'[x] = filter[x]
            /\ e.left \in Nat /\ e.refs \in {0, 1}
        BY <3>5, <3>6, FilterFed
      <3>8. \A m \in MapTypes : m # l => filter'[<<m, b>>] = filter[<<m, b>>]
        BY <3>7, KeysAre
      <3>9. PICK d \in Int : d >= -1 /\ MapLeft(l, b)' = MapLeft(l, b) + d
        <4>1. filter'[<<l, b>>].left = e.left + 0 \/ filter'[<<l, b>>].left = e.left + (-1)
          BY <3>7
        <4> QED
          BY <4>1, <3>6 DEF MapLeft
      <3>10. \A m \in MapTypes : m # l => MapLeft(m, b)' = MapLeft(m, b)
        BY <3>8 DEF MapLeft
      <3>11. Lefts(b)' = Lefts(b) + d
        BY <3>5, <3>9, <3>10, LeftsMove
      <3>12. busy' = busy /\ addr' = addr
        BY <1>1, <2>7
      <3>13. Live(b)' <=> Live(b)
        BY <2>1, <3>12 DEF Live
      <3>14. b \notin raced' \cup confused' => MapExact(b)'
        <4> SUFFICES ASSUME b \notin raced' \cup confused' PROVE MapExact(b)'
          OBVIOUS
        <4>1. MapExact(b)
          BY <2>1 DEF MapInv
        <4>2. kmap[b] = "free" /\ Unmappers(b) = {t} /\ Unmappers(b)' = {}
          BY <4>1, <3>1, <3>2 DEF MapExact
        <4>3. \A m \in MapTypes : filter[<<m, b>>] = IF m = l THEN [left |-> 1, refs |-> 1]
                                                              ELSE [left |-> 0, refs |-> 0]
          BY <4>1, <4>2, <3>4 DEF MapExact
        <4>4. \A m \in MapTypes : MapLeft(m, b)' = 0
          BY <4>3, <3>5, <3>6, <3>7, <3>8 DEF MapLeft
        <4>5. ~Live(b)' /\ \A u \in Threads : ~Mapping(u, b)'
          BY <4>2, <2>1, <2>2, <3>1 DEF Live, MapInv
        <4> QED
          BY <2>1, <4>2, <4>4, <4>5 DEF MapExact
      <3>15. (Lefts(b) >= Cardinality(Unmappers(b)) + (IF Live(b) THEN 1 ELSE 0))'
        BY <3>3, <3>9, <3>11, <3>13, UnmappersAre, LeftsAre DEF MapInv
      <3> QED
        BY <2>1, <2>2, <3>1, <3>12, <3>14, <3>15 DEF MapInv
    <2> QED
      BY <1>4, <2>5, <2>6, <2>7 DEF AtKinds, MapKinds
  <1> QED
    BY <1>3, <1>4

(***************************************************************************)
(* Objects.  The same counts for any registry r of ids.                    *)
(***************************************************************************)
ObjectLeft(i)  == filter[<<"pshmobj", i>>].left
MakesAt(r, i)  == {t \in Threads : PKind(t) \in NewKinds /\ r[PName(t)] = i}
EndsAt(r, i)   == {t \in Threads : PKind(t) \in OldKinds /\ r[PName(t)] = i}
AlikeAt(r, i)  == {n \in kobj : r[n] = i}

LEMMA CountsAre ==
    ASSUME PosixTypes
    PROVE  /\ \A n : /\ IsFiniteSet(Makers(n)) /\ Cardinality(Makers(n)) \in Nat
                     /\ IsFiniteSet(Enders(n)) /\ Cardinality(Enders(n)) \in Nat
           /\ \A r, i : /\ IsFiniteSet(MakesAt(r, i)) /\ Cardinality(MakesAt(r, i)) \in Nat
                        /\ IsFiniteSet(EndsAt(r, i)) /\ Cardinality(EndsAt(r, i)) \in Nat
                        /\ IsFiniteSet(AlikeAt(r, i)) /\ Cardinality(AlikeAt(r, i)) \in Nat
           /\ \A i \in Ids : ObjectLeft(i) \in Nat
  <1>1. ASSUME NEW T, T \in SUBSET Threads \/ T \in SUBSET Names
        PROVE  IsFiniteSet(T) /\ Cardinality(T) \in Nat
    BY <1>1, ProcessAssumption, FS_Subset, FS_CardinalityType
  <1>2. ASSUME NEW n
        PROVE  /\ IsFiniteSet(Makers(n)) /\ Cardinality(Makers(n)) \in Nat
               /\ IsFiniteSet(Enders(n)) /\ Cardinality(Enders(n)) \in Nat
    <2>1. Makers(n) \in SUBSET Threads /\ Enders(n) \in SUBSET Threads
      BY DEF Makers, Enders
    <2> QED
      BY <2>1, <1>1
  <1>3. ASSUME NEW r, NEW i
        PROVE  /\ IsFiniteSet(MakesAt(r, i)) /\ Cardinality(MakesAt(r, i)) \in Nat
               /\ IsFiniteSet(EndsAt(r, i)) /\ Cardinality(EndsAt(r, i)) \in Nat
               /\ IsFiniteSet(AlikeAt(r, i)) /\ Cardinality(AlikeAt(r, i)) \in Nat
    <2>1. /\ MakesAt(r, i) \in SUBSET Threads /\ EndsAt(r, i) \in SUBSET Threads
          /\ AlikeAt(r, i) \in SUBSET Names
      BY DEF MakesAt, EndsAt, AlikeAt, PosixTypes
    <2> QED
      BY <2>1, <1>1
  <1>4. \A i \in Ids : ObjectLeft(i) \in Nat
    BY KeysAre DEF ObjectLeft, PosixTypes
  <1> QED
    BY <1>2, <1>3, <1>4

Counted(r, i) ==
    ObjectLeft(i) + Cardinality(MakesAt(r, i)) >=
        Cardinality(AlikeAt(r, i)) + Cardinality(EndsAt(r, i))

LEMMA CountedIs == ASSUME NEW i PROVE IdInv(i) <=> Counted(nreg, i)
  BY DEF IdInv, Counted, ObjectLeft, MakesAt, EndsAt, AlikeAt, Makes, Ends, Alike

LEMMA DisjointUnion ==
    ASSUME NEW A, NEW B, IsFiniteSet(A), IsFiniteSet(B), A \cap B = {}
    PROVE  Cardinality(A \cup B) = Cardinality(A) + Cardinality(B)
  <1>1. Cardinality(A) \in Nat /\ Cardinality(B) \in Nat /\ Cardinality(A \cap B) = 0
    BY FS_CardinalityType, FS_EmptySet
  <1>2. Cardinality(A \cup B) = Cardinality(A) + Cardinality(B) - Cardinality(A \cap B)
    BY FS_Union, Zenon
  <1> QED
    BY <1>1, <1>2

(* A name that gets the id i brings at least as many makers as it needs.   *)
LEMMA Registration ==
    ASSUME PosixTypes, NEW n \in Names, NEW i \in Ids, nreg[n] \in {i, NoId},
           NameInv(n), IdInv(i), NEW r, r = [nreg EXCEPT ![n] = i]
    PROVE  Counted(r, i)
  <1>1. Counted(nreg, i)
    BY CountedIs
  <1>2. CASE nreg[n] = i
    <2>1. r = nreg
      BY <1>2 DEF PosixTypes
    <2> QED
      BY <2>1, <1>1
  <1>3. CASE nreg[n] = NoId
    <2>1. i # NoId /\ r[n] = i /\ \A m \in Names : m # n => r[m] = nreg[m]
      BY BoundsAssumption DEF Ids, NoId, PosixTypes
    <2>2. \A t \in Threads : PKind(t) \in NewKinds \cup OldKinds => PName(t) \in Names
      BY PThreads DEF PFits, NewKinds, OldKinds
    <2>3. /\ MakesAt(r, i) = MakesAt(nreg, i) \cup Makers(n)
          /\ MakesAt(nreg, i) \cap Makers(n) = {}
      BY <1>3, <2>1, <2>2 DEF MakesAt, Makers
    <2>4. /\ EndsAt(r, i) = EndsAt(nreg, i) \cup Enders(n)
          /\ EndsAt(nreg, i) \cap Enders(n) = {}
      BY <1>3, <2>1, <2>2 DEF EndsAt, Enders
    <2>5. /\ Cardinality(MakesAt(r, i)) = Cardinality(MakesAt(nreg, i)) + Cardinality(Makers(n))
          /\ Cardinality(EndsAt(r, i)) = Cardinality(EndsAt(nreg, i)) + Cardinality(Enders(n))
      BY <2>3, <2>4, CountsAre, DisjointUnion
    <2>6. Cardinality(AlikeAt(r, i)) = Cardinality(AlikeAt(nreg, i)) + (IF n \in kobj THEN 1 ELSE 0)
      <3>1. CASE n \in kobj
        <4>1. AlikeAt(r, i) = AlikeAt(nreg, i) \cup {n} /\ n \notin AlikeAt(nreg, i)
          BY <1>3, <2>1, <3>1 DEF AlikeAt, PosixTypes
        <4> QED
          BY <4>1, <3>1, CountsAre, FS_AddElement
      <3>2. CASE n \notin kobj
        <4>1. AlikeAt(r, i) = AlikeAt(nreg, i)
          BY <2>1, <3>2 DEF AlikeAt, PosixTypes
        <4> QED
          BY <4>1, <3>2, CountsAre
      <3> QED
        BY <3>1, <3>2
    <2>7. Cardinality(Makers(n)) >= Cardinality(Enders(n)) + (IF n \in kobj THEN 1 ELSE 0)
      BY <1>3 DEF NameInv
    <2>8. /\ Cardinality(Makers(n)) \in Nat /\ Cardinality(Enders(n)) \in Nat
          /\ Cardinality(MakesAt(nreg, i)) \in Nat /\ Cardinality(EndsAt(nreg, i)) \in Nat
          /\ Cardinality(AlikeAt(nreg, i)) \in Nat /\ ObjectLeft(i) \in Nat
      BY CountsAre
    <2> QED
      BY <1>1, <2>5, <2>6, <2>7, <2>8 DEF Counted
  <1> QED
    BY <1>2, <1>3

ObjectKinds == NewKinds \cup OldKinds

LEMMA ObjectOthers ==
    ASSUME NEW t \in Threads, NEW k, NEW f, NEW n, NEW a, PMoves(t, k, f, n, a)
    PROVE  /\ \A u \in Threads : u # t => PKind(u)' = PKind(u) /\ PName(u)' = PName(u)
           /\ PKind(t)' = k /\ PName(t)' = n
  BY DEF PMoves, PKind, PName

(* A thread that begins or goes on without reporting an object.            *)
LEMMA ObjectFrame ==
    ASSUME NEW t \in Threads, NEW k, NEW f, NEW n, NEW a, PMoves(t, k, f, n, a),
           k \in NewKinds <=> PKind(t) \in NewKinds, k \in OldKinds <=> PKind(t) \in OldKinds,
           k \in ObjectKinds => n = PName(t),
           UNCHANGED <<kobj, nreg>>, \A i \in Ids : ObjectLeft(i)' = ObjectLeft(i),
           \A m \in Names : NameInv(m), \A i \in Ids : IdInv(i)
    PROVE  (\A m \in Names : NameInv(m)') /\ (\A i \in Ids : IdInv(i)')
  <1>1. \A u \in Threads : /\ PKind(u)' \in NewKinds <=> PKind(u) \in NewKinds
                           /\ PKind(u)' \in OldKinds <=> PKind(u) \in OldKinds
                           /\ PKind(u) \in ObjectKinds => PName(u)' = PName(u)
    BY ObjectOthers DEF ObjectKinds
  <1>2. ASSUME NEW m \in Names PROVE NameInv(m)'
    <2>1. Makers(m)' = Makers(m) /\ Enders(m)' = Enders(m)
      BY <1>1 DEF Makers, Enders, ObjectKinds
    <2> QED
      BY <2>1 DEF NameInv
  <1>3. ASSUME NEW i \in Ids PROVE IdInv(i)'
    <2>1. Makes(i)' = Makes(i) /\ Ends(i)' = Ends(i) /\ Alike(i)' = Alike(i)
      BY <1>1 DEF Makes, Ends, Alike, ObjectKinds
    <2> QED
      BY <2>1 DEF IdInv, ObjectLeft
  <1> QED
    BY <1>2, <1>3

LEMMA ObjectCreated ==
    ASSUME PosixTypes, NEW t \in Threads, NEW n \in Names, NEW f, NEW a,
           PMoves(t, "creat", f, n, a), PKind(t) = "idle", kobj' = kobj \cup {n},
           UNCHANGED <<nreg, filter>>,
           \A m \in Names : NameInv(m), \A i \in Ids : IdInv(i)
    PROVE  (\A m \in Names : NameInv(m)') /\ (\A i \in Ids : IdInv(i)')
  <1>1. /\ \A u \in Threads : u # t => PKind(u)' = PKind(u) /\ PName(u)' = PName(u)
        /\ PKind(t)' = "creat" /\ PName(t)' = n
    BY ObjectOthers
  <1>2. "creat" \in NewKinds /\ "creat" \notin OldKinds /\ "idle" \notin ObjectKinds
    BY DEF NewKinds, OldKinds, ObjectKinds
  <1>3. ASSUME NEW m \in Names PROVE NameInv(m)'
    <2>1. Enders(m)' = Enders(m)
      BY <1>1, <1>2 DEF Enders, ObjectKinds
    <2>2. CASE m = n
      <3>1. Makers(m)' = Makers(m) \cup {t} /\ t \notin Makers(m)
        BY <1>1, <1>2, <2>2 DEF Makers, ObjectKinds
      <3>2. Cardinality(Makers(m)') = Cardinality(Makers(m)) + 1
        BY <3>1, CountsAre, FS_AddElement
      <3>3. Cardinality(Makers(m)) \in Nat /\ Cardinality(Enders(m)) \in Nat
        BY CountsAre
      <3> QED
        BY <2>1, <2>2, <3>2, <3>3 DEF NameInv
    <2>3. CASE m # n
      <3>1. Makers(m)' = Makers(m)
        BY <1>1, <1>2, <2>3 DEF Makers, ObjectKinds
      <3> QED
        BY <2>1, <2>3, <3>1 DEF NameInv
    <2> QED
      BY <2>2, <2>3
  <1>4. ASSUME NEW i \in Ids PROVE IdInv(i)'
    <2>1. EndsAt(nreg, i)' = EndsAt(nreg, i) /\ ObjectLeft(i)' = ObjectLeft(i)
      BY <1>1, <1>2 DEF EndsAt, ObjectKinds, ObjectLeft
    <2>2. CASE nreg[n] = i
      <3>1. MakesAt(nreg, i)' = MakesAt(nreg, i) \cup {t} /\ t \notin MakesAt(nreg, i)
        BY <1>1, <1>2, <2>2 DEF MakesAt, ObjectKinds
      <3>2. AlikeAt(nreg, i)' = AlikeAt(nreg, i) \cup {n}
        BY <2>2 DEF AlikeAt
      <3>3. /\ Cardinality(MakesAt(nreg, i)') = Cardinality(MakesAt(nreg, i)) + 1
            /\ Cardinality(AlikeAt(nreg, i)') \in
                    {Cardinality(AlikeAt(nreg, i)), Cardinality(AlikeAt(nreg, i)) + 1}
        BY <3>1, <3>2, CountsAre, FS_AddElement
      <3>4. /\ Cardinality(MakesAt(nreg, i)) \in Nat /\ Cardinality(EndsAt(nreg, i)) \in Nat
            /\ Cardinality(AlikeAt(nreg, i)) \in Nat /\ ObjectLeft(i) \in Nat
        BY CountsAre
      <3>5. Counted(nreg, i)
        BY CountedIs
      <3>6. Counted(nreg, i)'
        BY <2>1, <3>3, <3>4, <3>5 DEF Counted
      <3> QED
        BY <3>6 DEF IdInv, Counted, ObjectLeft, MakesAt, EndsAt, AlikeAt, Makes, Ends, Alike
    <2>3. CASE nreg[n] # i
      <3>1. Makes(i)' = Makes(i) /\ Ends(i)' = Ends(i) /\ Alike(i)' = Alike(i)
        BY <1>1, <1>2, <2>3 DEF Makes, Ends, Alike, ObjectKinds
      <3> QED
        BY <3>1 DEF IdInv
    <2> QED
      BY <2>2, <2>3
  <1> QED
    BY <1>3, <1>4

LEMMA ObjectUnlinked ==
    ASSUME PosixTypes, NEW t \in Threads, NEW n \in kobj, NEW f, NEW a,
           PMoves(t, "unhash", f, n, a), PKind(t) = "idle", kobj' = kobj \ {n},
           UNCHANGED <<nreg, filter>>,
           \A m \in Names : NameInv(m), \A i \in Ids : IdInv(i)
    PROVE  (\A m \in Names : NameInv(m)') /\ (\A i \in Ids : IdInv(i)')
  <1>1. /\ \A u \in Threads : u # t => PKind(u)' = PKind(u) /\ PName(u)' = PName(u)
        /\ PKind(t)' = "unhash" /\ PName(t)' = n
    BY ObjectOthers
  <1>2. "unhash" \in OldKinds /\ "unhash" \notin NewKinds /\ "idle" \notin ObjectKinds
    BY DEF NewKinds, OldKinds, ObjectKinds
  <1>3. ASSUME NEW m \in Names PROVE NameInv(m)'
    <2>1. Makers(m)' = Makers(m)
      BY <1>1, <1>2 DEF Makers, ObjectKinds
    <2>2. CASE m = n
      <3>1. Enders(m)' = Enders(m) \cup {t} /\ t \notin Enders(m)
        BY <1>1, <1>2, <2>2 DEF Enders, ObjectKinds
      <3>2. Cardinality(Enders(m)') = Cardinality(Enders(m)) + 1
        BY <3>1, CountsAre, FS_AddElement
      <3>3. Cardinality(Makers(m)) \in Nat /\ Cardinality(Enders(m)) \in Nat
        BY CountsAre
      <3> QED
        BY <2>1, <2>2, <3>2, <3>3 DEF NameInv
    <2>3. CASE m # n
      <3>1. Enders(m)' = Enders(m)
        BY <1>1, <1>2, <2>3 DEF Enders, ObjectKinds
      <3> QED
        BY <2>1, <2>3, <3>1 DEF NameInv
    <2> QED
      BY <2>2, <2>3
  <1>4. ASSUME NEW i \in Ids PROVE IdInv(i)'
    <2>1. MakesAt(nreg, i)' = MakesAt(nreg, i) /\ ObjectLeft(i)' = ObjectLeft(i)
      BY <1>1, <1>2 DEF MakesAt, ObjectKinds, ObjectLeft
    <2>2. CASE nreg[n] = i
      <3>1. EndsAt(nreg, i)' = EndsAt(nreg, i) \cup {t} /\ t \notin EndsAt(nreg, i)
        BY <1>1, <1>2, <2>2 DEF EndsAt, ObjectKinds
      <3>2. AlikeAt(nreg, i)' = AlikeAt(nreg, i) \ {n} /\ n \in AlikeAt(nreg, i)
        BY <2>2 DEF AlikeAt
      <3>3. Cardinality(EndsAt(nreg, i)') = Cardinality(EndsAt(nreg, i)) + 1
        BY <3>1, CountsAre, FS_AddElement
      <3>4. Cardinality(AlikeAt(nreg, i)') = Cardinality(AlikeAt(nreg, i)) - 1
        BY <3>2, CountsAre, FS_RemoveElement
      <3>5. /\ Cardinality(MakesAt(nreg, i)) \in Nat /\ Cardinality(EndsAt(nreg, i)) \in Nat
            /\ Cardinality(AlikeAt(nreg, i)) \in Nat /\ ObjectLeft(i) \in Nat
        BY CountsAre
      <3>6. Counted(nreg, i)
        BY CountedIs
      <3>7. Counted(nreg, i)'
        BY <2>1, <3>3, <3>4, <3>5, <3>6 DEF Counted
      <3> QED
        BY <3>7 DEF IdInv, Counted, ObjectLeft, MakesAt, EndsAt, AlikeAt, Makes, Ends, Alike
    <2>3. CASE nreg[n] # i
      <3>1. Makes(i)' = Makes(i) /\ Ends(i)' = Ends(i) /\ Alike(i)' = Alike(i)
        BY <1>1, <1>2, <2>3 DEF Makes, Ends, Alike, ObjectKinds
      <3> QED
        BY <3>1 DEF IdInv
    <2> QED
      BY <2>2, <2>3
  <1> QED
    BY <1>3, <1>4

LEMMA ObjectTold ==
    ASSUME PosixTypes, PosixTypes', NewIds, NEW t \in Threads, NEW k \in {"object", "unobject"},
           NEW f, NEW n, NEW a, Steps(t, k, f, n, a),
           \A m \in Names : NameInv(m), \A i \in Ids : IdInv(i)
    PROVE  (\A m \in Names : NameInv(m)') /\ (\A i \in Ids : IdInv(i)')
  <1>1. /\ PMoves(t, PAfter(k), PFdAfter(k, f), PNameAfter(k, n), PAtAfter(k, a))
        /\ PKind(t) = k /\ PName(t) = n /\ n \in Names /\ kobj' = kobj
        /\ nreg' = [nreg EXCEPT ![n] = GetHash(t, n)]
    BY DEF Steps, PFits, NewKinds, OldKinds
  <1>2. PICK i \in Ids : i = GetHash(t, n) /\ i # NoId /\ nreg[n] \in {i, NoId}
    BY <1>1, GetHashIs
  <1>3. /\ \A u \in Threads : u # t => PKind(u)' = PKind(u) /\ PName(u)' = PName(u)
        /\ PKind(t)' \notin ObjectKinds
    BY <1>1, ObjectOthers DEF PAfter, ObjectKinds, NewKinds, OldKinds
  <1>4. nreg'[n] = i /\ \A m \in Names : m # n => nreg'[m] = nreg[m]
    BY <1>1, <1>2 DEF PosixTypes
  <1>5. \A u \in Threads : PKind(u) \in ObjectKinds => PName(u) \in Names
    BY PThreads DEF PFits, NewKinds, OldKinds, ObjectKinds
  <1>6. k \in NewKinds <=> k = "object"
    BY DEF NewKinds
  <1>7. k \in OldKinds <=> k = "unobject"
    BY DEF OldKinds
  <1>8. ASSUME NEW m \in Names PROVE NameInv(m)'
    <2>1. CASE m = n
      BY <2>1, <1>2, <1>4 DEF NameInv
    <2>2. CASE m # n
      <3>1. Makers(m)' = Makers(m) /\ Enders(m)' = Enders(m)
        BY <2>2, <1>1, <1>3 DEF Makers, Enders, ObjectKinds
      <3> QED
        BY <3>1, <2>2, <1>1, <1>4 DEF NameInv
    <2> QED
      BY <2>1, <2>2
  <1>9. IdInv(i)'
    <2>1. PICK r : r = nreg'
      OBVIOUS
    <2>2. Counted(r, i)
      BY <2>1, <1>1, <1>2, Registration
    <2>3. /\ MakesAt(nreg, i)' = IF k = "object" THEN MakesAt(r, i) \ {t} ELSE MakesAt(r, i)
          /\ k = "object" => t \in MakesAt(r, i)
      BY <2>1, <1>1, <1>3, <1>4, <1>6 DEF MakesAt, ObjectKinds
    <2>4. /\ EndsAt(nreg, i)' = IF k = "unobject" THEN EndsAt(r, i) \ {t} ELSE EndsAt(r, i)
          /\ k = "unobject" => t \in EndsAt(r, i)
      BY <2>1, <1>1, <1>3, <1>4, <1>7 DEF EndsAt, ObjectKinds
    <2>5. AlikeAt(nreg, i)' = AlikeAt(r, i)
      BY <2>1, <1>1 DEF AlikeAt
    <2>6. /\ Cardinality(MakesAt(r, i)) \in Nat /\ Cardinality(EndsAt(r, i)) \in Nat
          /\ Cardinality(AlikeAt(r, i)) \in Nat /\ ObjectLeft(i) \in Nat
      BY CountsAre
    <2>7. Counted(nreg, i)'
      <3>1. CASE k = "object"
        <4>1. Cardinality(MakesAt(nreg, i)') = Cardinality(MakesAt(r, i)) - 1
          BY <3>1, <2>3, CountsAre, FS_RemoveElement
        <4>2. EndsAt(nreg, i)' = EndsAt(r, i)
          BY <3>1, <2>4
        <4>3. filter'[<<"pshmobj", i>>] = [left |-> filter[<<"pshmobj", i>>].left + 1, refs |-> 1]
          BY <3>1, <1>2, FilterFed, KeysAre DEF Steps
        <4>4. ObjectLeft(i)' = ObjectLeft(i) + 1
          BY <4>3 DEF ObjectLeft
        <4> QED
          BY <4>1, <4>2, <4>4, <2>2, <2>5, <2>6 DEF Counted
      <3>2. CASE k = "unobject"
        <4>1. Cardinality(EndsAt(nreg, i)') = Cardinality(EndsAt(r, i)) - 1
          BY <3>2, <2>4, CountsAre, FS_RemoveElement
        <4>2. MakesAt(nreg, i)' = MakesAt(r, i)
          BY <3>2, <2>3
        <4>3. PICK e : e = filter[<<"pshmobj", i>>]
          OBVIOUS
        <4>4. filter'[<<"pshmobj", i>>] = IF e.refs = 0 THEN e ELSE [left |-> e.left - 1, refs |-> 0]
          BY <3>2, <1>2, <4>3, FilterFed, KeysAre DEF Steps
        <4>5. ObjectLeft(i)' = ObjectLeft(i) \/ ObjectLeft(i)' = ObjectLeft(i) - 1
          BY <4>3, <4>4 DEF ObjectLeft
        <4> QED
          BY <4>1, <4>2, <4>5, <2>2, <2>5, <2>6 DEF Counted
      <3> QED
        BY <3>1, <3>2
    <2> QED
      BY <2>7 DEF IdInv, Counted, ObjectLeft, MakesAt, EndsAt, AlikeAt, Makes, Ends, Alike
  <1>10. ASSUME NEW j \in Ids, j # i PROVE IdInv(j)'
    <2>1. j # NoId
      BY BoundsAssumption DEF Ids, NoId
    <2>2. Makes(j)' = Makes(j)
      BY <1>1, <1>2, <1>3, <1>4, <1>5, <1>10, <2>1 DEF Makes, ObjectKinds
    <2>3. Ends(j)' = Ends(j)
      BY <1>1, <1>2, <1>3, <1>4, <1>5, <1>10, <2>1 DEF Ends, ObjectKinds
    <2>4. Alike(j)' = Alike(j)
      BY <1>1, <1>2, <1>4, <1>10, <2>1 DEF Alike, PosixTypes
    <2>5. filter'[<<"pshmobj", j>>] = filter[<<"pshmobj", j>>]
      BY <1>2, <1>10, UntoldObject
    <2> QED
      BY <2>2, <2>3, <2>4, <2>5 DEF IdInv
  <1> QED
    BY <1>8, <1>9, <1>10

(***************************************************************************)
(* New ids.                                                                *)
(***************************************************************************)
LEMMA IdsBegun ==
    ASSUME NEW t \in Threads, NEW k, NEW f, NEW n, NEW a, PMoves(t, k, f, n, a),
           k \notin {"object", "unobject"}, PKind(t) = "idle", NewIds, Apart,
           UNCHANGED <<nreg, newid, clashed>>
    PROVE  NewIds' /\ Apart'
  <1>1. /\ \A u \in Threads : u # t => PKind(u)' = PKind(u) /\ PName(u)' = PName(u)
        /\ PKind(t)' = k
    BY ObjectOthers
  <1>2. NewIds'
    BY <1>1 DEF NewIds
  <1>3. Apart'
    BY DEF Apart, DistinctIds
  <1> QED
    BY <1>2, <1>3

LEMMA IdsStepped ==
    ASSUME PosixTypes, NEW t \in Threads, NEW k, NEW f, NEW n, NEW a, Steps(t, k, f, n, a),
           NewIds, Apart
    PROVE  NewIds' /\ Apart'
  <1>1. /\ PMoves(t, PAfter(k), PFdAfter(k, f), PNameAfter(k, n), PAtAfter(k, a))
        /\ PFits(k, f, n, a) /\ PKind(t) = k /\ PName(t) = n
        /\ nreg' = IF k \in {"object", "unobject"} THEN [nreg EXCEPT ![n] = GetHash(t, n)] ELSE nreg
        /\ newid' = [newid EXCEPT ![t] =
                    IF k \in {"hash", "unhash"} /\ nreg[n] = NoId THEN CalcHash(n) ELSE NoId]
        /\ clashed' = IF k \in {"hash", "unhash"} /\ nreg[n] = NoId
                      THEN clashed \/ \E u \in Threads : newid[u] # NoId ELSE clashed
    BY DEF Steps
  <1>2. /\ \A u \in Threads : u # t => PKind(u)' = PKind(u) /\ PName(u)' = PName(u)
        /\ PKind(t)' = PAfter(k) /\ PName(t)' = PNameAfter(k, n)
    BY <1>1, ObjectOthers
  <1>3. /\ newid'[t] = IF k \in {"hash", "unhash"} /\ nreg[n] = NoId THEN CalcHash(n) ELSE NoId
        /\ \A u \in Threads : u # t => newid'[u] = newid[u]
    BY <1>1 DEF PosixTypes
  <1>4. k \in {"hash", "unhash", "object", "unobject"} => n \in Names
    BY <1>1 DEF PFits, NewKinds, OldKinds
  <1>5. CASE k \in {"hash", "unhash"}
    <2>1. CalcHash(n) # NoId /\ \A m \in Names : nreg[m] # CalcHash(n)
      BY <1>4, <1>5, CalcHashFree
    <2>2. nreg' = nreg /\ PName(t)' = n /\ PKind(t)' \in {"object", "unobject"}
      BY <1>1, <1>2, <1>5 DEF PAfter, PNameAfter
    <2>3. NewIds'
      BY <1>2, <1>3, <1>5, <2>1, <2>2 DEF NewIds
    <2>4. CASE nreg[n] # NoId
      <3>1. newid[t] = NoId /\ newid'[t] = NoId /\ clashed' = clashed
        BY <1>1, <1>3, <1>5, <2>4 DEF NewIds
      <3>2. \A u \in Threads : newid'[u] = newid[u]
        BY <1>3, <3>1
      <3>3. Apart'
        BY <2>2, <3>1, <3>2 DEF Apart, DistinctIds
      <3> QED
        BY <2>3, <3>3
    <2>5. CASE nreg[n] = NoId
      <3>1. newid'[t] = CalcHash(n) /\ (clashed' <=> (clashed \/ \E u \in Threads : newid[u] # NoId))
        BY <1>1, <1>3, <1>5, <2>5
      <3>2. Apart'
        <4> SUFFICES ASSUME ~clashed'
                     PROVE  /\ \A x, y \in Threads : (newid'[x] # NoId /\ newid'[y] # NoId) => x = y
                            /\ \A x \in Threads, m \in Names : newid'[x] # NoId => nreg'[m] # newid'[x]
                            /\ DistinctIds'
          BY DEF Apart
        <4>1. ~clashed /\ \A u \in Threads : newid[u] = NoId
          BY <3>1
        <4>2. \A u \in Threads : u # t => newid'[u] = NoId
          BY <4>1, <1>3
        <4>3. DistinctIds'
          BY <4>1, <2>2 DEF Apart, DistinctIds
        <4> QED
          BY <4>2, <4>3, <3>1, <2>1, <2>2
      <3> QED
        BY <2>3, <3>2
    <2> QED
      BY <2>4, <2>5
  <1>6. CASE k \in {"object", "unobject"}
    <2>1. n \in Names /\ clashed' = clashed /\ newid'[t] = NoId
      BY <1>1, <1>3, <1>4, <1>6
    <2>2. PICK i : i = GetHash(t, n)
      OBVIOUS
    <2>3. /\ i # NoId /\ (nreg[n] # NoId => i = nreg[n])
          /\ (nreg[n] = NoId => i = newid[t])
      BY <1>1, <1>6, <2>1, <2>2, GetHashIs
    <2>4. nreg'[n] = i /\ \A m \in Names : m # n => nreg'[m] = nreg[m]
      BY <1>1, <1>6, <2>1, <2>2 DEF PosixTypes
    <2>5. NewIds'
      <3>1. PKind(t)' \notin {"object", "unobject"}
        BY <1>2, <1>6 DEF PAfter
      <3>2. \A u \in Threads : PKind(u) \in {"object", "unobject"} => PName(u) \in Names
        BY PThreads DEF PFits, NewKinds, OldKinds
      <3> QED
        BY <3>1, <3>2, <1>2, <1>3, <2>1, <2>3, <2>4 DEF NewIds
    <2>6. Apart'
      <3> SUFFICES ASSUME ~clashed'
                   PROVE  /\ \A x, y \in Threads : (newid'[x] # NoId /\ newid'[y] # NoId) => x = y
                          /\ \A x \in Threads, m \in Names : newid'[x] # NoId => nreg'[m] # newid'[x]
                          /\ DistinctIds'
        BY DEF Apart
      <3>1. /\ \A x, y \in Threads : (newid[x] # NoId /\ newid[y] # NoId) => x = y
            /\ \A x \in Threads, m \in Names : newid[x] # NoId => nreg[m] # newid[x]
            /\ \A l, m \in Names : (m # l /\ nreg[m] # NoId) => nreg[m] # nreg[l]
        BY <2>1 DEF Apart, DistinctIds
      <3>2. ASSUME NEW x \in Threads, newid'[x] # NoId
            PROVE  x # t /\ newid'[x] = newid[x] /\ (nreg[n] = NoId => newid[t] # NoId)
        BY <3>2, <1>3, <2>1, <2>3
      <3>3. \A x \in Threads, m \in Names : newid'[x] # NoId => nreg'[m] # newid'[x]
        BY <3>1, <3>2, <2>3, <2>4, <2>1
      <3>4. DistinctIds'
        <4>1. ASSUME NEW l \in Names, NEW m \in Names, m # l, nreg'[m] # NoId
              PROVE  nreg'[m] # nreg'[l]
          BY <4>1, <3>1, <2>1, <2>3, <2>4
        <4> QED
          BY <4>1 DEF DistinctIds
      <3> QED
        BY <3>1, <3>2, <3>3, <3>4
    <2> QED
      BY <2>5, <2>6
  <1>7. CASE k \notin {"hash", "unhash", "object", "unobject"}
    <2>1. newid[t] = NoId /\ newid'[t] = NoId /\ nreg' = nreg /\ clashed' = clashed
      BY <1>1, <1>3, <1>7 DEF NewIds
    <2>2. \A u \in Threads : newid'[u] = newid[u]
      BY <1>3, <2>1
    <2>3. PKind(t)' \notin {"object", "unobject"}
      BY <1>2, <1>7 DEF PAfter
    <2>4. NewIds'
      BY <1>2, <2>1, <2>2, <2>3 DEF NewIds
    <2>5. Apart'
      BY <2>1, <2>2 DEF Apart, DistinctIds
    <2> QED
      BY <2>4, <2>5
  <1> QED
    BY <1>5, <1>6, <1>7

(***************************************************************************)
(* Every step keeps the invariant.                                         *)
(***************************************************************************)
LEMMA PosixInitial == Init => PosixInv
  <1> SUFFICES ASSUME Init PROVE PosixInv
    OBVIOUS
  <1>1. \A t \in Threads : todo[t] = <<>> /\ PKind(t) = "idle"
    BY PIdle DEF Init, PKind
  <1>2. PosixTypes
    <2>1. \A t \in Threads : PWell(todo[t])
      BY <1>1, PIdle
    <2>2. filter = [k \in Keys |-> [left |-> 0, refs |-> 0]]
      BY DEF Init, NoCalls
    <2>3. /\ filter \in [Keys -> [left : Nat, refs : {0, 1}]]
          /\ \A k \in Keys : filter[k].refs = 1 => filter[k].left > 0
      BY <2>2
    <2>4. DOMAIN todo = Threads
      BY DEF Init
    <2> QED
      BY <2>1, <2>3, <2>4 DEF Init, PosixTypes, FdTypes
  <1>3. \A f \in Fds : FdInv(f)
    <2>1. \A f \in Fds : FdEntry(f).left = 0
      BY KeysAre DEF Init, NoCalls, FdEntry
    <2> QED
      BY <1>1, <2>1 DEF FdInv, FdExact, Init, Opening, ClosingBy, OpenKinds
  <1>4. ASSUME NEW a \in Addrs PROVE MapInv(a)
    <2>1. \A m \in MapTypes : MapLeft(m, a) = 0
      BY KeysAre DEF Init, NoCalls, MapLeft
    <2>2. Unmappers(a) = {} /\ \A t \in Threads : ~Mapping(t, a)
      BY <1>1 DEF Unmappers, Mapping, MapKinds
    <2>3. Lefts(a) = 0 /\ Cardinality(Unmappers(a)) = 0
      BY <2>1, <2>2, FS_EmptySet DEF Lefts, MapTypes
    <2>4. kmap[a] = "free" /\ a \notin busy
      BY DEF Init
    <2> QED
      BY <2>1, <2>2, <2>3, <2>4 DEF MapInv, MapExact, Live
  <1>5. ASSUME NEW n \in Names PROVE NameInv(n)
    <2>1. Makers(n) = {} /\ Enders(n) = {} /\ kobj = {}
      BY <1>1 DEF Makers, Enders, NewKinds, OldKinds, Init
    <2> QED
      BY <2>1, FS_EmptySet DEF NameInv
  <1>6. ASSUME NEW i \in Ids PROVE IdInv(i)
    <2>1. Makes(i) = {} /\ Ends(i) = {} /\ Alike(i) = {}
      BY <1>1 DEF Makes, Ends, Alike, NewKinds, OldKinds, Init
    <2>2. filter[<<"pshmobj", i>>].left = 0
      BY KeysAre DEF Init, NoCalls
    <2> QED
      BY <2>1, <2>2, FS_EmptySet DEF IdInv
  <1>7. NewIds
    BY <1>1 DEF NewIds, Init
  <1>8. Apart
    BY DEF Apart, DistinctIds, Init
  <1> QED
    BY <1>2, <1>3, <1>4, <1>5, <1>6, <1>7, <1>8 DEF PosixInv

(* A thread that begins a wrapper leaves all that the wrapper is not at.   *)
LEMMA BegunOthers ==
    ASSUME PosixInv, NEW t \in Threads, NEW k, NEW f, NEW n, NEW a, PMoves(t, k, f, n, a),
           PKind(t) = "idle", k \notin {"object", "unobject"}, Typed',
           UNCHANGED <<fdreg, addr, nreg, newid, filter, confused, clashed>>
    PROVE  /\ PosixTypes' /\ NewIds' /\ Apart'
           /\ \A g \in Fds :
                (/\ ~(k \in FdKinds /\ f = g) /\ kfd'[g] = kfd[g]
                 /\ g \in busy' <=> g \in busy
                 /\ g \in raced => g \in raced') => FdInv(g)'
           /\ \A b \in Addrs :
                (/\ ~(k \in AtKinds /\ a = b) /\ kmap'[b] = kmap[b]
                 /\ b \in busy' <=> b \in busy
                 /\ b \in raced => b \in raced') => MapInv(b)'
           /\ (k \notin ObjectKinds /\ kobj' = kobj) =>
                (\A m \in Names : NameInv(m)') /\ (\A i \in Ids : IdInv(i)')
  <1>1. PosixTypes' /\ NewIds' /\ Apart'
    BY BegunTypes, IdsBegun DEF PosixInv
  <1>2. "idle" \notin FdKinds /\ "idle" \notin AtKinds /\ "idle" \notin ObjectKinds
    BY DEF FdKinds, AtKinds, ObjectKinds, OpenKinds, MapKinds, NewKinds, OldKinds
  <1>3. ASSUME NEW g \in Fds, ~(k \in FdKinds /\ f = g), kfd'[g] = kfd[g],
               g \in busy' <=> g \in busy, g \in raced => g \in raced'
        PROVE  FdInv(g)'
    <2>1. FdEntry(g)' = FdEntry(g) /\ fdreg'[g] = fdreg[g] /\ FdInv(g)
      BY DEF FdEntry, PosixInv
    <2> QED
      BY <1>2, <1>3, <2>1, FdFrame
  <1>4. ASSUME NEW b \in Addrs, ~(k \in AtKinds /\ a = b), kmap'[b] = kmap[b],
               b \in busy' <=> b \in busy, b \in raced => b \in raced'
        PROVE  MapInv(b)'
    <2>1. /\ MapType(addr[b])' = MapType(addr[b]) /\ addr'[b] = addr[b] /\ MapInv(b)
          /\ \A m \in MapTypes : filter'[<<m, b>>] = filter[<<m, b>>]
          /\ b \in raced \cup confused => b \in raced' \cup confused'
      BY <1>4 DEF MapType, PosixInv
    <2> QED
      BY <1>2, <1>4, <2>1, MapFrame
  <1>5. ASSUME k \notin ObjectKinds, kobj' = kobj
        PROVE  (\A m \in Names : NameInv(m)') /\ (\A i \in Ids : IdInv(i)')
    <2>1. \A i \in Ids : ObjectLeft(i)' = ObjectLeft(i)
      BY DEF ObjectLeft
    <2> QED
      BY <1>2, <1>5, <2>1, ObjectFrame DEF ObjectKinds, PosixInv
  <1> QED
    BY <1>1, <1>3, <1>4, <1>5

LEMMA ShmOpenKeeps ==
    ASSUME PosixInv, NEW t \in Threads, NEW n \in Names, NEW f \in Fds, NEW creat \in BOOLEAN,
           ShmOpen(t, n, f, creat)
    PROVE  PosixInv'
  <1>1. PICK k, m : k = (IF creat THEN "creat" ELSE "open") /\ m = (IF creat THEN n ELSE NoFd)
    OBVIOUS
  <1>2. /\ kfd[f] = "free" /\ kfd' = [kfd EXCEPT ![f] = "posix"] /\ kobj' = kobj \cup {n}
        /\ (creat \/ n \in kobj) /\ kmap' = kmap /\ GiveOut(f, Closing(f))
        /\ Begin(t, PProg(k, f, m, NoFd))
    BY <1>1 DEF ShmOpen, PProg
  <1>3. PFits(k, f, m, NoFd)
    BY <1>1 DEF PFits, OpenKinds, MapKinds, NewKinds, OldKinds
  <1>4. PosixTypes
    BY DEF PosixInv
  <1>5. /\ PMoves(t, k, f, m, NoFd) /\ PKind(t) = "idle"
        /\ UNCHANGED <<fdreg, addr, nreg, newid, filter, confused, clashed>>
    BY <1>2, <1>3, <1>4, PBegins
  <1>6. Typed'
    BY <1>2, <1>4 DEF Typed, PosixTypes
  <1>7. k \notin AtKinds /\ k \notin {"object", "unobject"} /\ (k \in ObjectKinds <=> creat)
    BY <1>1 DEF AtKinds, MapKinds, ObjectKinds, NewKinds, OldKinds
  <1>8. /\ \A g \in Fds : g # f => kfd'[g] = kfd[g]
        /\ \A x : x # f => (x \in busy' <=> x \in busy)
        /\ raced \subseteq raced' /\ \A b \in Addrs : b # f
    BY <1>2, <1>4, ProcessAssumption DEF GiveOut, PosixTypes
  <1>9. /\ PosixTypes' /\ NewIds' /\ Apart'
        /\ \A g \in Fds : g # f => FdInv(g)'
        /\ \A b \in Addrs : MapInv(b)'
    BY <1>2, <1>5, <1>6, <1>7, <1>8, BegunOthers
  <1>10. FdInv(f)'
    <2>1. kfd' = [kfd EXCEPT ![f] = StoredType(k)] /\ k \in {"creat", "open", "file"}
      BY <1>1, <1>2 DEF StoredType
    <2> QED
      BY <2>1, <1>2, <1>4, <1>5, FdGivenOut DEF PosixInv
  <1>11. (\A x \in Names : NameInv(x)') /\ (\A i \in Ids : IdInv(i)')
    <2>1. CASE creat
      BY <2>1, <1>1, <1>2, <1>4, <1>5, ObjectCreated DEF PosixInv
    <2>2. CASE ~creat
      <3>1. kobj' = kobj
        BY <2>2, <1>2
      <3> QED
        BY <3>1, <2>2, <1>5, <1>6, <1>7, BegunOthers
    <2> QED
      BY <2>1, <2>2
  <1> QED
    BY <1>9, <1>10, <1>11 DEF PosixInv

LEMMA OpenKeeps ==
    ASSUME PosixInv, NEW t \in Threads, NEW f \in Fds, Open(t, f)
    PROVE  PosixInv'
  <1>1. PosixTypes
    BY DEF PosixInv
  <1>2. /\ kfd[f] = "free" /\ kfd' = [kfd EXCEPT ![f] = "file"] /\ kobj' = kobj
        /\ kmap' = kmap /\ GiveOut(f, Closing(f)) /\ Begin(t, PProg("file", f, NoFd, NoFd))
    BY DEF Open, PProg
  <1>3. PFits("file", f, NoFd, NoFd)
    BY DEF PFits, OpenKinds, MapKinds, NewKinds, OldKinds
  <1>4. /\ PMoves(t, "file", f, NoFd, NoFd) /\ PKind(t) = "idle"
        /\ UNCHANGED <<fdreg, addr, nreg, newid, filter, confused, clashed>>
    BY <1>1, <1>2, <1>3, PBegins
  <1>5. Typed'
    BY <1>1, <1>2 DEF Typed, PosixTypes
  <1>6. "file" \notin AtKinds /\ "file" \notin ObjectKinds
    BY DEF AtKinds, MapKinds, ObjectKinds, NewKinds, OldKinds
  <1>7. /\ \A g \in Fds : g # f => kfd'[g] = kfd[g]
        /\ \A x : x # f => (x \in busy' <=> x \in busy)
        /\ raced \subseteq raced' /\ \A b \in Addrs : b # f
    BY <1>1, <1>2, ProcessAssumption DEF GiveOut, PosixTypes
  <1>8. /\ PosixTypes' /\ NewIds' /\ Apart'
        /\ \A g \in Fds : g # f => FdInv(g)'
        /\ \A b \in Addrs : MapInv(b)'
        /\ (\A x \in Names : NameInv(x)') /\ (\A i \in Ids : IdInv(i)')
    BY <1>2, <1>4, <1>5, <1>6, <1>7, BegunOthers
  <1>9. FdInv(f)'
    <2>1. kfd' = [kfd EXCEPT ![f] = StoredType("file")]
      BY <1>2 DEF StoredType
    <2> QED
      BY <2>1, <1>1, <1>2, <1>4, FdGivenOut DEF PosixInv
  <1> QED
    BY <1>8, <1>9 DEF PosixInv

LEMMA CloseKeeps ==
    ASSUME PosixInv, NEW t \in Threads, NEW f \in Fds, Close(t, f)
    PROVE  PosixInv'
  <1>1. PosixTypes
    BY DEF PosixInv
  <1>2. /\ kfd[f] # "free" /\ f \notin busy /\ kfd' = [kfd EXCEPT ![f] = "free"]
        /\ UNCHANGED <<kmap, kobj, busy, raced>> /\ Begin(t, PProg("close", f, NoFd, NoFd))
    BY DEF Close, PProg
  <1>3. PFits("close", f, NoFd, NoFd)
    BY DEF PFits, OpenKinds, MapKinds, NewKinds, OldKinds
  <1>4. /\ PMoves(t, "close", f, NoFd, NoFd) /\ PKind(t) = "idle"
        /\ UNCHANGED <<fdreg, addr, nreg, newid, filter, confused, clashed>>
    BY <1>1, <1>2, <1>3, PBegins
  <1>5. Typed' /\ \A g \in Fds : g # f => kfd'[g] = kfd[g]
    BY <1>1, <1>2 DEF Typed, PosixTypes
  <1>6. "close" \notin AtKinds /\ "close" \notin ObjectKinds
    BY DEF AtKinds, MapKinds, ObjectKinds, NewKinds, OldKinds
  <1>7. /\ PosixTypes' /\ NewIds' /\ Apart'
        /\ \A g \in Fds : g # f => FdInv(g)'
        /\ \A b \in Addrs : MapInv(b)'
        /\ (\A x \in Names : NameInv(x)') /\ (\A i \in Ids : IdInv(i)')
    BY <1>2, <1>4, <1>5, <1>6, BegunOthers
  <1>8. FdInv(f)'
    BY <1>1, <1>2, <1>4, FdClosed DEF PosixInv
  <1> QED
    BY <1>7, <1>8 DEF PosixInv

LEMMA ShmUnlinkKeeps ==
    ASSUME PosixInv, NEW t \in Threads, NEW n \in Names, ShmUnlink(t, n)
    PROVE  PosixInv'
  <1>1. PosixTypes
    BY DEF PosixInv
  <1>2. /\ n \in kobj /\ kobj' = kobj \ {n}
        /\ UNCHANGED <<kfd, kmap, busy, raced>> /\ Begin(t, PProg("unhash", NoFd, n, NoFd))
    BY DEF ShmUnlink, PProg
  <1>3. PFits("unhash", NoFd, n, NoFd)
    BY DEF PFits, OpenKinds, MapKinds, NewKinds, OldKinds
  <1>4. /\ PMoves(t, "unhash", NoFd, n, NoFd) /\ PKind(t) = "idle"
        /\ UNCHANGED <<fdreg, addr, nreg, newid, filter, confused, clashed>>
    BY <1>1, <1>2, <1>3, PBegins
  <1>5. Typed'
    BY <1>1, <1>2 DEF Typed, PosixTypes
  <1>6. "unhash" \notin AtKinds /\ "unhash" \notin FdKinds
    BY DEF AtKinds, MapKinds, FdKinds, OpenKinds
  <1>7. /\ PosixTypes' /\ NewIds' /\ Apart'
        /\ \A g \in Fds : FdInv(g)'
        /\ \A b \in Addrs : MapInv(b)'
    BY <1>2, <1>4, <1>5, <1>6, BegunOthers
  <1>8. (\A x \in Names : NameInv(x)') /\ (\A i \in Ids : IdInv(i)')
    BY <1>1, <1>2, <1>4, ObjectUnlinked DEF PosixInv
  <1> QED
    BY <1>7, <1>8 DEF PosixInv

LEMMA MmapKeeps ==
    ASSUME PosixInv, NEW t \in Threads, NEW a \in Addrs, NEW f \in Fds \cup {NoFd}, Mmap(t, a, f)
    PROVE  PosixInv'
  <1>1. PosixTypes
    BY DEF PosixInv
  <1>2. /\ kmap[a] = "free" /\ UNCHANGED <<kfd, kobj>> /\ GiveOut(a, Unmapping(a))
        /\ Begin(t, PProg("map", f, NoFd, a))
    BY DEF Mmap, PProg
  <1>3. /\ kmap' \in [Addrs -> {"free", "posix", "file", "other", "anon"}] /\ kmap'[a] # "free"
        /\ \A b \in Addrs : b # a => kmap'[b] = kmap[b]
    <2>1. CASE f = NoFd
      BY <2>1, <1>1 DEF Mmap, PosixTypes
    <2>2. CASE f # NoFd
      <3>1. kfd[f] \in {"posix", "file", "other"} /\ kmap' = [kmap EXCEPT ![a] = kfd[f]]
        BY <2>2, <1>1 DEF Mmap, PosixTypes
      <3> QED
        BY <3>1, <1>1 DEF PosixTypes
    <2> QED
      BY <2>1, <2>2
  <1>4. PFits("map", f, NoFd, a)
    BY DEF PFits, OpenKinds, MapKinds, NewKinds, OldKinds
  <1>5. /\ PMoves(t, "map", f, NoFd, a) /\ PKind(t) = "idle"
        /\ UNCHANGED <<fdreg, addr, nreg, newid, filter, confused, clashed>>
    BY <1>1, <1>2, <1>4, PBegins
  <1>6. Typed'
    BY <1>1, <1>2, <1>3 DEF Typed, PosixTypes
  <1>7. "map" \notin FdKinds /\ "map" \notin ObjectKinds
    BY DEF FdKinds, OpenKinds, ObjectKinds, NewKinds, OldKinds
  <1>8. /\ \A x : x # a => (x \in busy' <=> x \in busy)
        /\ raced \subseteq raced' /\ \A g \in Fds : g # a
    BY <1>2, ProcessAssumption DEF GiveOut
  <1>9. /\ PosixTypes' /\ NewIds' /\ Apart'
        /\ \A g \in Fds : FdInv(g)'
        /\ \A b \in Addrs : b # a => MapInv(b)'
        /\ (\A x \in Names : NameInv(x)') /\ (\A i \in Ids : IdInv(i)')
    BY <1>2, <1>3, <1>5, <1>6, <1>7, <1>8, BegunOthers
  <1>10. MapInv(a)'
    BY <1>1, <1>2, <1>3, <1>5, MapGivenOut DEF PosixInv
  <1> QED
    BY <1>9, <1>10 DEF PosixInv

LEMMA MunmapKeeps ==
    ASSUME PosixInv, NEW t \in Threads, NEW a \in Addrs, Munmap(t, a)
    PROVE  PosixInv'
  <1>1. PosixTypes
    BY DEF PosixInv
  <1>2. /\ kmap[a] # "free" /\ a \notin busy /\ kmap' = [kmap EXCEPT ![a] = "free"]
        /\ UNCHANGED <<kfd, kobj, busy, raced>> /\ Begin(t, PProg("unmap", NoFd, NoFd, a))
    BY DEF Munmap, PProg
  <1>3. PFits("unmap", NoFd, NoFd, a)
    BY DEF PFits, OpenKinds, MapKinds, NewKinds, OldKinds
  <1>4. /\ PMoves(t, "unmap", NoFd, NoFd, a) /\ PKind(t) = "idle"
        /\ UNCHANGED <<fdreg, addr, nreg, newid, filter, confused, clashed>>
    BY <1>1, <1>2, <1>3, PBegins
  <1>5. Typed' /\ \A b \in Addrs : b # a => kmap'[b] = kmap[b]
    BY <1>1, <1>2 DEF Typed, PosixTypes
  <1>6. "unmap" \notin FdKinds /\ "unmap" \notin ObjectKinds
    BY DEF FdKinds, OpenKinds, ObjectKinds, NewKinds, OldKinds
  <1>7. /\ PosixTypes' /\ NewIds' /\ Apart'
        /\ \A g \in Fds : FdInv(g)'
        /\ \A b \in Addrs : b # a => MapInv(b)'
        /\ (\A x \in Names : NameInv(x)') /\ (\A i \in Ids : IdInv(i)')
    BY <1>2, <1>4, <1>5, <1>6, BegunOthers
  <1>8. MapInv(a)'
    BY <1>1, <1>2, <1>4, MapReleased DEF PosixInv
  <1> QED
    BY <1>7, <1>8 DEF PosixInv

LEMMA MapSame ==
    ASSUME NEW b \in Addrs, MapInv(b),
           UNCHANGED <<kmap, fdreg, addr, todo, busy, filter, raced, confused>>
    PROVE  MapInv(b)'
  <1>1. /\ Unmappers(b)' = Unmappers(b) /\ (Live(b)' <=> Live(b)) /\ Lefts(b)' = Lefts(b)
        /\ MapType(addr[b])' = MapType(addr[b])
        /\ \A m \in MapTypes : MapLeft(m, b)' = MapLeft(m, b)
        /\ \A t \in Threads : /\ (Mapping(t, b)' <=> Mapping(t, b))
                              /\ PKind(t)' = PKind(t) /\ PFd(t)' = PFd(t)
    BY DEF Unmappers, Live, Lefts, MapLeft, Mapping, MapType, PKind, PFd, PAt
  <1> QED
    BY <1>1 DEF MapInv, MapExact

LEMMA OpenUntracedKeeps ==
    ASSUME PosixInv, NEW f \in Fds, OpenUntraced(f)
    PROVE  PosixInv'
  <1>1. PosixTypes
    BY DEF PosixInv
  <1>2. /\ kfd' = [kfd EXCEPT ![f] = "other"]
        /\ UNCHANGED <<kmap, kobj, fdreg, addr, nreg, newid, todo, busy, filter, raced, confused,
                       clashed>>
    BY DEF OpenUntraced
  <1>3. PosixTypes'
    BY <1>1, <1>2 DEF PosixTypes
  <1>4. \A g \in Fds : FdInv(g)'
    BY <1>1, FdUntraced DEF PosixInv
  <1>5. \A b \in Addrs : MapInv(b)'
    BY <1>2, MapSame DEF PosixInv
  <1>6. ASSUME NEW n \in Names PROVE NameInv(n)'
    BY <1>2 DEF PosixInv, NameInv, Makers, Enders, PKind, PName
  <1>7. ASSUME NEW i \in Ids PROVE IdInv(i)'
    BY <1>2 DEF PosixInv, IdInv, Makes, Ends, Alike, PKind, PName
  <1>8. NewIds' /\ Apart'
    BY <1>2 DEF PosixInv, NewIds, Apart, DistinctIds, PKind, PName
  <1> QED
    BY <1>3, <1>4, <1>5, <1>6, <1>7, <1>8 DEF PosixInv

LEMMA WrapperStepKeeps ==
    ASSUME PosixInv, NEW t \in Threads, WrapperStep(t)
    PROVE  PosixInv'
  <1>1. /\ PosixTypes /\ NewIds /\ Apart
        /\ (\A m \in Names : NameInv(m)) /\ (\A i \in Ids : IdInv(i))
    BY DEF PosixInv
  <1>2. PICK k, f, n, a : k = PKind(t) /\ f = PFd(t) /\ n = PName(t) /\ a = PAt(t)
    OBVIOUS
  <1>3. Steps(t, k, f, n, a)
    BY <1>1, <1>2, WrapperSteps
  <1>4. PosixTypes'
    BY <1>1, <1>3, SteppedTypes
  <1>5. \A g \in Fds : FdInv(g)'
    BY <1>1, <1>3, FdStepped DEF PosixInv
  <1>6. \A b \in Addrs : MapInv(b)'
    BY <1>1, <1>3, <1>4, MapStepped DEF PosixInv
  <1>7. NewIds' /\ Apart'
    BY <1>1, <1>3, IdsStepped
  <1>8. (\A m \in Names : NameInv(m)') /\ (\A i \in Ids : IdInv(i)')
    <2>1. CASE k \in {"object", "unobject"}
      BY <2>1, <1>1, <1>3, <1>4, ObjectTold
    <2>2. CASE k \notin {"object", "unobject"}
      <3>1. /\ PMoves(t, PAfter(k), PFdAfter(k, f), PNameAfter(k, n), PAtAfter(k, a))
            /\ UNCHANGED <<kobj, nreg>>
        BY <1>3, <2>2 DEF Steps
      <3>2. \A i \in Ids : ObjectLeft(i)' = ObjectLeft(i)
        BY <1>1, <1>3, <2>2, UntoldObject DEF ObjectLeft
      <3>3. /\ PAfter(k) \in NewKinds <=> PKind(t) \in NewKinds
            /\ PAfter(k) \in OldKinds <=> PKind(t) \in OldKinds
            /\ PAfter(k) \in ObjectKinds => PNameAfter(k, n) = PName(t)
        BY <1>2, <2>2 DEF PAfter, PNameAfter, NewKinds, OldKinds, ObjectKinds
      <3> QED
        BY <1>1, <3>1, <3>2, <3>3, ObjectFrame
    <2> QED
      BY <2>1, <2>2
  <1> QED
    BY <1>4, <1>5, <1>6, <1>7, <1>8 DEF PosixInv

LEMMA PosixKeeps ==
    ASSUME PosixInv, Next
    PROVE  PosixInv'
  <1>1. Step
    BY DEF Next
  <1>2. CASE \E f \in Fds : OpenUntraced(f)
    BY <1>2, OpenUntracedKeeps
  <1>3. ASSUME NEW t \in Threads, WrapperStep(t) PROVE PosixInv'
    BY <1>3, WrapperStepKeeps
  <1>4. ASSUME NEW t \in Threads, NEW n \in Names, ShmUnlink(t, n) PROVE PosixInv'
    BY <1>4, ShmUnlinkKeeps
  <1>5. ASSUME NEW t \in Threads, NEW f \in Fds, Open(t, f) \/ Close(t, f) PROVE PosixInv'
    BY <1>5, OpenKeeps, CloseKeeps
  <1>6. ASSUME NEW t \in Threads, NEW f \in Fds, NEW n \in Names, NEW creat \in BOOLEAN,
               ShmOpen(t, n, f, creat)
        PROVE  PosixInv'
    BY <1>6, ShmOpenKeeps
  <1>7. ASSUME NEW t \in Threads, NEW a \in Addrs, Munmap(t, a) PROVE PosixInv'
    BY <1>7, MunmapKeeps
  <1>8. ASSUME NEW t \in Threads, NEW a \in Addrs, NEW f \in Fds \cup {NoFd}, Mmap(t, a, f)
        PROVE  PosixInv'
    BY <1>8, MmapKeeps
  <1> QED
    BY <1>1, <1>2, <1>3, <1>4, <1>5, <1>6, <1>7, <1>8 DEF Step

LEMMA MappingsReported ==
    ASSUME PosixInv
    PROVE  MappedIsReported /\ ExactMappings
  <1>1. PosixTypes /\ \A a \in Addrs : MapInv(a)
    BY DEF PosixInv
  <1>2. MappedIsReported
    <2>1. ASSUME NEW a \in Addrs, kmap[a] # "free", a \notin busy
          PROVE  \E m \in MapTypes : filter[<<m, a>>].left >= 1
      <3>1. Lefts(a) >= Cardinality(Unmappers(a)) + 1
        BY <1>1, <2>1 DEF MapInv, Live
      <3>2. /\ \A m \in MapTypes : MapLeft(m, a) \in Nat /\ filter[<<m, a>>].left = MapLeft(m, a)
            /\ Cardinality(Unmappers(a)) \in Nat
        BY <1>1, LeftsAre, UnmappersAre
      <3> QED
        BY <3>1, <3>2 DEF Lefts, MapTypes
    <2> QED
      BY <2>1 DEF MappedIsReported
  <1>3. ExactMappings
    <2>1. ASSUME NEW a \in Addrs, a \notin raced \cup confused \cup busy, Unmapping(a) = {},
                 NEW lefts, lefts = {m \in MapTypes : filter[<<m, a>>].left > 0}
          PROVE  IF kmap[a] = "free" THEN lefts = {}
                 ELSE Cardinality(lefts) = 1 /\ \A m \in lefts : filter[<<m, a>>].left = 1
      <3>1. MapExact(a) /\ Unmappers(a) = {}
        BY <1>1, <2>1, PThreads DEF MapInv
      <3>2. CASE kmap[a] = "free"
        <4>1. \A m \in MapTypes : filter[<<m, a>>].left = 0
          BY <3>1, <3>2 DEF MapExact, MapLeft
        <4> QED
          BY <4>1, <3>2, <2>1
      <3>3. CASE kmap[a] # "free"
        <4>1. PICK l \in MapTypes : l = MapType(addr[a])
          BY MapTypeIs
        <4>2. \A m \in MapTypes : filter[<<m, a>>] = IF m = l THEN [left |-> 1, refs |-> 1]
                                                              ELSE [left |-> 0, refs |-> 0]
          BY <2>1, <3>1, <3>3, <4>1 DEF MapExact, Live
        <4>3. /\ filter[<<l, a>>].left = 1
              /\ \A m \in MapTypes : m # l => filter[<<m, a>>].left = 0
          BY <4>2
        <4>4. lefts = {l}
          BY <4>3, <2>1
        <4>5. Cardinality(lefts) = 1
          BY <4>4, FS_Singleton
        <4> QED
          BY <4>3, <4>4, <4>5, <3>3
      <3> QED
        BY <3>2, <3>3
    <2> QED
      BY <2>1 DEF ExactMappings
  <1> QED
    BY <1>2, <1>3

LEMMA DescriptorsReported ==
    ASSUME PosixInv
    PROVE  ExactDescriptors
  <1>1. ASSUME NEW f \in Fds, f \notin raced \cup busy, Closing(f) = {}
        PROVE  filter[<<"pshmfd", f>>].left = IF kfd[f] = "posix" THEN 1 ELSE 0
    <2>1. FdExact(f) /\ \A t \in Threads : ~ClosingBy(t, f)
      BY <1>1, PThreads DEF PosixInv, FdInv
    <2>2. kfd[f] \in {"free", "posix", "file", "other"}
      BY DEF PosixInv, PosixTypes
    <2> QED
      BY <1>1, <2>1, <2>2 DEF FdExact, FdEntry
  <1> QED
    BY <1>1 DEF ExactDescriptors

LEMMA ObjectsReported ==
    ASSUME PosixInv
    PROVE  ObjectIsReported /\ DistinctIds
  <1>1. PosixTypes
    BY DEF PosixInv
  <1>2. ASSUME \A t \in Threads : todo[t] = <<>>, NEW n \in kobj
        PROVE  nreg[n] # NoId /\ filter[<<"pshmobj", nreg[n]>>].left >= 1
    <2>1. \A t \in Threads : PKind(t) \notin NewKinds \cup OldKinds
      BY <1>1, <1>2, PThreads DEF NewKinds, OldKinds
    <2>2. n \in Names /\ NameInv(n)
      BY DEF PosixInv, PosixTypes
    <2>3. Makers(n) = {} /\ Enders(n) = {}
      BY <2>1 DEF Makers, Enders
    <2>4. nreg[n] # NoId
      BY <2>2, <2>3, FS_EmptySet DEF NameInv
    <2>5. nreg[n] \in Ids
      BY <1>1, <2>2, <2>4 DEF PosixTypes
    <2>6. PICK i \in Ids : i = nreg[n]
      BY <2>5
    <2>7. Makes(i) = {} /\ Ends(i) = {}
      BY <2>1 DEF Makes, Ends
    <2>8. IdInv(i) /\ Cardinality(Makes(i)) = 0 /\ Cardinality(Ends(i)) = 0
      BY <2>7, FS_EmptySet DEF PosixInv
    <2>9. /\ Cardinality(AlikeAt(nreg, i)) \in Nat /\ IsFiniteSet(AlikeAt(nreg, i))
          /\ ObjectLeft(i) \in Nat
      BY <1>1, CountsAre
    <2>10. n \in AlikeAt(nreg, i) /\ AlikeAt(nreg, i) = Alike(i)
      BY <2>6 DEF AlikeAt, Alike
    <2>11. Cardinality(AlikeAt(nreg, i)) # 0
      BY <2>9, <2>10, FS_EmptySet
    <2> QED
      BY <2>4, <2>6, <2>8, <2>9, <2>10, <2>11 DEF IdInv, ObjectLeft
  <1>3. ObjectIsReported
    BY <1>2 DEF ObjectIsReported
  <1>4. DistinctIds
    BY DEF PosixInv, Apart, DistinctIds
  <1> QED
    BY <1>3, <1>4

LEMMA PosixInvariant == MCSpec => [](api = "posix" => PosixInv)
  <1> DEFINE I == api = "posix" => PosixInv
  <1>1. MCInit => I
    BY PosixInitial DEF MCInit
  <1>2. I /\ [MCNext]_<<vars, svars, api>> => I'
    <2> SUFFICES ASSUME I, [MCNext]_<<vars, svars, api>>, api' = "posix"
                 PROVE  PosixInv'
      OBVIOUS
    <2>1. CASE MCNext
      BY <2>1, PosixKeeps DEF MCNext
    <2>2. CASE UNCHANGED <<vars, svars, api>>
      <3>1. PosixInv /\ UNCHANGED <<kfd, kmap, kobj, fdreg, addr, nreg, newid, todo, busy, filter,
                                    raced, confused, clashed>>
        BY <2>2 DEF vars
      <3>2. PosixTypes'
        BY <3>1 DEF PosixInv, PosixTypes
      <3>3. \A f \in Fds : FdInv(f)'
        BY <3>1 DEF PosixInv, FdInv, FdExact, FdEntry, Opening, ClosingBy, PKind, PFd
      <3>4. \A a \in Addrs : MapInv(a)'
        BY <3>1, MapSame DEF PosixInv
      <3>5. (\A n \in Names : NameInv(n)') /\ (\A i \in Ids : IdInv(i)')
        BY <3>1 DEF PosixInv, NameInv, Makers, Enders, IdInv, Makes, Ends, Alike, PKind, PName
      <3>6. NewIds' /\ Apart'
        BY <3>1 DEF PosixInv, NewIds, Apart, DistinctIds, PKind, PName
      <3> QED
        BY <3>2, <3>3, <3>4, <3>5, <3>6 DEF PosixInv
    <2> QED
      BY <2>1, <2>2
  <1> QED
    BY <1>1, <1>2, PTL DEF MCSpec

(* For any number of threads, descriptors and addresses, and in every      *)
(* interleaving of the wrappers with each other and with opens that are    *)
(* not traced: an address that is mapped is in the leak report under one   *)
(* of the three mapping types.  A release that was overtaken by the next   *)
(* mmap of its address, or that was written under another type because     *)
(* fdreg changed, takes at most its own call out.                          *)
THEOREM PosixAddresses == MCSpec => []AddressIsReported
  <1>1. (api = "posix" => PosixInv) => AddressIsReported
    BY MappingsReported DEF AddressIsReported
  <1> QED
    BY <1>1, PosixInvariant, PTL

(* The report of mappings and descriptors is exact for every address and   *)
(* descriptor that was not given out again before its release was          *)
(* reported and whose descriptor kept its type: one call of one type while *)
(* it is mapped or open, none otherwise.  In particular the type that      *)
(* fdreg still knows after close(2) is that of what was closed.            *)
THEOREM PosixExact == MCSpec => []PosixReportIsExact
  <1>1. (api = "posix" => PosixInv) => PosixReportIsExact
    BY MappingsReported, DescriptorsReported DEF PosixReportIsExact
  <1> QED
    BY <1>1, PosixInvariant, PTL

(* When no wrapper is running, every object that exists has an id and a    *)
(* call in the report under it, in whatever order threads created and      *)
(* unlinked it and also when objects share an id; and nreg_calc_hash, for  *)
(* any raw hash, gives two names two ids unless two threads look for one   *)
(* at the same time.                                                       *)
THEOREM PosixObjects == MCSpec => []ObjectsHaveOwnIds
  <1>1. (api = "posix" => PosixInv) => ObjectsHaveOwnIds
    BY ObjectsReported DEF ObjectsHaveOwnIds
  <1> QED
    BY <1>1, PosixInvariant, PTL
=============================================================================
